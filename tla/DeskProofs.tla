----------------------------- MODULE DeskProofs -----------------------------
(***************************************************************************)
(* Theorems about the parts of MCDesk, for every value of their constants: *)
(* the terminal, the saved language and the input source that a window     *)
(* leaves, what is named and what is changed, the prompt, the rules        *)
(* between the columns with the keys of their programs, the reads of the   *)
(* download site, and what a part draws or reports.                        *)
(***************************************************************************)
EXTENDS MCDesk, SequenceTheorems, FiniteSetTheorems, WellFoundedInduction, TLAPS

-----------------------------------------------------------------------------
\* One part steps at a time: every step of the whole is a step of a part or leaves
\* its state as it is.
LEMMA PartSteps ==
  ASSUME [Next]_vars
  PROVE  /\ [Typing!KeyboardNext]_keys
         /\ [Speaking!LanguageNext]_language
         /\ [Selecting!InputNext]_inputs
         /\ [Downloading!PruneNext]_retention
         /\ [Downloading!DownloadsNext]_site
         /\ [Completing!CompletionNext]_completion
         /\ [Choosing!ThinkingNext]_thinking
         /\ [Serving!FilesNext]_files
         /\ [Serving!GitNext]_git
         /\ [PathNext]_commandPath
         /\ [LauncherNext]_launcher
         /\ [Dragging!DividerNext]_dividers
         /\ [Checking!CheckNext]_check
         /\ [Attaching!AttachNext]_attachment
         /\ [Inking!CellsNext]_cells
BY DEF Next, vars

-----------------------------------------------------------------------------
(* The terminal that successive windows take and give back.                *)

\* The window that has the terminal is the only one that was started and not stopped,
\* and it found the terminal as the shell left it.
KeyboardInv ==
    /\ knows \in BOOLEAN /\ shellRaw \in BOOLEAN
    /\ started \in 0 .. Windows
    /\ wasRaw \in [1 .. Windows -> BOOLEAN]
    /\ Typing!ModesGivenBack
    /\ IF window = 0 THEN stopped = 1 .. started
       ELSE /\ window = started /\ started > 0
            /\ stopped = 1 .. started - 1
            /\ wasRaw[window] = shellRaw

LEMMA Flags ==
  /\ Len(<<0>>) = 1 /\ Len(<<0, 1>>) = 2
  /\ Append(<<0>>, 1) = <<0, 1>>
  /\ Typing!Front(<<0, 1>>) = <<0>>
<1> DEFINE one == <<0>>
           two == <<0, 1>>
           more == Append(one, 1)
           front == SubSeq(two, 1, 1)
           flag == {0, 1}
<1>1. /\ one \in Seq(flag) /\ Len(one) = 1 /\ one[1] = 0
      /\ two \in Seq(flag) /\ Len(two) = 2 /\ two[1] = 0 /\ two[2] = 1
      /\ 0 \in flag /\ 1 \in flag
  OBVIOUS
<1> HIDE DEF one, two, flag
<1>2. more = two
  <2>1. /\ more \in Seq(flag) /\ Len(more) = Len(one) + 1
        /\ \A i \in 1 .. Len(one) : more[i] = one[i]
        /\ more[Len(one) + 1] = 1
    BY <1>1, AppendProperties, ZenonT(60)
  <2> HIDE DEF more
  <2>2. \A i \in 1 .. Len(more) : more[i] = two[i]
    <3>1. Len(more) = 2 /\ more[1] = 0 /\ more[2] = 1
      BY <1>1, <2>1
    <3>2. \A i \in 1 .. 2 : i = 1 \/ i = 2
      OBVIOUS
    <3> QED BY <1>1, <3>1, <3>2
  <2> QED BY <1>1, <2>1, <2>2, SeqEqual
<1>3. front = one
  <2>1. front \in Seq(flag) /\ Len(front) = 1 /\ front[1] = 0
    BY <1>1, SubSeqProperties
  <2> HIDE DEF front
  <2>2. \A i \in 1 .. 1 : front[i] = one[i]
    BY <1>1, <2>1
  <2> QED BY <1>1, <2>1, <2>2, SeqEqual
<1> QED BY <1>1, <1>2, <1>3 DEF one, two, flag, Typing!Front

LEMMA KeyboardHolds ==
  ASSUME Windows \in Nat, KeyboardInv, [Typing!KeyboardNext]_keys
  PROVE  KeyboardInv'
<1> USE DEF KeyboardInv, Typing!ModesGivenBack
<1>1. CASE Typing!start
  <2>1. /\ window = 0 /\ window' = started + 1 /\ started' = started + 1
        /\ started' \in 1 .. Windows /\ started' - 1 = started
        /\ stopped' = 1 .. started /\ raw' /\ paste' /\ raw = shellRaw
        /\ knows' = knows /\ shellRaw' = shellRaw
    BY <1>1 DEF Typing!start
  <2>2. flags' = IF knows THEN <<0, 1>> ELSE <<0>>
    BY <1>1, <2>1, Flags DEF Typing!start
  <2>3. wasRaw' = [wasRaw EXCEPT ![started'] = shellRaw]
    BY <1>1, <2>1 DEF Typing!start
  <2>4. wasRaw' \in [1 .. Windows -> BOOLEAN] /\ wasRaw'[window'] = shellRaw'
    BY <2>1, <2>3
  <2> QED BY <2>1, <2>2, <2>4
<1>2. ASSUME NEW w \in 1 .. Windows, Typing!stop(w) PROVE KeyboardInv'
  <2>1. CASE w \in stopped
    BY <1>2, <2>1 DEF Typing!stop
  <2>2. CASE w \notin stopped
    <3>1. window = w /\ window # 0
      BY <1>2, <2>2 DEF Typing!stop
    <3>2. flags' = <<0>>
      BY <1>2, <2>2, <3>1, Flags DEF Typing!stop, Typing!GivesBack
    <3> QED BY <1>2, <2>2, <3>1, <3>2 DEF Typing!stop, Typing!GivesBack
  <2> QED BY <2>1, <2>2
<1>3. CASE Typing!Read
  BY <1>3 DEF Typing!Read
<1>4. ASSUME NEW key \in Typing!Key, Typing!Press(key) PROVE KeyboardInv'
  BY <1>4 DEF Typing!Press
<1>5. CASE UNCHANGED keys
  BY <1>5 DEF keys
<1> QED BY <1>1, <1>2, <1>3, <1>4, <1>5 DEF Typing!KeyboardNext

-----------------------------------------------------------------------------
(* The language file.                                                      *)

\* The saved choice is in the file and is a language; a file that is about to be
\* renamed is whole; a window that began after a choice speaks it and has not asked.
LanguageInv ==
    /\ stage \in [Window -> {"off", "boot", "idle", "writes", "renames", "ended"}]
    /\ temporary \in [Window -> {"none", "half"} \cup Speaking!Code]
    /\ choice \in [Window -> {"none"} \cup Speaking!Code]
    /\ prompted \in [Window -> BOOLEAN]
    /\ code \in [Window -> Speaking!Code] /\ source \in [Window -> {"unset", "environment", "config"}]
    /\ heir \in [Window -> {"none"} \cup Speaking!Code]
    /\ cursor \in [Window -> {0} \cup DOMAIN Speaking!Options]
    /\ saved # "none" => file = saved /\ saved \in Speaking!Code
    /\ \A w \in Window :
          /\ stage[w] \in {"writes", "renames"} => choice[w] \in Speaking!Code
          /\ stage[w] = "renames" => temporary[w] = choice[w]
          /\ stage[w] \in {"off", "boot"} => ~prompted[w]
          /\ heir[w] # "none" /\ override[w] = "none" =>
                /\ ~prompted[w]
                /\ stage[w] = "boot" => code[w] = heir[w] /\ source[w] = "config"

LEMMA Codes == /\ Speaking!Code = {"en", "zh-CN"} /\ DOMAIN Speaking!Options = {1, 2}
               /\ \A i \in DOMAIN Speaking!Options : Speaking!Options[i] \in Speaking!Code
<1>1. DOMAIN Speaking!Options = {1, 2} /\ Speaking!Options[1] = "en" /\ Speaking!Options[2] = "zh-CN"
  BY DEF Speaking!Options
<1> QED BY <1>1 DEF Speaking!Code

LEMMA LanguageHolds ==
  ASSUME LanguageInv, [Speaking!LanguageNext]_language
  PROVE  LanguageInv'
  <1> USE DEF LanguageInv
<1>1. ASSUME NEW w \in Window, Speaking!Start(w) PROVE LanguageInv'
  <2>1. /\ Speaking!resolveLanguage(w).code \in Speaking!Code
        /\ Speaking!resolveLanguage(w).source \in {"unset", "environment", "config"}
        /\ saved # "none" /\ override[w] = "none"
              => Speaking!resolveLanguage(w).code = saved /\ Speaking!resolveLanguage(w).source = "config"
    BY Codes DEF Speaking!resolveLanguage, Speaking!readClientLanguage, Speaking!parseLanguage, Speaking!Resolved
  <2>2. saved \in {"none"} \cup Speaking!Code
    BY Codes
  <2> HIDE DEF Speaking!resolveLanguage
  <2> QED BY <1>1, <2>1, <2>2 DEF Speaking!Start
<1>2. ASSUME NEW w \in Window, Speaking!FirstFrame(w) PROVE LanguageInv'
  <2>1. \A c \in Speaking!Code : Speaking!Row(c) \in DOMAIN Speaking!Options
    BY DEF Speaking!Row, Speaking!Code
  <2>2. cursor' \in [Window -> {0} \cup DOMAIN Speaking!Options]
    BY <1>2, <2>1 DEF Speaking!FirstFrame, Speaking!pick, Speaking!guessLanguage
  <2> QED BY <1>2, <2>2 DEF Speaking!FirstFrame
<1>3. ASSUME NEW w \in Window, NEW c \in Speaking!Code, stage[w] = "idle", Speaking!Set(w, c),
             cursor' \in [Window -> {0} \cup DOMAIN Speaking!Options]
      PROVE  LanguageInv'
  BY <1>3 DEF Speaking!Set
<1>4. ASSUME NEW w \in Window, Speaking!Choose(w) \/ \E i \in DOMAIN Speaking!Options : Speaking!Digit(w, i)
      PROVE  LanguageInv'
  <2>1. cursor' \in [Window -> {0} \cup DOMAIN Speaking!Options] /\ stage[w] = "idle"
    BY <1>4 DEF Speaking!Choose, Speaking!Digit
  <2>2. PICK c \in Speaking!Code : Speaking!Set(w, c)
    BY <1>4, Codes DEF Speaking!Choose, Speaking!Digit
  <2> QED BY <1>3, <2>1, <2>2
<1>5. ASSUME NEW w \in Window, NEW argument \in Speaking!Spelling, Speaking!CommandNames(w, argument)
      PROVE  LanguageInv'
  <2>1. Speaking!parseLanguage(argument) \in Speaking!Code
    BY <1>5, Codes DEF Speaking!CommandNames, Speaking!parseLanguage
  <2> QED BY <1>3, <1>5, <2>1 DEF Speaking!CommandNames
<1>6. ASSUME NEW w \in Window, Speaking!Move(w) \/ Speaking!Cancel(w) \/ Speaking!CommandPicks(w) PROVE LanguageInv'
  <2>1. cursor' \in [Window -> {0} \cup DOMAIN Speaking!Options]
    BY <1>6 DEF Speaking!Move, Speaking!Cancel, Speaking!CommandPicks, Speaking!pick, Speaking!Row, Speaking!Code
  <2> QED BY <1>6, <2>1 DEF Speaking!Move, Speaking!Cancel, Speaking!CommandPicks
<1>7. ASSUME NEW w \in Window, Speaking!writeTemporary(w) PROVE LanguageInv'
  BY <1>7 DEF Speaking!writeTemporary
<1>8. ASSUME NEW w \in Window, Speaking!rename(w) PROVE LanguageInv'
  BY <1>8, Codes DEF Speaking!rename, Speaking!Speaks
<1>9. ASSUME NEW w \in Window, Speaking!writeFails(w) PROVE LanguageInv'
  BY <1>9 DEF Speaking!writeFails, Speaking!Speaks
<1>10. ASSUME NEW w \in Window, Speaking!Ends(w) PROVE LanguageInv'
  BY <1>10 DEF Speaking!Ends
<1>11. CASE UNCHANGED language
  BY <1>11 DEF language
<1> QED BY <1>1, <1>2, <1>4, <1>5, <1>6, <1>7, <1>8, <1>9, <1>10, <1>11 DEF Speaking!LanguageNext

-----------------------------------------------------------------------------
(* The input source.                                                       *)

\* What is about to be renamed is a whole helper; a panel that has the keyboard has
\* English, or a call is still on its way.
InputInv ==
    /\ helper # "half"
    /\ \A w \in Window : build[w] = "moves" => compiled[w] = "new"
    /\ build \in [Window -> {"starts", "compiles", "moves", "done"}]
    /\ compiled \in [Window -> {"none", "half", "new"}]
    /\ request \in [Call -> {"free", "reads", "selects", "done"}]
    /\ focus = "panel" /\ ~byHand /\ ~failed => keyboard = "english" \/ Selecting!Running # {}

LEMMA InputHolds ==
  ASSUME InputInv, [Selecting!InputNext]_inputs
  PROVE  InputInv'
  <1> USE DEF InputInv, Selecting!Running
<1>1. ASSUME NEW w \in Window, Selecting!publishImeHelper(w) \/ Selecting!compile(w) \/ Selecting!move(w) \/ Selecting!buildFails(w) \/ Selecting!dies(w)
      PROVE  InputInv'
  BY <1>1 DEF Selecting!publishImeHelper, Selecting!compile, Selecting!move, Selecting!buildFails, Selecting!dies
<1>2. ASSUME NEW c \in Call, Selecting!ensure(c) PROVE InputInv'
  BY <1>2 DEF Selecting!ensure
<1>3. ASSUME NEW c \in Call, Selecting!current(c) \/ Selecting!currentFails(c) PROVE InputInv'
  BY <1>3 DEF Selecting!current, Selecting!currentFails, Selecting!NeedsEnglish
<1>4. ASSUME NEW c \in Call, Selecting!select(c) \/ Selecting!selectFails(c) PROVE InputInv'
  BY <1>4 DEF Selecting!select, Selecting!selectFails
<1>5. CASE Selecting!UserSelects \/ Selecting!Composer
  BY <1>5 DEF Selecting!UserSelects, Selecting!Composer
<1>6. CASE UNCHANGED inputs
  BY <1>6 DEF inputs
<1> QED BY <1>1, <1>2, <1>3, <1>4, <1>5, <1>6 DEF Selecting!InputNext

-----------------------------------------------------------------------------
\* The terminal's modes, the saved language and the input source are left as the next
\* window expects them, however many windows, choices and calls there are
\* (terminal.ts, language.ts, imeHelper.ts, inputSource.ts).
THEOREM TerminalIsLeft == ASSUME Windows \in Nat PROVE Spec => []LeftForTheNext
<1> DEFINE Inv == KeyboardInv /\ LanguageInv /\ InputInv
<1>1. Init => Inv
  <2> SUFFICES ASSUME Init PROVE Inv
    OBVIOUS
  <2>1. KeyboardInv
    <3>1. Typing!KeyboardInit
      BY DEF Init
    <3>2. 1 .. 0 = {} /\ 0 \in 0 .. Windows
      OBVIOUS
    <3> QED BY <3>1, <3>2 DEF Typing!KeyboardInit, KeyboardInv, Typing!ModesGivenBack
  <2>2. LanguageInv
    BY Codes DEF Init, Speaking!LanguageInit, LanguageInv
  <2>3. InputInv
    BY DEF Init, Selecting!InputInit, InputInv
  <2> QED BY <2>1, <2>2, <2>3
<1>2. Inv /\ [Next]_vars => Inv'
  BY PartSteps, KeyboardHolds, LanguageHolds, InputHolds
<1>3. Inv => LeftForTheNext
  BY DEF KeyboardInv, LanguageInv, InputInv, LeftForTheNext,
         Speaking!SavedIsSpoken, Selecting!HelperIsWhole, Selecting!PanelHasEnglish
<1> QED BY <1>1, <1>2, <1>3, PTL DEF Spec

-----------------------------------------------------------------------------
(* Retention.                                                              *)

\* The plan spares the release to keep, which is the deployed one while objects are
\* deleted, and the key that was just looked at holds what the plan says.
PruneInv ==
    /\ policy \in Downloading!Key /\ deployed \in Downloading!Key
    /\ DOMAIN bucket = Downloading!Key /\ DOMAIN obsolete = Downloading!Key
    /\ obsolete[policy] = "none"
    /\ pruning = "deletes" => deployed = policy
    /\ listed # 0 => /\ pruning = "deletes" /\ listed \in Downloading!Key
                     /\ obsolete[listed] # "none" /\ bucket[listed] = obsolete[listed]

LEMMA PruneHolds ==
  ASSUME ~Careless, Newest \in Nat, PruneInv, [Downloading!PruneNext]_retention
  PROVE  PruneInv'
<1> USE DEF PruneInv, Downloading!Stops
<1>1. CASE Downloading!bucketInventory BY <1>1 DEF Downloading!bucketInventory, Downloading!prunePlan
<1>2. CASE Downloading!verify \/ Downloading!refresh BY <1>2 DEF Downloading!verify, Downloading!refresh
<1>3. ASSUME NEW from, NEW to, from # "deletes", Downloading!assertDeployed(from, to) PROVE PruneInv'
  BY <1>3 DEF Downloading!assertDeployed
<1>4. CASE Downloading!look BY <1>4 DEF Downloading!look, Downloading!Rest, Downloading!Key
<1>5. CASE Downloading!delete BY <1>5 DEF Downloading!delete
<1>6. CASE Downloading!after BY <1>6 DEF Downloading!after
<1>7. ASSUME NEW k \in Downloading!Key, Downloading!Upload(k) PROVE PruneInv' BY <1>7 DEF Downloading!Upload
<1>8. ASSUME NEW k \in Downloading!Key, Downloading!Deploy(k) PROVE PruneInv' BY <1>8 DEF Downloading!Deploy
<1>9. CASE UNCHANGED retention BY <1>9 DEF retention
<1> QED BY <1>1, <1>2, <1>3, <1>4, <1>5, <1>6, <1>7, <1>8, <1>9 DEF Downloading!PruneNext

LEMMA PruneDeletes ==
  ASSUME ~Careless, PruneInv, Downloading!PruneNext,
         NEW k \in Downloading!Key, bucket[k] # "none", bucket'[k] = "none"
  PROVE  bucket[k] = obsolete[k] /\ ~Downloading!Serves(k)
<1>1. Downloading!delete
  BY DEF Downloading!PruneNext, Downloading!bucketInventory, Downloading!verify, Downloading!refresh,
         Downloading!assertDeployed, Downloading!look, Downloading!after, Downloading!Upload,
         Downloading!Deploy, PruneInv
<1>2. k = listed
  BY <1>1 DEF Downloading!delete, PruneInv
<1>3. k # deployed
  BY <1>1, <1>2 DEF Downloading!delete, PruneInv
<1> QED BY <1>1, <1>2, <1>3 DEF Downloading!delete, PruneInv, Downloading!Serves, Downloading!latestOnlyCatalog

-----------------------------------------------------------------------------
(* The installed command.                                                  *)

Steps == {"idle", "receipt", "file", "link", "symlink", "path", "profile", "report",
          "unlink", "forget", "unblock"}
Receipt == [bin : Bin \cup {None}, block : Bin \cup {None}, files : SUBSET Profile]
Run == [step : Steps, bin : Bin \cup {None}, add : BOOLEAN, before : Receipt, files : SUBSET Profile]

\* The steps of an install before and after it has written its receipt.
Recorded == {"file", "link", "symlink", "path", "profile", "report"}

PathTypes ==
    /\ at \in [Bin -> {"none", "link", "launcher", "other"}]
    /\ path \subseteq Bin /\ profiles \in [Profile -> SUBSET Bin]
    /\ receipt \in Receipt /\ run \in Run
    /\ run.step \in Recorded \cup {"receipt"} => run.bin \in Bin

\* The blocks that the profile f has, by the receipt or by the command under way.
Blocks(f) ==
    IF run.step = "profile" THEN (IF f \in run.files THEN {run.bin} ELSE {})
    ELSE IF run.step = "unblock" THEN (IF f \in run.before.files THEN {run.before.block} ELSE {})
    ELSE (IF f \in receipt.files THEN {receipt.block} ELSE {})

\* While no command was killed, the only link is in the recorded directory, and the
\* blocks of the profiles are those that the receipt, or the command under way, names.
PathOwn ==
    /\ receipt.block = None => receipt.files = {}
    /\ \A bin \in Bin : at[bin] = "link" => receipt.bin = bin /\ run.step \notin {"forget", "unblock"}
    /\ run.step = "receipt" => receipt.bin \in {None, run.bin}
    /\ run.step \in Recorded => receipt.bin = run.bin
    /\ run.step \in {"receipt", "file", "link", "symlink", "path", "unlink", "forget"} =>
          run.before.block = receipt.block /\ run.before.files = receipt.files
    /\ run.step \in {"receipt", "file", "link", "symlink", "path"} => run.files = {}
    /\ run.step = "profile" => receipt.block = None
    /\ run.step = "unblock" => receipt = NoReceipt
    /\ \A f \in Profile : profiles[f] = Blocks(f)

PathInv == PathTypes /\ (~killed => PathOwn)

LEMMA Going ==
  ASSUME run \in Run, NEW step \in Steps, Goto(step)
  PROVE  run' \in Run /\ run'.step = step /\ run'.bin = run.bin /\ run'.add = run.add
         /\ run'.before = run.before /\ run'.files = run.files
BY DEF Run, Goto

LEMMA PathTypesHold ==
  ASSUME PathTypes, [PathNext]_commandPath
  PROVE  PathTypes'
<1> USE PathAssumption DEF PathTypes, Recorded
<1> DEFINE At == at' \in [Bin -> {"none", "link", "launcher", "other"}]
           Idles == run' = Idle
<1>1. NoReceipt \in Receipt /\ Idle \in Run /\ Idle.step = "idle"
  BY DEF NoReceipt, Idle, Receipt, Run, Steps
<1>2. ASSUME NEW option \in Bin \cup {None}, NEW add \in BOOLEAN, Install(option, add)
      PROVE  PathTypes'
  <2>1. PICK bin \in Chosen(option) :
           run' = [step |-> "receipt", bin |-> bin, add |-> add, before |-> receipt, files |-> {}]
    BY <1>2 DEF Install
  <2>2. bin \in Bin
    BY <2>1 DEF Chosen, userPathDirectories, Receipt
  <2>3. run' \in Run /\ run'.bin \in Bin
    BY <2>1, <2>2 DEF Run, Steps
  <2> QED BY <1>2, <2>3 DEF Install
<1>3. CASE writeReceipt
  <2>1. run' \in Run /\ run'.bin = run.bin /\ receipt' \in Receipt
    BY <1>3, Going DEF writeReceipt, Receipt, Run, Steps
  <2> QED BY <1>3, <2>1 DEF writeReceipt
<1>4. CASE writeCommand \/ onPathAlready
  <2>1. run' \in Run /\ run'.bin = run.bin
    BY <1>4, Going DEF writeCommand, onPathAlready, Steps
  <2> QED BY <1>4, <2>1 DEF writeCommand, onPathAlready
<1>5. CASE freeName \/ symlink
  <2> DEFINE b == run.bin
  <2>1. Idles \/ (run' \in Run /\ run'.bin = b)
    <3>1. CASE freeName
      <4>1. Idles \/ Goto("path") \/ Goto("symlink")
        BY <3>1 DEF freeName
      <4> QED BY <4>1, Going DEF Steps
    <3>2. CASE symlink
      <4>1. Idles \/ Goto("path")
        BY <3>2 DEF symlink
      <4> QED BY <4>1, Going DEF Steps
    <3> QED BY <1>5, <3>1, <3>2
  <2>2. At
    <3>1. at' = at \/ at' = [at EXCEPT ![b] = "none"] \/ at' = [at EXCEPT ![b] = "link"]
      BY <1>5 DEF freeName, symlink
    <3> HIDE DEF b
    <3> QED BY <3>1
  <2>3. UNCHANGED <<path, receipt, profiles>> /\ run.step \in Recorded
    BY <1>5 DEF freeName, symlink
  <2> QED BY <1>1, <2>1, <2>2, <2>3
<1>6. ASSUME NEW f \in Profile, addCommandPath(f) PROVE PathTypes'
  <2>1. run' \in Run /\ run'.bin = run.bin /\ run.bin \in Bin
    BY <1>6 DEF addCommandPath, Run
  <2> QED BY <1>6, <2>1 DEF addCommandPath
<1>7. CASE addFails
  <2>1. run' \in Run /\ run'.bin = run.bin
    BY <1>7, Going DEF addFails, Steps
  <2> QED BY <1>7, <2>1 DEF addFails
<1>8. CASE rememberPath
  <2>1. run' \in Run /\ run'.bin = run.bin
    BY <1>8, Going DEF rememberPath, Steps
  <2>2. receipt' \in Receipt
    BY <1>8 DEF rememberPath, Receipt, Run
  <2> QED BY <1>8, <2>1, <2>2 DEF rememberPath
<1>9. CASE report \/ Killed \/ Uninstalled \/ NewTerminal
  <2>1. Idles \/ run' = run
    BY <1>9 DEF report, Killed, Uninstalled, NewTerminal
  <2>2. path' \subseteq Bin
    BY <1>9 DEF report, Killed, Uninstalled, NewTerminal
  <2> QED BY <1>1, <1>9, <2>1, <2>2 DEF report, Killed, Uninstalled, NewTerminal
<1>10. CASE assertLauncherOwned
  <2>1. run' \in Run /\ run'.step = "unlink"
    BY <1>10 DEF assertLauncherOwned, Idle, Run, Steps
  <2> QED BY <1>10, <2>1 DEF assertLauncherOwned
<1>11. CASE Unlinks
  <2> DEFINE b == receipt.bin
  <2>1. Idles \/ (run' \in Run /\ run'.step \in {"forget", "unblock"})
    <3>1. Idles \/ Goto("forget") \/ Goto("unblock")
      BY <1>11 DEF Unlinks, removeCommand
    <3> QED BY <3>1, Going DEF Steps
  <2>2. At
    <3>1. at' = at \/ at' = [at EXCEPT ![b] = IF @ = "link" THEN "none" ELSE @]
      BY <1>11 DEF Unlinks, removeCommand
    <3> HIDE DEF b
    <3> QED BY <3>1
  <2>3. receipt' \in Receipt /\ UNCHANGED <<path, profiles>>
    BY <1>1, <1>11 DEF Unlinks, removeCommand
  <2> QED BY <1>1, <2>1, <2>2, <2>3
<1>12. ASSUME NEW f \in Profile, removeCommandPath(f) PROVE PathTypes'
  <2> DEFINE rest == [run.before EXCEPT !.files = @ \ {f}]
  <2>1. rest \in Receipt
    BY DEF Run, Receipt
  <2>2. run' = [run EXCEPT !.before = rest]
    BY <1>12 DEF removeCommandPath, Run
  <2> HIDE DEF rest
  <2>3. run' \in Run /\ run'.step = "unblock"
    BY <1>12, <2>1, <2>2 DEF removeCommandPath, Run
  <2> QED BY <1>12, <2>3 DEF removeCommandPath
<1>13. ASSUME NEW bin \in Bin, OtherProgram(bin) PROVE PathTypes'
  BY <1>13 DEF OtherProgram
<1>14. CASE UNCHANGED commandPath
  BY <1>14 DEF commandPath
<1> QED BY <1>2, <1>3, <1>4, <1>5, <1>6, <1>7, <1>8, <1>9, <1>10, <1>11, <1>12, <1>13, <1>14 DEF PathNext

LEMMA PathOwnHolds ==
  ASSUME ~Moves, PathTypes, PathOwn, [PathNext]_commandPath, ~killed'
  PROVE  PathOwn'
<1> USE PathAssumption DEF PathTypes, PathOwn, Recorded, Blocks
<1>1. /\ Idle.step = "idle" /\ NoReceipt.block = None /\ NoReceipt.files = {} /\ NoReceipt.bin = None
      /\ run.step \in Steps /\ receipt.bin \in Bin \cup {None}
  BY DEF NoReceipt, Idle, Run, Receipt
<1>2. ASSUME NEW option \in Bin \cup {None}, NEW add \in BOOLEAN, Install(option, add)
      PROVE  PathOwn'
  <2>1. PICK bin \in Chosen(option) :
           run' = [step |-> "receipt", bin |-> bin, add |-> add, before |-> receipt, files |-> {}]
    BY <1>2 DEF Install
  <2>2. receipt.bin \in {None, bin}
    BY <1>2, <2>1 DEF Install, Chosen, userPathDirectories
  <2>3. run.step = "idle" /\ run'.step = "receipt" /\ run'.bin = bin /\ run'.before = receipt /\ run'.files = {}
    BY <1>1, <1>2, <2>1 DEF Install
  <2> QED BY <1>2, <2>2, <2>3 DEF Install
<1>3. CASE writeReceipt
  <2>1. /\ run.step = "receipt" /\ run'.step = "file" /\ run'.bin = run.bin /\ run'.before = run.before
        /\ run'.files = run.files
    BY <1>3, Going DEF writeReceipt, Steps
  <2>2. receipt'.bin = run.bin /\ receipt'.block = receipt.block /\ receipt'.files = receipt.files
    BY <1>3 DEF writeReceipt, Receipt
  <2> QED BY <1>3, <2>1, <2>2 DEF writeReceipt
<1>4. CASE writeCommand
  <2>1. run.step = "file" /\ run'.step = "link" /\ run'.bin = run.bin /\ run'.before = run.before
              /\ run'.files = run.files
    BY <1>4, Going DEF writeCommand, Steps
  <2> QED BY <1>4, <2>1 DEF writeCommand
<1>5. CASE freeName
  <2>1. /\ run.step = "link"
        /\ \/ run' = Idle
           \/ run'.step \in {"path", "symlink"} /\ run'.bin = run.bin /\ run'.before = run.before /\ run'.files = run.files
    BY <1>5, Going DEF freeName, Steps
  <2>2. at' = at \/ at' = [at EXCEPT ![run.bin] = "none"]
    BY <1>5 DEF freeName
  <2>3. \A bin \in Bin : at'[bin] = "link" => at[bin] = "link"
    BY <2>2
  <2> QED BY <1>1, <1>5, <2>1, <2>3 DEF freeName
<1>6. CASE symlink
  <2>1. /\ run.step = "symlink"
        /\ \/ run' = Idle
           \/ run'.step = "path" /\ run'.bin = run.bin /\ run'.before = run.before /\ run'.files = run.files
    BY <1>6, Going DEF symlink, Steps
  <2>2. at' = at \/ at' = [at EXCEPT ![run.bin] = "link"]
    BY <1>6 DEF symlink
  <2>3. \A bin \in Bin : at'[bin] = "link" => at[bin] = "link" \/ bin = run.bin
    BY <2>2
  <2> QED BY <1>1, <1>6, <2>1, <2>3 DEF symlink
<1>7. CASE onPathAlready
  <2>1. /\ run.step = "path" /\ run'.bin = run.bin /\ run'.before = run.before
              /\ run'.files = run.files /\ run'.files = run.files
        /\ run'.step = "report" \/ (run'.step = "profile" /\ run.before.block = None)
    BY <1>7, Going DEF onPathAlready, Steps
  <2> QED BY <1>7, <2>1 DEF onPathAlready
<1>8. CASE addFails \/ Killed
  BY <1>8 DEF addFails, Killed
<1>9. ASSUME NEW f \in Profile, addCommandPath(f) PROVE PathOwn'
  <2>1. /\ run.step = "profile" /\ run'.step = "profile" /\ run'.bin = run.bin
        /\ run'.files = run.files \cup {f}
    BY <1>9 DEF addCommandPath, Run
  <2>2. profiles' = [profiles EXCEPT ![f] = @ \cup {run.bin}]
    BY <1>9 DEF addCommandPath
  <2>3. \A g \in Profile : profiles'[g] = IF g = f THEN profiles[f] \cup {run.bin} ELSE profiles[g]
    BY <2>2
  <2> QED BY <1>9, <2>1, <2>3 DEF addCommandPath
<1>10. CASE rememberPath
  <2>1. run.step = "profile" /\ run.files = Profile /\ run'.step = "report" /\ run'.bin = run.bin
    BY <1>10, Going DEF rememberPath, Steps
  <2>2. receipt'.bin = receipt.bin /\ receipt'.block = run.bin /\ receipt'.files = Profile
    BY <1>10 DEF rememberPath, Receipt
  <2> QED BY <1>10, <2>1, <2>2 DEF rememberPath
<1>11. CASE report
  BY <1>1, <1>11 DEF report
<1>12. CASE NewTerminal
  BY <1>12 DEF NewTerminal
<1>13. CASE assertLauncherOwned
  <2>1. run.step = "idle" /\ run'.step = "unlink" /\ run'.before = receipt
    BY <1>1, <1>13 DEF assertLauncherOwned, Idle
  <2> QED BY <1>13, <2>1 DEF assertLauncherOwned
<1>14. CASE Unlinks
  <2>1. CASE run.step = "unlink" /\ run' = Idle
    BY <1>1, <1>14, <2>1 DEF Unlinks, removeCommand
  <2>2. CASE run.step = "unlink" /\ Goto("forget")
    <3>1. run'.step = "forget" /\ run'.before = run.before
      BY <2>2, Going DEF Steps
    <3>2. receipt' = receipt /\ profiles' = profiles
      BY <1>14, <2>2 DEF Unlinks, removeCommand
    <3>3. \A bin \in Bin : at'[bin] # "link"
      <4> DEFINE b == receipt.bin
      <4>1. at' = [at EXCEPT ![b] = IF @ = "link" THEN "none" ELSE @]
        <5>1. run' # Idle
          BY <1>1, <3>1
        <5> QED BY <1>14, <2>2, <5>1 DEF Unlinks, removeCommand
      <4> HIDE DEF b
      <4>2. \A bin \in Bin : at'[bin] = "link" => at[bin] = "link" /\ bin # b
        BY <4>1
      <4> QED BY <4>2 DEF b
    <3> QED BY <2>2, <3>1, <3>2, <3>3
  <2>3. CASE run.step = "forget"
    <3>1. Goto("unblock") /\ receipt' = NoReceipt /\ at' = at /\ profiles' = profiles
      BY <1>14, <2>3 DEF Unlinks, removeCommand
    <3>2. run'.step = "unblock" /\ run'.before = run.before
      BY <3>1, Going DEF Steps
    <3> QED BY <1>1, <2>3, <3>1, <3>2
  <2> QED BY <1>14, <2>1, <2>2, <2>3 DEF Unlinks, removeCommand
<1>15. ASSUME NEW f \in Profile, removeCommandPath(f) PROVE PathOwn'
  <2>1. /\ run.step = "unblock" /\ run'.step = "unblock"
        /\ run'.before.block = run.before.block /\ run'.before.files = run.before.files \ {f}
    BY <1>15 DEF removeCommandPath, Run, Receipt
  <2>2. profiles' = [profiles EXCEPT ![f] = @ \ {run.before.block}]
    BY <1>15 DEF removeCommandPath
  <2>3. \A g \in Profile : profiles'[g] = IF g = f THEN profiles[f] \ {run.before.block} ELSE profiles[g]
    BY <2>2
  <2> QED BY <1>15, <2>1, <2>3 DEF removeCommandPath
<1>16. CASE Uninstalled
  BY <1>1, <1>16 DEF Uninstalled
<1>17. ASSUME NEW bin \in Bin, OtherProgram(bin) PROVE PathOwn'
  BY <1>17 DEF OtherProgram
<1>18. CASE UNCHANGED commandPath
  BY <1>18 DEF commandPath
<1> QED BY <1>2, <1>3, <1>4, <1>5, <1>6, <1>7, <1>8, <1>9, <1>10, <1>11, <1>12, <1>13, <1>14,
           <1>15, <1>16, <1>17, <1>18 DEF PathNext

LEMMA KilledStays == [PathNext]_commandPath /\ killed => killed'
BY DEF PathNext, commandPath, Install, writeReceipt, writeCommand, freeName, symlink, onPathAlready,
       addFails, rememberPath, report, assertLauncherOwned, Unlinks, Uninstalled, addCommandPath,
       removeCommandPath, Killed, NewTerminal, OtherProgram

LEMMA NameIsLeft ==
  ASSUME PathTypes, PathNext, NEW bin \in Bin, at[bin] = "other", at'[bin] # "other"
  PROVE  run' = run
<1> USE PathAssumption DEF PathTypes
<1>1. ASSUME NEW b \in Bin, OtherProgram(b) PROVE run' = run
  BY <1>1 DEF OtherProgram
<1>2. CASE freeName \/ symlink \/ Unlinks
  <2> DEFINE b == run.bin
             c == receipt.bin
  <2>1. \/ at' = at
        \/ at[b] # "other" /\ (at' = [at EXCEPT ![b] = "none"] \/ at' = [at EXCEPT ![b] = "link"])
        \/ at' = [at EXCEPT ![c] = IF @ = "link" THEN "none" ELSE @]
    BY <1>2 DEF freeName, symlink, Unlinks, removeCommand
  <2> HIDE DEF b, c
  <2> QED BY <2>1
<1> QED BY <1>1, <1>2
        DEF PathNext, Install, writeReceipt, writeCommand, onPathAlready, addFails, rememberPath, report,
            assertLauncherOwned, Uninstalled, addCommandPath, removeCommandPath, Killed, NewTerminal

LEMMA NothingIsLeft ==
  ASSUME PathTypes, PathOwn, Uninstalled
  PROVE  (\A bin \in Bin : at[bin] # "link") /\ (\A f \in Profile : profiles[f] = {})
BY DEF PathTypes, PathOwn, Uninstalled, Blocks

-----------------------------------------------------------------------------
(* The git methods.                                                        *)

Names == Branch \cup Odd \cup Upstream
Heads == [kind : {"branch", "detached", "unborn"}, name : Names \cup {"(HEAD detached)"}]

Rows == [marker : {"*", " "} \cup Names, name : Names]

\* Rows that name the branches of r, the one with the star being the current one.
AreRowsOf(rows, r) ==
    /\ rows \in Seq(Rows)
    /\ {rows[i].name : i \in DOMAIN rows} = r.heads
    /\ \A i \in DOMAIN rows : rows[i].marker = IF rows[i].name = r.head.name THEN "*" ELSE " "

\* What git wrote is about the repository that it saw.
GitInv ==
    /\ heads \subseteq Names
    /\ head \in Heads /\ (head.kind = "branch" => head.name \in heads)
    /\ before \in Names \cup {"none"}
    /\ query.method = "checkout" => query.name \notin Odd \cup {"-"} /\ query.name \in Names
    /\ output # Serving!NoOutput =>
          /\ output.code = 0 /\ output.head.kind = "branch" =>
                /\ query.method = "status" =>
                      output.rows = <<[marker |-> "##", name |-> output.head.name]>>
                /\ query.method = "branches" =>
                      output.head.name \in output.heads /\ AreRowsOf(output.rows, output)

LEMMA SameCardinality == ASSUME NEW S PROVE Serving!Cardinality(S) = Cardinality(S)
BY DEF Cardinality, Serving!Cardinality, IsFiniteSet, Serving!IsFiniteSet

LEMMA EveryElement ==
  ASSUME NEW S, IsFiniteSet(S)
  PROVE  /\ Cardinality(S) \in Nat
         /\ Serving!SetToSeq(S) \in [1 .. Cardinality(S) -> S]
         /\ {Serving!SetToSeq(S)[i] : i \in 1 .. Cardinality(S)} = S
<1> DEFINE n == Cardinality(S)
           f == Serving!SetToSeq(S)
<1>1. n \in Nat /\ ExistsBijection(1 .. n, S)
  BY FS_CardinalityType
<1>2. \E g \in [1 .. n -> S] : Serving!IsInjective(g)
  BY <1>1 DEF ExistsBijection, Bijection, Injection, IsInjective, Serving!IsInjective
<1>3. f = CHOOSE g \in [1 .. n -> S] : Serving!IsInjective(g)
  BY SameCardinality DEF Serving!SetToSeq
<1> HIDE DEF n, f
<1>4. f \in [1 .. n -> S] /\ Serving!IsInjective(f)
  BY <1>2, <1>3, Zenon
<1>5. f \in Injection(1 .. n, S)
  BY <1>4 DEF Injection, IsInjective, Serving!IsInjective
<1>6. IsFiniteSet(1 .. n) /\ Cardinality(1 .. n) = n
  BY <1>1, FS_Interval
<1>7. f \in Surjection(1 .. n, S)
  BY <1>1, <1>5, <1>6, FS_Injection DEF n
<1>8. \A x \in S : \E i \in 1 .. n : f[i] = x
  BY <1>7 DEF Surjection
<1>9. {f[i] : i \in 1 .. n} = S
  BY <1>4, <1>8
<1> QED BY <1>1, <1>4, <1>9 DEF n, f

\* The rows of `git branch` on a branch.
LEMMA BranchRowsOf ==
  ASSUME IsFiniteSet(Names), GitInv, head.kind = "branch", NEW r, r.heads = heads, r.head = head
  PROVE  AreRowsOf(Serving!BranchRows, r)
<1> DEFINE n == Cardinality(heads)
           f == Serving!SetToSeq(heads)
           row_(i) == [marker |-> IF f[i] = head.name THEN "*" ELSE " ", name |-> f[i]]
           rows == [i \in 1 .. n |-> row_(i)]
<1>1. IsFiniteSet(heads)
  BY FS_Subset DEF GitInv
<1>2. n \in Nat /\ f \in [1 .. n -> heads] /\ {f[i] : i \in 1 .. n} = heads
  BY <1>1, EveryElement
<1>3. head.name \in heads /\ \A b : (head = [kind |-> "branch", name |-> b]) <=> b = head.name
  <2>1. head.name \in heads /\ head = [kind |-> "branch", name |-> head.name]
    BY DEF GitInv, Heads
  <2>2. ASSUME NEW b, head = [kind |-> "branch", name |-> b] PROVE b = head.name
    BY <2>2
  <2> QED BY <2>1, <2>2
<1>4. Serving!BranchRows = << >> \o rows
  <2> DEFINE given(i) == Serving!Row(IF head = Serving!On("branch", f[i]) THEN "*" ELSE " ", f[i])
  <2>1. Serving!BranchRows = << >> \o [i \in 1 .. Serving!Cardinality(heads) |-> given(i)]
    BY DEF Serving!BranchRows
  <2>2. \A i \in 1 .. n : given(i) = row_(i)
    BY <1>3 DEF Serving!Row, Serving!On
  <2> HIDE DEF given, row_
  <2>3. [i \in 1 .. n |-> given(i)] = rows
    BY <2>2
  <2> QED BY <2>1, <2>3, SameCardinality
<1> HIDE DEF n, f
<1>5. \A i \in 1 .. n : /\ row_(i) \in Rows /\ row_(i).name = f[i]
                        /\ row_(i).marker = IF f[i] = head.name THEN "*" ELSE " "
  BY <1>2 DEF GitInv, Rows
<1> HIDE DEF row_
<1>6. /\ rows \in Seq(Rows) /\ DOMAIN rows = 1 .. n
      /\ \A i \in 1 .. n : rows[i] = row_(i)
  <2>1. rows \in [1 .. n -> Rows] /\ \A i \in 1 .. n : rows[i] = row_(i)
    BY <1>5
  <2> HIDE DEF rows
  <2> QED BY <1>2, <2>1, SeqDef
<1>7. Serving!BranchRows = rows
  BY <1>4, <1>6, ConcatEmptySeq
<1> HIDE DEF rows
<1>8. {rows[i].name : i \in DOMAIN rows} = heads
  <2>1. \A i \in DOMAIN rows : rows[i].name = f[i]
    BY <1>5, <1>6
  <2> QED BY <1>2, <1>6, <2>1
<1>9. \A i \in DOMAIN rows : rows[i].marker = IF rows[i].name = head.name THEN "*" ELSE " "
  BY <1>5, <1>6
<1> QED BY <1>6, <1>7, <1>8, <1>9 DEF AreRowsOf

\* Trimming the output changes no name and no star.
LEMMA ParsedRowsOf ==
  ASSUME "*" \notin Names, NEW rows, NEW r, AreRowsOf(rows, r), r.head.name \in r.heads
  PROVE  /\ {Serving!ParsedRows(rows)[i].name : i \in DOMAIN Serving!ParsedRows(rows)} = r.heads
         /\ Serving!Current(Serving!ParsedRows(rows)) = r.head.name
<1> DEFINE parsed == Serving!ParsedRows(rows)
           first == [marker |-> rows[1].name, name |-> rows[1].name]
           k == Len(rows)
<1>1. /\ rows \in Seq(Rows) /\ k \in Nat /\ DOMAIN rows = 1 .. k
      /\ \A i \in 1 .. k : rows[i] \in Rows /\ rows[i].name \in Names
  <2>1. rows \in Seq(Rows)
    BY DEF AreRowsOf
  <2>2. k \in Nat /\ DOMAIN rows = 1 .. k /\ \A i \in 1 .. k : rows[i] \in Rows
    BY <2>1
  <2>3. \A x \in Rows : x.name \in Names
    BY DEF Rows
  <2> QED BY <2>1, <2>2, <2>3
<1>2. /\ DOMAIN parsed = 1 .. k
      /\ \A i \in 1 .. k : /\ parsed[i].name = rows[i].name
                           /\ parsed[i].marker = "*" <=> rows[i].marker = "*"
  <2>1. CASE rows # << >> /\ rows[1].marker = " "
    <3>1. k > 0 /\ rows[1].name \in Names /\ rows[1].name # "*"
      <4>1. k # 0
        BY <1>1, <2>1, EmptySeq
      <4>2. 1 \in 1 .. k
        BY <1>1, <4>1
      <4> QED BY <1>1, <4>1, <4>2
    <3>2. first \in Rows /\ first.name = rows[1].name /\ first.marker # "*"
      BY <3>1 DEF Rows
    <3>3. parsed = <<first>> \o Tail(rows)
      BY <2>1 DEF Serving!ParsedRows, Serving!Row
    <3> DEFINE rest == Tail(rows)
    <3>4. /\ rest \in Seq(Rows) /\ Len(rest) = k - 1
          /\ \A i \in 1 .. k - 1 : rest[i] = rows[i + 1]
      BY <1>1, <2>1, HeadTailProperties
    <3> HIDE DEF first, parsed, rest, k
    <3>5. <<first>> \in Seq(Rows) /\ Len(<<first>>) = 1 /\ <<first>>[1] = first
      BY <3>2
    <3> DEFINE one == <<first>>
    <3> HIDE DEF one
    <3>6. /\ parsed \in Seq(Rows) /\ Len(parsed) = Len(one) + Len(rest)
          /\ \A i \in 1 .. Len(one) + Len(rest) :
                parsed[i] = IF i <= Len(one) THEN one[i] ELSE rest[i - Len(one)]
      BY <3>3, <3>4, <3>5, ConcatProperties DEF rest, one
    <3>7. Len(one) = 1 /\ one[1] = first
      BY <3>5 DEF one
    <3>8. DOMAIN parsed = 1 .. k /\ parsed[1] = first
      BY <1>1, <3>1, <3>4, <3>6, <3>7
    <3>9. ASSUME NEW i \in 1 .. k, i # 1 PROVE parsed[i] = rows[i]
      <4>1. i - 1 \in 1 .. k - 1 /\ ~(i <= 1) /\ (i - 1) + 1 = i /\ i \in 1 .. 1 + (k - 1)
        BY <1>1, <3>9
      <4>2. parsed[i] = rest[i - 1]
        BY <3>4, <3>6, <3>7, <4>1
      <4> QED BY <3>4, <4>1, <4>2
    <3> QED BY <2>1, <3>2, <3>8, <3>9
  <2>2. CASE ~(rows # << >> /\ rows[1].marker = " ")
    BY <1>1, <2>2 DEF Serving!ParsedRows
  <2> QED BY <2>1, <2>2
<1> HIDE DEF parsed, k
<1>3. {rows[i].name : i \in 1 .. k} = r.heads /\ \A i \in 1 .. k : rows[i].marker = "*" <=> rows[i].name = r.head.name
  <2>1. {rows[i].name : i \in 1 .. k} = r.heads
    BY <1>1 DEF AreRowsOf
  <2>2. \A i \in 1 .. k : rows[i].marker = IF rows[i].name = r.head.name THEN "*" ELSE " "
    BY <1>1 DEF AreRowsOf
  <2> QED BY <2>1, <2>2
<1>4. {parsed[i].name : i \in DOMAIN parsed} = r.heads
  BY <1>2, <1>3
<1>5. \E i \in DOMAIN parsed : parsed[i].marker = "*"
  BY <1>2, <1>3
<1>6. \A i \in DOMAIN parsed : parsed[i].marker = "*" => parsed[i].name = r.head.name
  BY <1>2, <1>3
<1>7. Serving!Current(parsed) = r.head.name
  BY <1>5, <1>6, Zenon DEF Serving!Current
<1> QED BY <1>4, <1>7 DEF parsed

LEMMA GitHolds ==
  ASSUME IsFiniteSet(Names), GitInv, [Serving!GitNext]_git
  PROVE  GitInv'
<1> DEFINE Repo == /\ heads \subseteq Names
                   /\ head \in Heads /\ (head.kind = "branch" => head.name \in heads)
                   /\ before \in Names \cup {"none"}
           Asked == query.method = "checkout" => query.name \notin Odd \cup {"-"} /\ query.name \in Names
           Wrote == output # Serving!NoOutput =>
              /\ output.code = 0 /\ output.head.kind = "branch" =>
                    /\ query.method = "status" =>
                          output.rows = <<[marker |-> "##", name |-> output.head.name]>>
                    /\ query.method = "branches" =>
                          output.head.name \in output.heads /\ AreRowsOf(output.rows, output)
<1>1. Repo /\ Asked /\ Wrote
  BY DEF GitInv
<1>2. Serving!Checked \in Names \cup {"none"}
  BY DEF GitInv, Heads, Serving!Checked, Serving!NoName
<1>3. \A b \in Names : LET to == Serving!On("branch", b) IN to \in Heads /\ to.kind = "branch" /\ to.name = b
  BY DEF Heads, Serving!On
<1>4. /\ Serving!On("detached", "(HEAD detached)") \in Heads
      /\ Serving!On("detached", "(HEAD detached)").kind = "detached"
  BY DEF Heads, Serving!On
<1>5. ASSUME NEW method, NEW name, NEW create, Serving!Calls(method, name, create),
             method = "checkout" => name \in Branch \cup Odd \cup {"-"}
      PROVE  Repo' /\ Asked' /\ Wrote'
  <2>1. query'.method = "checkout" => query'.name \notin Odd \cup {"-"} /\ query'.name \in Names
    BY <1>1, <1>5 DEF Serving!Calls, Serving!ValidName, Serving!Bare, Serving!NoQuery, Serving!NoName, Names
  <2> QED BY <1>1, <1>5, <2>1 DEF Serving!Calls
<1>6. ASSUME Serving!Reads PROVE Repo' /\ Asked' /\ Wrote'
  <2> DEFINE rows == IF query.method = "branches" THEN Serving!BranchRows
                     ELSE IF query.method = "status" THEN Serving!StatusRow ELSE << >>
  <2>1. /\ output' = [code |-> 0, rows |-> rows, heads |-> heads, head |-> head]
        /\ query' = query
    BY <1>6 DEF Serving!Reads, Serving!Wrote
  <2>2. output'.rows = rows /\ output'.heads = heads /\ output'.head = head
    BY <2>1
  <2>3. ASSUME head.kind = "branch", query.method = "status"
        PROVE  rows = <<[marker |-> "##", name |-> head.name]>>
    BY <2>3 DEF Serving!StatusRow, Serving!Row
  <2>4. ASSUME head.kind = "branch", query.method = "branches"
        PROVE  head.name \in heads /\ AreRowsOf(rows, output')
    <3>1. rows = Serving!BranchRows
      BY <2>4
    <3> HIDE DEF rows
    <3> QED BY <1>1, <2>2, <2>4, <3>1, BranchRowsOf
  <2> HIDE DEF rows
  <2>5. AreRowsOf(output.rows, output)' <=> AreRowsOf(output'.rows, output')
    BY DEF AreRowsOf
  <2>6. Wrote'
    BY <2>1, <2>2, <2>3, <2>4, <2>5
  <2> QED BY <1>1, <1>6, <2>1, <2>6 DEF Serving!Reads
<1>7. ASSUME Serving!Switches PROVE Repo' /\ Asked' /\ Wrote'
  <2> DEFINE name == IF query.name = "-" THEN before ELSE query.name
  <2>1. query.method = "checkout" /\ query' = query
    BY <1>7 DEF Serving!Switches
  <2>2. Wrote'
    BY <2>1
  <2>3. name \in Names
    BY <1>1, <2>1
  <2>4. /\ head' = Serving!On("branch", name) /\ before' = Serving!Checked
        /\ (heads' = heads /\ name \in heads) \/ heads' = heads \cup {name}
    BY <1>7 DEF Serving!Switches, Serving!SwitchTo, Serving!Bare
  <2> HIDE DEF name
  <2>5. Repo'
    BY <1>1, <1>2, <1>3, <2>3, <2>4
  <2> QED BY <1>1, <2>1, <2>2, <2>5
<1>8. ASSUME Serving!GitFails PROVE Repo' /\ Asked' /\ Wrote'
  <2>1. output'.code = 1
    BY <1>8 DEF Serving!GitFails, Serving!Wrote
  <2> QED BY <1>1, <1>8, <2>1 DEF Serving!GitFails
<1>9. ASSUME Serving!GitElsewhere PROVE Repo' /\ Asked' /\ Wrote'
  <2>1. UNCHANGED <<query, output>>
    BY <1>9 DEF Serving!GitElsewhere
  <2>2. ASSUME NEW b \in Branch \cup Odd, heads' = heads \cup {b}, head' = Serving!On("branch", b),
               before' = Serving!Checked
        PROVE  Repo'
    BY <1>1, <1>2, <1>3, <2>2 DEF Names
  <2>3. ASSUME NEW b \in heads, b # Serving!Checked, heads' = heads \ {b}, UNCHANGED <<head, before>>
        PROVE  Repo'
    BY <1>1, <2>3 DEF Serving!Checked
  <2>4. ASSUME head' = Serving!On("detached", "(HEAD detached)"), before' = Serving!Checked, UNCHANGED heads
        PROVE  Repo'
    BY <1>1, <1>2, <1>4, <2>4
  <2>5. Repo'
    BY <1>9, <2>2, <2>3, <2>4 DEF Serving!GitElsewhere, Serving!LocalName
  <2>6. AreRowsOf(output.rows, output)' <=> AreRowsOf(output.rows, output)
    BY <2>1 DEF AreRowsOf
  <2> QED BY <1>1, <2>1, <2>5, <2>6
<1>10. ASSUME Serving!Answers PROVE Repo' /\ Asked' /\ Wrote'
  BY <1>1, <1>10 DEF Serving!Answers, Serving!NoQuery, Serving!NoName
<1>11. ASSUME UNCHANGED git PROVE Repo' /\ Asked' /\ Wrote'
  <2>1. AreRowsOf(output.rows, output)' <=> AreRowsOf(output.rows, output)
    BY <1>11 DEF AreRowsOf, git
  <2> QED BY <1>1, <1>11, <2>1 DEF git
<1>12. Repo' /\ Asked' /\ Wrote'
  <2> HIDE DEF Repo, Asked, Wrote
  <2>1. ASSUME NEW method \in {"status", "branches", "diff"}, Serving!Calls(method, Serving!NoName, FALSE)
        PROVE  Repo' /\ Asked' /\ Wrote'
    BY <1>5, <2>1
  <2>2. ASSUME NEW name \in Branch \cup Odd \cup {"-"}, NEW create \in BOOLEAN, Serving!Calls("checkout", name, create)
        PROVE  Repo' /\ Asked' /\ Wrote'
    BY <1>5, <2>2
  <2> QED BY <1>6, <1>7, <1>8, <1>9, <1>10, <1>11, <2>1, <2>2
          DEF Serving!GitNext, Serving!LocalName, Serving!Bare
<1> QED BY <1>12 DEF GitInv

LEMMA GitAnswers ==
  ASSUME "*" \notin Names, GitInv, Serving!GitNext,
         output.head.kind = "branch", answer' # answer, answer'.method \in {"status", "branches"}
  PROVE  /\ answer'.current = output.head.name
         /\ answer'.method = "branches" => answer'.branches = output.heads
<1>1. Serving!Answers /\ output.code = 0
  <2>1. Serving!NoAnswer.method = "none" /\ Serving!Failed.method = "none"
    BY DEF Serving!NoAnswer, Serving!Failed, Serving!NoName
  <2>2. ASSUME NEW method, NEW name, NEW create, Serving!Calls(method, name, create) PROVE FALSE
    BY <2>1, <2>2 DEF Serving!Calls
  <2>3. Serving!Answers
    BY <2>2 DEF Serving!GitNext, Serving!Reads, Serving!Switches, Serving!GitFails, Serving!GitElsewhere
  <2> QED BY <2>1, <2>3 DEF Serving!Answers
<1> DEFINE rows == Serving!ParsedRows(output.rows)
           current == CASE query.method = "branches" -> Serving!Current(rows)
                        [] query.method = "status" -> Serving!HeadName(output.rows[1])
                        [] OTHER -> query.name
           branches == IF query.method = "branches" THEN {rows[i].name : i \in DOMAIN rows} ELSE {}
<1>2. answer' = [Serving!NoAnswer EXCEPT !.method = query.method, !.current = current, !.branches = branches]
  BY <1>1 DEF Serving!Answers
<1>3. answer'.method = query.method /\ answer'.current = current /\ answer'.branches = branches
  <2> HIDE DEF current, branches
  <2> QED BY <1>2 DEF Serving!NoAnswer
<1>4. CASE query.method = "status"
  <2>1. output.rows = <<[marker |-> "##", name |-> output.head.name]>>
    BY <1>1, <1>4 DEF GitInv, Serving!Answers
  <2>2. output.rows[1].marker = "##" /\ output.rows[1].name = output.head.name
    BY <2>1
  <2>3. current = output.head.name
    BY <1>4, <2>2 DEF Serving!HeadName
  <2> HIDE DEF current, branches
  <2> QED BY <1>3, <1>4, <2>3
<1>5. CASE query.method = "branches"
  <2>1. output.head.name \in output.heads /\ AreRowsOf(output.rows, output)
    BY <1>1, <1>5 DEF GitInv, Serving!Answers
  <2>2. {rows[i].name : i \in DOMAIN rows} = output.heads /\ Serving!Current(rows) = output.head.name
    BY <2>1, ParsedRowsOf
  <2> HIDE DEF rows
  <2>3. current = output.head.name /\ branches = output.heads
    BY <1>5, <2>2
  <2> HIDE DEF current, branches
  <2> QED BY <1>3, <1>5, <2>3
<1> HIDE DEF current, branches
<1> QED BY <1>3, <1>4, <1>5

LEMMA GitSwitches ==
  ASSUME GitInv, Serving!GitNext, Serving!GitSwitched
  PROVE  /\ head' = Serving!On("branch", query.name)
         /\ heads' # heads => query.create \/ query.name \in Upstream
<1>1. Serving!Switches
  <2>1. Serving!NoOutput.code = -1
    BY DEF Serving!NoOutput
  <2>2. ASSUME NEW method, NEW name, NEW create, Serving!Calls(method, name, create) PROVE FALSE
    BY <2>1, <2>2 DEF Serving!Calls, Serving!GitSwitched
  <2>3. ~Serving!GitFails
    BY DEF Serving!GitFails, Serving!Wrote, Serving!GitSwitched
  <2>4. query.method = "checkout" /\ output = Serving!NoOutput /\ output'.code = 0
    BY DEF Serving!GitSwitched
  <2>5. ~Serving!Reads /\ ~Serving!Answers
    BY <2>4 DEF Serving!Reads, Serving!Answers
  <2>6. ~Serving!GitElsewhere
    <3>1. Serving!GitElsewhere => output' = output
      BY DEF Serving!GitElsewhere
    <3> QED BY <2>1, <2>4, <3>1
  <2> QED BY <2>2, <2>3, <2>5, <2>6 DEF Serving!GitNext
<1> QED BY <1>1 DEF Serving!Switches, Serving!SwitchTo, Serving!GitSwitched, Serving!Bare, GitInv

-----------------------------------------------------------------------------
(* The file methods.                                                       *)

Elements == Name \cup Inner \cup {CHOOSE a \in Name : TRUE}
Requests == [op : Serving!Method \cup {"none"}, from : Serving!Paths, to : Serving!Paths,
             step : {"idle", "located", "parents", "copying"}]

\* The workspace itself is there, and no request under way has been refused.
FilesInv ==
    /\ << >> \in DOMAIN tree /\ DOMAIN tree \subseteq Seq(Elements)
    /\ call \in [Call -> Requests]
    /\ \A c \in Call : ~Serving!refused(call[c])

LEMMA PathsAreSequences == << >> \in Serving!Paths /\ Serving!Paths \subseteq Seq(Elements)
<1>1. \A a \in Name : <<a>> \in Seq(Elements)
  BY DEF Elements
<1>2. Serving!First \in Seq(Elements)
  BY DEF Serving!First, Elements
<1>3. \A b \in Inner : Append(Serving!First, b) \in Seq(Elements)
  BY <1>2, AppendProperties DEF Elements
<1>4. << >> \in Seq(Elements)
  OBVIOUS
<1> DEFINE one == {<<a>> : a \in Name}
           two == {Append(Serving!First, b) : b \in Inner}
<1>5. Serving!Paths = ({<< >>} \cup one) \cup two
  BY DEF Serving!Paths, Serving!Root
<1>6. one \subseteq Seq(Elements) /\ two \subseteq Seq(Elements)
  BY <1>1, <1>3
<1> HIDE DEF one, two
<1> QED BY <1>4, <1>5, <1>6

LEMMA Prefixes ==
  ASSUME NEW p \in Seq(Elements)
  PROVE  Serving!IsPrefix(p, p) /\ (Serving!IsPrefix(p, << >>) => p = << >>)
<1>1. Serving!IsPrefix(p, p)
  BY DEF Serving!IsPrefix
<1>2. ASSUME Serving!IsPrefix(p, << >>) PROVE p = << >>
  <2>1. Len(p) \in Nat /\ Len(p) <= 0
    BY <1>2 DEF Serving!IsPrefix
  <2> QED BY <2>1, EmptySeq
<1> QED BY <1>1, <1>2

\* What is moved is beneath the place it is moved to.
LEMMA MovedBeneath ==
  ASSUME NEW from \in Seq(Elements), NEW to \in Seq(Elements), NEW q \in Seq(Elements), to # << >>
  PROVE  Serving!IsPrefix(to, Serving!Moved(from, to, q)) /\ Serving!Moved(from, to, q) # << >>
<1> DEFINE tail == SubSeq(q, Len(from) + 1, Len(q))
           moved_ == to \o tail
<1>1. Len(from) \in Nat /\ Len(q) \in Nat /\ Len(to) \in Nat /\ Len(to) # 0
  BY EmptySeq
<1>2. tail \in Seq(Elements)
  <2>1. \A i \in Len(from) + 1 .. Len(q) : q[i] \in Elements
    BY <1>1, ElementOfSeq
  <2> QED BY <1>1, <2>1, SubSeqProperties
<1> HIDE DEF tail
<1>3. /\ moved_ \in Seq(Elements) /\ Len(moved_) = Len(to) + Len(tail)
      /\ SubSeq(moved_, 1, Len(to)) = to
  BY <1>2, ConcatProperties, SubSeqOfConcat1, SubSeqFull
<1>4. Len(tail) \in Nat
  BY <1>2
<1> HIDE DEF moved_
<1>5. Serving!IsPrefix(to, moved_)
  BY <1>1, <1>3, <1>4, SubSeqFull DEF Serving!IsPrefix
<1>6. moved_ # << >>
  BY <1>1, <1>3, <1>4, EmptySeq
<1> QED BY <1>5, <1>6 DEF moved_, tail, Serving!Moved

\* A step of a request is of that request alone.
FileStep(c) ==
    \/ \E method \in Serving!Method, from, to \in Serving!Paths \cup {Serving!Outside} :
          /\ method \notin Serving!TwoPaths => to = << >>
          /\ Serving!locate(c, [op |-> method, from |-> from, to |-> to, step |-> "located"])
    \/ Serving!throwIfAborted(c) \/ Serving!mkdirp(c) \/ Serving!remove(c) \/ Serving!rename(c) \/ Serving!copy(c)
    \/ \E t \in Text : Serving!writeText(c, t)

LEMMA OneCall ==
  ASSUME FilesInv, NEW c \in Call, FileStep(c)
  PROVE  /\ call' \in [Call -> Requests]
         /\ \A d \in Call : d # c => call'[d] = call[d]
         /\ ~Serving!refused(call'[c])
<1>1. Serving!Idle \in Requests /\ ~Serving!refused(Serving!Idle)
  BY PathsAreSequences DEF Serving!Idle, Serving!Root, Requests, Serving!refused, Serving!Outside, Serving!TwoPaths
<1>2. ASSUME Serving!Ends(c) PROVE call' = [call EXCEPT ![c] = Serving!Idle]
  BY <1>2 DEF Serving!Ends
<1>3. ASSUME NEW step \in {"located", "parents", "copying"}, Serving!Goes(c, step)
      PROVE  \E r \in Requests : ~Serving!refused(r) /\ call' = [call EXCEPT ![c] = r]
  <2> DEFINE r == [call[c] EXCEPT !.step = step]
  <2>1. r \in Requests /\ r.op = call[c].op /\ r.from = call[c].from /\ r.to = call[c].to
    BY DEF FilesInv, Requests
  <2>2. call' = [call EXCEPT ![c] = r]
    BY <1>3 DEF Serving!Goes
  <2> HIDE DEF r
  <2>3. ~Serving!refused(r)
    BY <2>1 DEF FilesInv, Serving!refused
  <2> QED BY <2>1, <2>2, <2>3
<1>4. ASSUME NEW method \in Serving!Method, NEW from \in Serving!Paths \cup {Serving!Outside},
             NEW to \in Serving!Paths \cup {Serving!Outside},
             Serving!locate(c, [op |-> method, from |-> from, to |-> to, step |-> "located"])
      PROVE  \E r \in Requests : ~Serving!refused(r) /\ call' = [call EXCEPT ![c] = r]
  <2> DEFINE r == [op |-> method, from |-> from, to |-> to, step |-> "located"]
  <2>1. r.op = method /\ r.from = from /\ r.to = to
    OBVIOUS
  <2>2. ~Serving!refused(r) => r \in Requests
    <3>1. ~Serving!refused(r) => from # Serving!Outside /\ to # Serving!Outside
      BY <2>1 DEF Serving!refused
    <3> QED BY <3>1 DEF Requests
  <2> HIDE DEF r
  <2>3. Serving!Ends(c) \/ (~Serving!refused(r) /\ call' = [call EXCEPT ![c] = r])
    BY <1>4 DEF Serving!locate, r
  <2> QED BY <1>1, <1>2, <2>2, <2>3
<1>5. \E r \in Requests : ~Serving!refused(r) /\ call' = [call EXCEPT ![c] = r]
  <2>1. \/ Serving!Ends(c)
        \/ \E step \in {"located", "parents", "copying"} : Serving!Goes(c, step)
        \/ \E method \in Serving!Method, from, to \in Serving!Paths \cup {Serving!Outside} :
              Serving!locate(c, [op |-> method, from |-> from, to |-> to, step |-> "located"])
    BY DEF FileStep, Serving!throwIfAborted, Serving!mkdirp, Serving!remove, Serving!rename, Serving!copy,
           Serving!writeText
  <2> QED BY <1>1, <1>2, <1>3, <1>4, <2>1
<1>6. call \in [Call -> Requests]
  BY DEF FilesInv
<1>7. PICK r \in Requests : ~Serving!refused(r) /\ call' = [call EXCEPT ![c] = r]
  BY <1>5
<1>8. call'[c] = r
  BY <1>6, <1>7
<1> QED BY <1>6, <1>7, <1>8

\* What a request r may change.
Named(r, p) ==
    \/ Serving!IsPrefix(Serving!Target(r), p) /\ p # << >>
    \/ r.op = "rename" /\ Serving!IsPrefix(r.from, p) /\ p # << >>
    \/ p \in Serving!Parents(Serving!Target(r)) /\ p \notin DOMAIN tree

LEMMA Asked ==
  ASSUME FilesInv, NEW c \in Call
  PROVE  /\ call[c] \in Requests
         /\ call[c].from \in Seq(Elements) /\ call[c].to \in Seq(Elements)
         /\ call[c].op \in {"writeText", "remove", "rename"} => call[c].from # << >>
         /\ call[c].op \in {"rename", "copy"} => call[c].to # << >> /\ Serving!Target(call[c]) = call[c].to
         /\ call[c].op \notin {"rename", "copy"} => Serving!Target(call[c]) = call[c].from
<1>1. call[c] \in Requests /\ ~Serving!refused(call[c])
  BY DEF FilesInv
<1>2. call[c].from \in Serving!Paths /\ call[c].to \in Serving!Paths
  BY <1>1 DEF Requests
<1> QED BY <1>1, <1>2, PathsAreSequences DEF Serving!refused, Serving!Root, Serving!TwoPaths, Serving!Target

\* A step that leaves the workspace, or gives one path p a new content.
LEMMA Untouched == ASSUME tree' = tree PROVE Serving!Changed = {}
BY DEF Serving!Changed

LEMMA OneWritten ==
  ASSUME NEW p, NEW t, tree' = [q \in DOMAIN tree \cup {p} |-> IF q = p THEN t ELSE tree[q]]
  PROVE  DOMAIN tree' = DOMAIN tree \cup {p} /\ Serving!Changed \subseteq {p}
BY DEF Serving!Changed

LEMMA Made ==
  ASSUME FilesInv, NEW c \in Call, Serving!mkdirp(c), tree' # tree
  PROVE  /\ DOMAIN tree' \subseteq Seq(Elements) /\ << >> \in DOMAIN tree'
         /\ \A p \in Serving!Changed : Named(call[c], p)
<1> DEFINE r == call[c]
           up == Serving!Parents(Serving!Target(r))
           missing == (up \cup IF r.op = "mkdir" THEN {r.from} ELSE {}) \ DOMAIN tree
<1>1. tree' = [p \in DOMAIN tree \cup missing |-> IF p \in missing THEN "dir" ELSE tree[p]]
  BY DEF Serving!mkdirp
<1>2. /\ r \in Requests /\ r.from \in Seq(Elements) /\ Serving!Target(r) \in Seq(Elements)
      /\ r.op = "mkdir" => Serving!Target(r) = r.from
  BY Asked
<1>3. up \subseteq Seq(Elements)
  <2> DEFINE to == Serving!Target(r)
  <2> HIDE DEF to
  <2>1. ASSUME NEW n \in 0 .. Len(to) - 1 PROVE SubSeq(to, 1, n) \in Seq(Elements)
    <3>1. to \in Seq(Elements) /\ Len(to) \in Nat
      BY <1>2 DEF to
    <3>2. \A i \in 1 .. n : to[i] \in Elements
      BY <3>1, ElementOfSeq
    <3> QED BY <3>1, <3>2, SubSeqProperties
  <2> QED BY <2>1 DEF Serving!Parents, to
<1>4. << >> \in DOMAIN tree /\ DOMAIN tree \subseteq Seq(Elements)
  BY DEF FilesInv
<1> HIDE DEF r, up
<1>5. DOMAIN tree' = DOMAIN tree \cup missing /\ Serving!Changed \subseteq missing
  <2> HIDE DEF missing
  <2> QED BY <1>1 DEF Serving!Changed
<1>6. missing \subseteq Seq(Elements)
  BY <1>2, <1>3
<1>7. ASSUME NEW p \in missing PROVE Named(r, p)
  <2>1. CASE p \in up
    BY <1>7, <2>1 DEF Named, up
  <2>2. CASE r.op = "mkdir" /\ p = r.from
    BY <1>2, <1>4, <1>7, <2>2, Prefixes DEF Named
  <2> QED BY <1>7, <2>1, <2>2
<1> HIDE DEF missing
<1> QED BY <1>4, <1>5, <1>6, <1>7 DEF r

LEMMA Wrote ==
  ASSUME FilesInv, NEW c \in Call, NEW t \in Text, Serving!writeText(c, t), tree' # tree
  PROVE  /\ DOMAIN tree' \subseteq Seq(Elements) /\ << >> \in DOMAIN tree'
         /\ \A p \in Serving!Changed : Named(call[c], p)
<1> DEFINE from == call[c].from
<1>1. call[c].op = "writeText" /\ tree' = [p \in DOMAIN tree \cup {from} |-> IF p = from THEN t ELSE tree[p]]
  BY DEF Serving!writeText
<1>2. from \in Seq(Elements) /\ from # << >> /\ Serving!Target(call[c]) = from
  BY <1>1, Asked
<1> HIDE DEF from
<1>3. DOMAIN tree' = DOMAIN tree \cup {from} /\ Serving!Changed \subseteq {from}
  BY <1>1, OneWritten
<1> QED BY <1>2, <1>3, Prefixes DEF FilesInv, Named

LEMMA Removed ==
  ASSUME FilesInv, NEW c \in Call, Serving!remove(c), tree' # tree
  PROVE  /\ DOMAIN tree' \subseteq Seq(Elements) /\ << >> \in DOMAIN tree'
         /\ \A p \in Serving!Changed : Named(call[c], p)
<1> DEFINE from == call[c].from
<1>1. call[c].op = "remove" /\ tree' = Serving!Restrict(tree, DOMAIN tree \ Serving!Beneath(from))
  BY DEF Serving!remove
<1>2. from \in Seq(Elements) /\ from # << >> /\ Serving!Target(call[c]) = from
  BY <1>1, Asked
<1> HIDE DEF from
<1>3. << >> \notin Serving!Beneath(from)
  BY <1>2, Prefixes DEF Serving!Beneath
<1>4. DOMAIN tree' = DOMAIN tree \ Serving!Beneath(from) /\ Serving!Changed \subseteq Serving!Beneath(from)
  BY <1>1 DEF Serving!Restrict, Serving!Changed
<1>5. \A p \in Serving!Beneath(from) : Serving!IsPrefix(from, p)
  BY DEF Serving!Beneath
<1> QED BY <1>2, <1>3, <1>4, <1>5 DEF FilesInv, Named

LEMMA Renamed ==
  ASSUME FilesInv, NEW c \in Call, Serving!rename(c), tree' # tree
  PROVE  /\ DOMAIN tree' \subseteq Seq(Elements) /\ << >> \in DOMAIN tree'
         /\ \A p \in Serving!Changed : Named(call[c], p)
<1> DEFINE from == call[c].from
           to == call[c].to
           gone == Serving!Beneath(from)
           there == {Serving!Moved(from, to, q) : q \in gone}
           kept == (DOMAIN tree \ gone) \cup there
           content(p) == IF p \in there THEN tree[CHOOSE q \in gone : Serving!Moved(from, to, q) = p] ELSE tree[p]
<1>1. /\ call[c].op = "rename" /\ there \subseteq Serving!Paths
      /\ tree' = [p \in kept |-> content(p)]
  BY DEF Serving!rename
<1>2. /\ from \in Seq(Elements) /\ to \in Seq(Elements) /\ from # << >> /\ to # << >>
      /\ Serving!Target(call[c]) = to
  BY <1>1, Asked
<1>3. there \subseteq Seq(Elements) /\ DOMAIN tree \subseteq Seq(Elements) /\ << >> \in DOMAIN tree
  BY <1>1, PathsAreSequences DEF FilesInv
<1> HIDE DEF from, to
<1>4. gone \subseteq Seq(Elements) /\ << >> \notin gone /\ \A p \in gone : Serving!IsPrefix(from, p)
  BY <1>2, <1>3, Prefixes DEF Serving!Beneath
<1> HIDE DEF gone
<1>5. \A p \in there : Serving!IsPrefix(to, p) /\ p # << >>
  BY <1>2, <1>4, MovedBeneath
<1>6. \A p : p \notin there => content(p) = tree[p]
  OBVIOUS
<1> HIDE DEF there, content
<1>7. DOMAIN tree' = kept /\ Serving!Changed \subseteq gone \cup there
  BY <1>1, <1>6 DEF Serving!Changed
<1> QED BY <1>1, <1>2, <1>3, <1>4, <1>5, <1>7 DEF Named, from

LEMMA Copied ==
  ASSUME FilesInv, NEW c \in Call, Serving!copy(c), tree' # tree
  PROVE  /\ DOMAIN tree' \subseteq Seq(Elements) /\ << >> \in DOMAIN tree'
         /\ \A p \in Serving!Changed : Named(call[c], p)
<1> DEFINE from == call[c].from
           to == call[c].to
<1>1. call[c].op = "copy"
  BY DEF Serving!copy
<1>2. PICK q \in Serving!Beneath(from) :
        LET p == Serving!Moved(from, to, q) IN
        /\ p \in Serving!Paths
        /\ tree' = [d \in DOMAIN tree \cup {p} |-> IF d = p THEN tree[q] ELSE tree[d]]
  BY DEF Serving!copy
<1>3. from \in Seq(Elements) /\ to \in Seq(Elements) /\ to # << >> /\ Serving!Target(call[c]) = to
  BY <1>1, Asked
<1> DEFINE p == Serving!Moved(from, to, q)
<1>4. q \in Seq(Elements)
  BY DEF Serving!Beneath, FilesInv
<1>5. Serving!IsPrefix(to, p) /\ p # << >> /\ p \in Seq(Elements)
  BY <1>2, <1>3, <1>4, MovedBeneath, PathsAreSequences
<1>6. DOMAIN tree' = DOMAIN tree \cup {p} /\ Serving!Changed \subseteq {p}
  BY <1>2, OneWritten
<1> HIDE DEF p, from, to
<1> QED BY <1>3, <1>5, <1>6 DEF FilesInv, Named

LEMMA FilesNamed ==
  ASSUME FilesInv, NEW c \in Call, FileStep(c)
  PROVE  /\ DOMAIN tree' \subseteq Seq(Elements) /\ << >> \in DOMAIN tree'
         /\ \A p \in Serving!Changed : Named(call[c], p)
<1>1. CASE tree' = tree
  BY <1>1, Untouched DEF FilesInv
<1>2. CASE tree' # tree
  <2>1. \/ Serving!mkdirp(c) \/ Serving!remove(c) \/ Serving!rename(c) \/ Serving!copy(c)
        \/ \E t \in Text : Serving!writeText(c, t)
    BY <1>2 DEF FileStep, Serving!locate, Serving!throwIfAborted
  <2> QED BY <1>2, <2>1, Made, Wrote, Removed, Renamed, Copied
<1> QED BY <1>1, <1>2

LEMMA FilesHolds ==
  ASSUME FilesInv, [Serving!FilesNext]_files
  PROVE  FilesInv'
<1>1. ASSUME NEW c \in Call, FileStep(c) PROVE FilesInv'
  BY <1>1, OneCall, FilesNamed DEF FilesInv
<1>2. ASSUME NEW p \in Serving!Paths, NEW t \in Text, Serving!Elsewhere(p, t) PROVE FilesInv'
  <2>1. call' = call /\ p # << >> /\ p \in Seq(Elements)
    BY <1>2, PathsAreSequences DEF Serving!Elsewhere, Serving!Root
  <2>2. DOMAIN tree' = DOMAIN tree \cup {p} \/ DOMAIN tree' = DOMAIN tree \ {p}
    BY <1>2 DEF Serving!Elsewhere, Serving!Restrict
  <2> QED BY <2>1, <2>2 DEF FilesInv
<1>3. CASE UNCHANGED files
  BY <1>3 DEF files, FilesInv
<1>4. ASSUME Serving!FilesNext
      PROVE  (\E c \in Call : FileStep(c)) \/ \E p \in Serving!Paths, t \in Text : Serving!Elsewhere(p, t)
  BY <1>4 DEF Serving!FilesNext, FileStep, Serving!Root
<1> QED BY <1>1, <1>2, <1>3, <1>4

\* No directory holds a command of ours before the first install.
LEMMA PathStarts == ASSUME PathInit PROVE PathInv
<1>1. Idle \in Run /\ NoReceipt \in Receipt /\ Idle.step = "idle" /\ NoReceipt.files = {} /\ NoReceipt.block = None
  BY DEF Idle, NoReceipt, Receipt, Run, Steps
<1>2. PathTypes
  BY <1>1, PathAssumption DEF PathInit, PathTypes, Recorded
<1>3. PathOwn
  BY <1>1 DEF PathInit, PathOwn, Blocks, Recorded
<1> QED BY <1>2, <1>3 DEF PathInv

-----------------------------------------------------------------------------
\* What is changed is what was named: an install keeps every other program's file and an
\* uninstall leaves nothing of its own; the file methods change what is at or beneath
\* the paths of their request, the git methods answer what git saw and leave the branch
\* they name; retention deletes nothing that is served.  For every workspace, every
\* set of branches, directories and profiles and any number of releases, where --bin
\* does not move an installation and no release is deployed during the deletions; no
\* branch is called "*", which git refuses (CommandPath, ServerMethods, Downloads).
THEOREM OnlyTheNamed ==
  ASSUME ~Careless, ~Moves, Newest \in Nat, IsFiniteSet(Names), "*" \notin Names
  PROVE  Spec => DoesWhatIsNamed
<1> DEFINE Inv == PruneInv /\ PathInv /\ GitInv /\ FilesInv
           KeepsOthers == \A bin \in Bin : at[bin] = "other" /\ at'[bin] # "other" => run' = run
           Leaves == Uninstalled /\ ~killed => /\ \A bin \in Bin : at[bin] # "link"
                                               /\ \A f \in Profile : profiles[f] = {}
           Files == \A c \in Call :
                      LET r == call[c] IN
                      call'[c] # r => \A p \in Serving!Changed :
                         \/ Serving!IsPrefix(Serving!Target(r), p) /\ p # Serving!Root
                         \/ r.op = "rename" /\ Serving!IsPrefix(r.from, p) /\ p # Serving!Root
                         \/ p \in Serving!Parents(Serving!Target(r)) /\ p \notin DOMAIN tree
           Git == output.head.kind = "branch" /\ answer' # answer /\ answer'.method \in {"status", "branches"} =>
                     /\ answer'.current = output.head.name
                     /\ answer'.method = "branches" => answer'.branches = output.heads
           Switched == Serving!GitSwitched => /\ head' = Serving!On("branch", query.name)
                                              /\ heads' # heads => query.create \/ query.name \in Upstream
           Deletes == \A k \in Downloading!Key : bucket[k] # "none" /\ bucket'[k] = "none" =>
                         bucket[k] = obsolete[k] /\ ~Downloading!Serves(k)
<1>1. Init => Inv
  <2> SUFFICES ASSUME Init PROVE Inv
    OBVIOUS
  <2>1. PruneInv
    <3>1. Downloading!PruneInit
      BY DEF Init
    <3> QED BY <3>1 DEF Downloading!PruneInit, PruneInv, Downloading!Key, Downloading!Nothing
  <2>2. PathInv
    BY PathStarts DEF Init
  <2>3. GitInv
    <3>1. Serving!GitInit
      BY DEF Init
    <3>2. heads \subseteq Names
      BY <3>1 DEF Serving!GitInit, Serving!LocalName, Names
    <3>3. head \in Heads /\ (head.kind = "branch" => head.name \in heads)
      <4>1. head \in {Serving!On("branch", b) : b \in heads} \cup {Serving!On("detached", "(HEAD detached)")}
                    \cup {Serving!On("unborn", b) : b \in {n \in Branch : heads = {}}}
        BY <3>1 DEF Serving!GitInit
      <4>2. CASE head \in {Serving!On("branch", b) : b \in heads}
        <5>1. PICK b \in heads : head = [kind |-> "branch", name |-> b]
          BY <4>2 DEF Serving!On
        <5> QED BY <3>2, <5>1 DEF Heads
      <4>3. CASE head = Serving!On("detached", "(HEAD detached)")
        BY <4>3 DEF Serving!On, Heads
      <4>4. CASE head \in {Serving!On("unborn", b) : b \in {n \in Branch : heads = {}}}
        <5>1. PICK b \in Branch : head = [kind |-> "unborn", name |-> b]
          BY <4>4 DEF Serving!On
        <5> QED BY <5>1 DEF Heads, Names
      <4> QED BY <4>1, <4>2, <4>3, <4>4
    <3>4. before = "none" /\ query.method # "checkout" /\ output = Serving!NoOutput
      BY <3>1 DEF Serving!GitInit, Serving!NoQuery, Serving!NoName
    <3> QED BY <3>2, <3>3, <3>4 DEF GitInv
  <2>4. FilesInv
    <3>1. Serving!FilesInit
      BY DEF Init
    <3>2. Serving!Idle \in Requests /\ ~Serving!refused(Serving!Idle)
      BY PathsAreSequences
         DEF Serving!Idle, Serving!Root, Requests, Serving!refused, Serving!Outside, Serving!TwoPaths
    <3>3. DOMAIN tree = {<< >>, Serving!First} /\ call = [c \in Call |-> Serving!Idle]
      BY <3>1 DEF Serving!FilesInit, Serving!Root
    <3>4. << >> \in Seq(Elements) /\ Serving!First \in Seq(Elements)
      BY DEF Serving!First, Elements
    <3> QED BY <3>2, <3>3, <3>4 DEF FilesInv
  <2> QED BY <2>1, <2>2, <2>3, <2>4
<1>2. Inv /\ [Next]_vars => Inv'
  <2> SUFFICES ASSUME Inv, [Next]_vars PROVE Inv'
    OBVIOUS
  <2>1. PathInv'
    BY PartSteps, PathTypesHold, PathOwnHolds, KilledStays DEF PathInv
  <2> QED BY <2>1, PartSteps, PruneHolds, GitHolds, FilesHolds
<1>3. Inv /\ [Next]_vars =>
         [KeepsOthers]_commandPath /\ [Leaves]_commandPath /\ [Files]_files /\ [Git]_git /\ [Switched]_git /\ [Deletes]_retention
  <2> SUFFICES ASSUME Inv, [Next]_vars
               PROVE  [KeepsOthers]_commandPath /\ [Leaves]_commandPath /\ [Files]_files /\ [Git]_git
                      /\ [Switched]_git /\ [Deletes]_retention
    OBVIOUS
  <2>1. [KeepsOthers]_commandPath
    BY PartSteps, NameIsLeft DEF PathInv
  <2>2. [Leaves]_commandPath
    BY NothingIsLeft DEF PathInv
  <2>3. [Files]_files
    <3> SUFFICES ASSUME Serving!FilesNext, NEW c \in Call, call'[c] # call[c]
                 PROVE  \A p \in Serving!Changed : Named(call[c], p)
      BY PartSteps DEF Named, Serving!Root
    <3>1. FileStep(c)
      <4>1. ASSUME NEW d \in Call, FileStep(d) PROVE d = c
        BY <4>1, OneCall
      <4>2. (\E d \in Call : FileStep(d)) \/ \E p \in Serving!Paths, t \in Text : Serving!Elsewhere(p, t)
        BY DEF Serving!FilesNext, FileStep, Serving!Root
      <4> QED BY <4>1, <4>2 DEF Serving!Elsewhere
    <3> QED BY <3>1, FilesNamed
  <2>4. [Git]_git
    BY PartSteps, GitAnswers
  <2>5. [Switched]_git
    BY PartSteps, GitSwitches
  <2>6. [Deletes]_retention
    BY PartSteps, PruneDeletes
  <2> QED BY <2>1, <2>2, <2>3, <2>4, <2>5, <2>6
<1>4. Spec => [][KeepsOthers]_commandPath /\ [][Leaves]_commandPath /\ [][Files]_files /\ [][Git]_git
              /\ [][Switched]_git /\ [][Deletes]_retention
  <2> HIDE DEF KeepsOthers, Leaves, Files, Git, Switched, Deletes, Inv
  <2> QED BY <1>1, <1>2, <1>3, PTL DEF Spec
<1>5. OthersAreKept <=> [][KeepsOthers]_commandPath
  BY PTL DEF OthersAreKept
<1>6. LeavesNothing <=> [][Leaves]_commandPath
  BY PTL DEF LeavesNothing
<1>7. Serving!OnlyWhatIsNamed <=> [][Files]_files
  BY PTL DEF Serving!OnlyWhatIsNamed, Serving!files, files
<1>8. Serving!AnswersTheRepository <=> [][Git]_git
  BY PTL DEF Serving!AnswersTheRepository, Serving!git, git
<1>9. Serving!SwitchesToTheNamed <=> [][Switched]_git
  BY PTL DEF Serving!SwitchesToTheNamed, Serving!git, git
<1>10. Downloading!DeletesTheObsolete <=> [][Deletes]_retention
  BY PTL DEF Downloading!DeletesTheObsolete, Downloading!prune, retention
<1> HIDE DEF KeepsOthers, Leaves, Files, Git, Switched, Deletes
<1> QED BY <1>4, <1>5, <1>6, <1>7, <1>8, <1>9, <1>10, PTL DEF DoesWhatIsNamed
-----------------------------------------------------------------------------
(* The completion menu.                                                    *)

Blank == ""

\* Some list that was asked for by the last refresh is still under way.
Awaited == \E r \in listing : r.id = requestId

\* A list under way is for the token under the cursor if it is the last one that was
\* asked for; a menu is for that token when no such list is under way.
MenuInv ==
    /\ draft \in Seq(Completing!Token) /\ caret \in 0 .. Len(draft) /\ requestId \in Nat
    /\ \A r \in listing : r.id \in Nat /\ r.id <= requestId
    /\ \A r \in listing : r.id = requestId =>
          caret > 0 /\ r.start = caret /\ r.token = draft[caret] /\ menuToken = r.token
    /\ menu # Completing!NoMenu =>
          /\ caret > 0 /\ menuToken = draft[caret] /\ menu.start \in 1 .. Len(draft)
          /\ Awaited \/ (menu.start = caret /\ menu.token = draft[caret])

LEMMA Unfit ==
  ASSUME Blank \notin Slash \cup Path, NEW start
  PROVE  Completing!providerKind(Blank, start) = "none"
BY DEF Completing!providerKind

LEMMA Placed ==
  /\ \A words : Completing!TokenAt(words, 0) = Blank
  /\ \A words, place : place # 0 => Completing!TokenAt(words, place) = words[place]
  /\ Blank \in Completing!Token
BY Zenon DEF Completing!TokenAt, Completing!Token, Blank

\* A refresh for the line and cursor as they become, of a token other than the menu's
\* or by force: what it does, by the kind of the token.
RefreshStep(words, place, sorted, tok) ==
    /\ sorted # "none" => place > 0 /\ tok = words[place]
    /\ \/ sorted = "none" /\ Completing!dismissMenu /\ listing' = listing
       \/ /\ sorted # "none" /\ menuToken' = tok /\ requestId' = requestId + 1
          /\ \/ /\ sorted = "slash" /\ listing' = listing
                /\ menu' = Completing!NoMenu \/ (menu'.token = tok /\ menu'.start = place)
             \/ /\ sorted = "path" /\ listing' = listing \cup {[id |-> requestId', token |-> tok, start |-> place]}
                /\ menu' = menu

LEMMA RefreshDoes ==
  ASSUME Blank \notin Slash \cup Path
  PROVE  \A words, place :
           /\ place \in Nat
           /\ \/ Completing!Refresh(words, place, TRUE)
              \/ /\ Completing!Refresh(words, place, FALSE)
                 /\ \/ menu = Completing!NoMenu \/ Completing!TokenAt(words, place) # menuToken
                    \/ Completing!providerKind(Completing!TokenAt(words, place), place) = "none"
           => \E sorted \in {"none", "slash", "path"}, tok \in {Completing!TokenAt(words, place)} :
                 RefreshStep(words, place, sorted, tok)
<1>1. SUFFICES ASSUME NEW words, NEW place,
                      /\ place \in Nat
                      /\ \/ Completing!Refresh(words, place, TRUE)
                         \/ /\ Completing!Refresh(words, place, FALSE)
                            /\ \/ menu = Completing!NoMenu \/ Completing!TokenAt(words, place) # menuToken
                               \/ Completing!providerKind(Completing!TokenAt(words, place), place) = "none"
               PROVE  \E sorted \in {"none", "slash", "path"}, tok \in {Completing!TokenAt(words, place)} :
                         RefreshStep(words, place, sorted, tok)
  OBVIOUS
<1> DEFINE tok == Completing!TokenAt(words, place)
           sorted == Completing!providerKind(tok, place)
<1>2. sorted \in {"none", "slash", "path"}
  BY DEF Completing!providerKind
<1>3. sorted # "none" => place > 0 /\ tok = words[place]
  <2>1. CASE place = 0
    BY <1>1, <2>1, Placed, Unfit
  <2>2. CASE place # 0
    <3>1. place > 0
      <4>1. place \in Nat
        BY <1>1
      <4> QED BY <2>2, <4>1
    <3>2. tok = words[place]
      BY <2>2, Placed
    <3> QED BY <3>1, <3>2
  <2> QED BY <2>1, <2>2
<1>4. CASE sorted = "none"
  BY <1>1, <1>4 DEF Completing!Refresh, RefreshStep
<1>5. CASE sorted = "slash"
  <2>1. /\ menuToken' = tok /\ requestId' = requestId + 1 /\ listing' = listing
        /\ menu' \in {Completing!NoMenu, [token |-> tok, start |-> place, entries |-> Completing!Cardinality(Command)]}
    BY <1>1, <1>5 DEF Completing!Refresh
  <2>2. menu' = Completing!NoMenu \/ (menu'.token = tok /\ menu'.start = place)
    <3>1. \A t, n : menu' \in {Completing!NoMenu, [token |-> t, start |-> place, entries |-> n]} =>
                       menu' = Completing!NoMenu \/ (menu'.token = t /\ menu'.start = place)
      OBVIOUS
    <3> QED BY <2>1, <3>1
  <2> QED BY <1>3, <1>5, <2>1, <2>2 DEF RefreshStep
<1>6. CASE sorted = "path"
  BY <1>1, <1>3, <1>6 DEF Completing!Refresh, RefreshStep
<1> QED BY <1>2, <1>4, <1>5, <1>6

LEMMA DismissHolds ==
  ASSUME MenuInv, Completing!dismissMenu, listing' = listing,
         draft' \in Seq(Completing!Token), caret' \in 0 .. Len(draft')
  PROVE  MenuInv'
<1>1. menu' = Completing!NoMenu /\ requestId' = requestId + 1
  BY DEF Completing!dismissMenu
<1>2. \A r \in listing' : r.id \in Nat /\ r.id <= requestId /\ r.id # requestId'
  BY <1>1 DEF MenuInv
<1> QED BY <1>1, <1>2 DEF MenuInv

LEMMA RefreshHolds ==
  ASSUME MenuInv,
         NEW words \in Seq(Completing!Token), NEW place \in 0 .. Len(words), draft' = words, caret' = place,
         menu = Completing!NoMenu \/ Len(draft) <= Len(words),
         NEW sorted, NEW tok, RefreshStep(words, place, sorted, tok)
  PROVE  MenuInv'
<1> USE DEF RefreshStep
<1>1. CASE sorted = "none"
  BY <1>1, DismissHolds
<1>2. CASE sorted # "none"
  <2>1. /\ menuToken' = tok /\ requestId' = requestId + 1
        /\ place > 0 /\ tok = words[place]
    BY <1>2
  <2>2. \A r \in listing : r.id \in Nat /\ r.id <= requestId /\ r.id # requestId'
    BY <2>1 DEF MenuInv
  <2>3. requestId \in Nat /\ requestId' \in Nat /\ requestId <= requestId'
    BY <2>1 DEF MenuInv
  <2>4. CASE sorted = "slash"
    <3>1. \A r \in listing' : r.id \in Nat /\ r.id <= requestId /\ r.id # requestId'
      BY <2>2, <2>4
    <3>2. menu' # Completing!NoMenu => menu'.token = tok /\ menu'.start = place
      BY <1>2, <2>1, <2>2, <2>4
    <3> QED BY <2>1, <2>3, <3>1, <3>2 DEF MenuInv
  <2>5. CASE sorted = "path"
    <3> DEFINE new == [id |-> requestId', token |-> tok, start |-> place]
    <3>1. listing' = listing \cup {new}
      BY <1>2, <2>5
    <3>2. new.id = requestId' /\ new.token = tok /\ new.start = place
      OBVIOUS
    <3> HIDE DEF new
    <3>3. Awaited'
      BY <3>1, <3>2 DEF Awaited
    <3>4. \A r \in listing' : r.id \in Nat /\ r.id <= requestId'
      <4> TAKE r \in listing'
      <4> QED BY <2>2, <2>3, <3>1, <3>2
    <3>5. \A r \in listing' : r.id = requestId' => r = new
      BY <2>2, <3>1
    <3>6. menu' # Completing!NoMenu => menu'.start \in 1 .. Len(words)
      <4>1. menu' = menu
        BY <1>2, <2>5
      <4>2. menu # Completing!NoMenu => menu.start \in 1 .. Len(draft) /\ Len(draft) <= Len(words)
        BY DEF MenuInv
      <4> QED BY <4>1, <4>2
    <3> QED BY <2>1, <2>3, <3>2, <3>3, <3>4, <3>5, <3>6 DEF MenuInv
  <2> QED BY <1>2, <2>4, <2>5
<1> QED BY <1>1, <1>2

LEMMA EmptyLine ==
  /\ <<"">> \in Seq(Completing!Token) /\ Len(<<"">>) = 1
  /\ << >> \in Seq(Completing!Token)
<1>1. <<Blank>> \in Seq(Completing!Token) /\ Len(<<Blank>>) = 1 /\ << >> \in Seq(Completing!Token)
  BY Placed
<1> QED BY <1>1, Zenon DEF Blank

\* What is accepted replaces the token that the menu was for, and nothing else.
LEMMA Acceptance ==
  ASSUME MenuInv, Command \subseteq Slash, menu # Completing!NoMenu,
         NEW entry \in Completing!Entry, Completing!acceptCompletion(entry)
  PROVE  /\ accepted'.becomes \in Seq(Completing!Token)
         /\ Len(accepted'.becomes) \in Nat
         /\ Completing!AcceptsAtTheCursor'
<1> DEFINE S == Completing!Token
           begin == SubSeq(draft, 1, menu.start - 1)
           after == IF caret = 0 THEN << >> ELSE SubSeq(draft, caret + 1, Len(draft))
           trailing == IF entry \in Slash /\ menu.start = 1 THEN <<"">> ELSE << >>
           one == <<entry>>
           two == begin \o one
           front == two \o trailing
           whole == front \o after
           quiet == listing = {}
<1>1. accepted' = [line |-> draft, at |-> caret, menu |-> menu, becomes |-> whole, quiet |-> quiet]
  BY DEF Completing!acceptCompletion
<1>2. draft \in Seq(S) /\ Len(draft) \in Nat /\ caret \in 0 .. Len(draft) /\ menu.start \in 1 .. Len(draft)
  BY DEF MenuInv
<1>3. quiet => caret > 0 /\ menu.start = caret /\ menu.token = draft[caret]
  BY DEF MenuInv, Awaited
<1>4. begin \in Seq(S) /\ Len(begin) = menu.start - 1
  <2>1. \A i \in 1 .. menu.start - 1 : draft[i] \in S
    BY <1>2, ElementOfSeq
  <2> QED BY <1>2, <2>1, SubSeqProperties
<1>5. after \in Seq(S)
  <2>1. \A i \in caret + 1 .. Len(draft) : draft[i] \in S
    BY <1>2, ElementOfSeq
  <2>2. SubSeq(draft, caret + 1, Len(draft)) \in Seq(S)
    BY <1>2, <2>1, SubSeqProperties
  <2> QED BY <2>2, EmptyLine
<1>6. trailing \in Seq(S)
  BY EmptyLine, Zenon
<1>7. one \in Seq(S) /\ Len(one) = 1
  <2>1. entry \in S
    BY DEF Completing!Entry, Completing!Token
  <2> QED BY <2>1
<1>8. quiet => after = SubSeq(draft, caret + 1, Len(draft))
  BY <1>2, <1>3
<1> HIDE DEF begin, after, trailing, one, quiet, S
<1>9. two \in Seq(S) /\ Len(two) = Len(begin) + 1
  <2>1. two \in Seq(S) /\ Len(two) = Len(begin) + Len(one)
    BY <1>4, <1>7, ConcatProperties
  <2> QED BY <1>7, <2>1
<1>10. front \in Seq(S) /\ Len(front) = Len(two) + Len(trailing)
  BY <1>6, <1>9, ConcatProperties
<1>11. whole \in Seq(S) /\ Len(whole) = Len(front) + Len(after)
  BY <1>5, <1>10, ConcatProperties
<1>12. Len(begin) \in Nat /\ Len(two) \in Nat /\ Len(front) \in Nat /\ Len(after) \in Nat /\ Len(whole) \in Nat /\ Len(trailing) \in Nat
  BY <1>4, <1>5, <1>6, <1>9, <1>10, <1>11, SMTT(30)
<1>13. SubSeq(whole, 1, Len(begin)) = begin
  <2>1. CASE Len(begin) = 0
    BY <1>4, <1>12, <2>1, SubSeqEmpty, EmptySeq
  <2>2. CASE Len(begin) # 0
    <3> DEFINE k == Len(begin)
    <3>1. k \in 1 .. Len(front) /\ k \in 1 .. Len(two) /\ k \in 1 .. Len(begin) /\ 1 \in 1 .. k
      BY <1>9, <1>10, <1>12, <2>2
    <3>2. SubSeq(whole, 1, k) = SubSeq(front, 1, k)
      BY <1>5, <1>10, <3>1, SubSeqOfConcat1
    <3>3. SubSeq(front, 1, k) = SubSeq(two, 1, k)
      BY <1>6, <1>9, <3>1, SubSeqOfConcat1
    <3>4. SubSeq(two, 1, k) = SubSeq(begin, 1, k)
      BY <1>4, <1>7, <3>1, SubSeqOfConcat1
    <3>5. SubSeq(begin, 1, k) = begin
      BY <1>4, SubSeqFull
    <3> QED BY <3>2, <3>3, <3>4, <3>5
  <2> QED BY <2>1, <2>2
<1>14. SubSeq(whole, Len(front) + 1, Len(whole)) = after
  <2>1. CASE Len(after) = 0
    BY <1>5, <1>11, <1>12, <2>1, SubSeqEmpty, EmptySeq
  <2>2. CASE Len(after) # 0
    <3>1. /\ Len(front) + 1 \in Len(front) + 1 .. Len(front) + Len(after)
          /\ Len(whole) \in Len(front) + 1 .. Len(front) + Len(after)
          /\ Len(front) + 1 - Len(front) = 1 /\ Len(whole) - Len(front) = Len(after)
      BY <1>11, <1>12, <2>2
    <3>2. SubSeq(whole, Len(front) + 1, Len(whole)) = SubSeq(after, 1, Len(after))
      BY <1>5, <1>10, <3>1, SubSeqOfConcat2
    <3> QED BY <1>5, <3>2, SubSeqFull
  <2> QED BY <2>1, <2>2
<1> HIDE DEF two, front, whole
<1>15. /\ accepted'.line = draft /\ accepted'.at = caret /\ accepted'.menu = menu
       /\ accepted'.becomes = whole /\ accepted'.quiet = quiet
  BY <1>1
<1>16. ASSUME quiet
       PROVE  /\ accepted'.at > 0 /\ accepted'.menu.start = accepted'.at
              /\ accepted'.menu.token = accepted'.line[accepted'.at]
              /\ SubSeq(accepted'.becomes, 1, accepted'.at - 1) = SubSeq(accepted'.line, 1, accepted'.at - 1)
              /\ \E n \in 0 .. Len(accepted'.becomes) :
                    SubSeq(accepted'.becomes, n + 1, Len(accepted'.becomes))
                      = SubSeq(accepted'.line, accepted'.at + 1, Len(accepted'.line))
  <2>1. SubSeq(whole, 1, caret - 1) = SubSeq(draft, 1, caret - 1)
    BY <1>2, <1>3, <1>4, <1>13, <1>16 DEF begin
  <2>2. Len(front) \in 0 .. Len(whole)
    BY <1>11, <1>12
  <2>3. SubSeq(whole, Len(front) + 1, Len(whole)) = SubSeq(draft, caret + 1, Len(draft))
    BY <1>8, <1>14, <1>16
  <2> QED BY <1>3, <1>15, <1>16, <2>1, <2>2, <2>3
<1>17. Completing!AcceptsAtTheCursor'
  BY <1>15, <1>16 DEF Completing!AcceptsAtTheCursor
<1> QED BY <1>11, <1>12, <1>15, <1>17 DEF S

LEMMA RefreshKeeps ==
  ASSUME Blank \notin Slash \cup Path, MenuInv,
         NEW words \in Seq(Completing!Token), NEW place \in 0 .. Len(words), draft' = words, caret' = place,
         menu = Completing!NoMenu \/ Len(draft) <= Len(words),
         \/ Completing!Refresh(words, place, TRUE)
         \/ /\ Completing!Refresh(words, place, FALSE)
            /\ \/ menu = Completing!NoMenu \/ Completing!TokenAt(words, place) # menuToken
               \/ Completing!providerKind(Completing!TokenAt(words, place), place) = "none"
  PROVE  MenuInv'
<1>1. place \in Nat
  OBVIOUS
<1>2. PICK sorted \in {"none", "slash", "path"}, tok \in {Completing!TokenAt(words, place)} :
         RefreshStep(words, place, sorted, tok)
  BY <1>1, RefreshDoes, Zenon
<1> QED BY <1>2, RefreshHolds

LEMMA Spaced ==
  ASSUME MenuInv, caret > 0, NEW words, words = Completing!InsertAt(draft, caret + 1, Blank)
  PROVE  words \in Seq(Completing!Token) /\ Len(words) = Len(draft) + 1 /\ words[caret + 1] = Blank
<1> DEFINE S == Completing!Token
           begin == SubSeq(draft, 1, caret)
           end == SubSeq(draft, caret + 1, Len(draft))
           one == <<Blank>>
           two == begin \o one
           whole == two \o end
<1>1. draft \in Seq(S) /\ Len(draft) \in Nat /\ caret \in 0 .. Len(draft) /\ caret \in Nat
  BY DEF MenuInv
<1>2. begin \in Seq(S) /\ Len(begin) = caret
  <2>1. \A i \in 1 .. caret : draft[i] \in S
    BY <1>1, ElementOfSeq
  <2> QED BY <1>1, <2>1, SubSeqProperties
<1>3. end \in Seq(S) /\ Len(end) = Len(draft) - caret
  <2>1. \A i \in caret + 1 .. Len(draft) : draft[i] \in S
    BY <1>1, ElementOfSeq
  <2>2. end \in Seq(S) /\ Len(end) = IF caret + 1 <= Len(draft) THEN Len(draft) - (caret + 1) + 1 ELSE 0
    BY <1>1, <2>1, SubSeqProperties
  <2> HIDE DEF end
  <2> QED BY <1>1, <2>2
<1>4. one \in Seq(S) /\ Len(one) = 1 /\ one[1] = Blank
  BY Placed
<1>5. words = whole
  <2>1. (caret + 1) - 1 = caret
    BY <1>1
  <2> QED BY <2>1 DEF Completing!InsertAt
<1> HIDE DEF begin, end, one, S
<1>6. /\ two \in Seq(S) /\ Len(two) = Len(begin) + Len(one)
      /\ \A i \in 1 .. Len(begin) + Len(one) : two[i] = IF i <= Len(begin) THEN begin[i] ELSE one[i - Len(begin)]
  BY <1>2, <1>4, ConcatProperties
<1> HIDE DEF two
<1>7. /\ whole \in Seq(S) /\ Len(whole) = Len(two) + Len(end)
      /\ \A i \in 1 .. Len(two) + Len(end) : whole[i] = IF i <= Len(two) THEN two[i] ELSE end[i - Len(two)]
  BY <1>3, <1>6, ConcatProperties
<1> HIDE DEF whole
<1>8. Len(two) = caret + 1 /\ Len(whole) = Len(draft) + 1
  BY <1>1, <1>2, <1>3, <1>4, <1>6, <1>7
<1>9. two[caret + 1] = Blank
  <2>1. caret + 1 \in 1 .. Len(begin) + Len(one) /\ ~(caret + 1 <= Len(begin)) /\ (caret + 1) - Len(begin) = 1
    BY <1>1, <1>2, <1>4
  <2> QED BY <1>4, <1>6, <2>1
<1>10. whole[caret + 1] = Blank
  <2>1. caret + 1 \in 1 .. Len(two) + Len(end) /\ caret + 1 <= Len(two)
    BY <1>1, <1>3, <1>8
  <2> QED BY <1>7, <1>9, <2>1
<1> QED BY <1>5, <1>7, <1>8, <1>10 DEF S

LEMMA MenuHolds ==
  ASSUME ~Careless, Blank \notin Slash \cup Path, Command \subseteq Slash,
         MenuInv, Completing!CompletionNext
  PROVE  MenuInv'
<1>0. draft \in Seq(Completing!Token) /\ caret \in 0 .. Len(draft) /\ Len(draft) \in Nat /\ caret \in Nat
  BY DEF MenuInv
<1>1. ASSUME NEW t \in Completing!Token, Completing!Edit(t) PROVE MenuInv'
  <2> DEFINE words == [draft EXCEPT ![caret] = t]
  <2>1. caret > 0 /\ t # draft[caret] /\ draft' = words /\ caret' = caret /\ Completing!Refresh(words, caret, FALSE)
    BY <1>1, Zenon DEF Completing!Edit
  <2>2. words \in Seq(Completing!Token) /\ Len(words) = Len(draft) /\ words[caret] = t
    BY <1>0, <2>1
  <2> HIDE DEF words
  <2>3. menu = Completing!NoMenu \/ Completing!TokenAt(words, caret) # menuToken
    <3>1. Completing!TokenAt(words, caret) = t
      BY <1>0, <2>1, <2>2, Placed
    <3> QED BY <2>1, <3>1 DEF MenuInv
  <2>4. caret \in 0 .. Len(words) /\ Len(draft) <= Len(words)
    BY <1>0, <2>2
  <2> QED BY <2>1, <2>2, <2>3, <2>4, RefreshKeeps
<1>2. ASSUME NEW i \in 0 .. MaxTokens, i <= Len(draft), Completing!Jump(i) PROVE MenuInv'
  <2>1. /\ caret' = i /\ draft' = draft /\ Completing!Refresh(draft, i, FALSE)
        /\ menu = Completing!NoMenu \/ Completing!TokenAt(draft, i) # Completing!TokenAt(draft, caret)
    BY <1>2, Zenon DEF Completing!Jump
  <2>2. menu = Completing!NoMenu \/ Completing!TokenAt(draft, i) # menuToken
    <3>1. menu # Completing!NoMenu => Completing!TokenAt(draft, caret) = menuToken
      BY <1>0, Placed DEF MenuInv
    <3> QED BY <2>1, <3>1, Zenon
  <2>3. i \in 0 .. Len(draft)
    BY <1>0, <1>2
  <2>4. Len(draft) <= Len(draft)
    BY <1>0
  <2> QED BY <1>0, <2>1, <2>2, <2>3, <2>4, RefreshKeeps
<1>3. ASSUME NEW r \in listing, NEW n \in {0, 1, 7}, Completing!Listed(r, n) PROVE MenuInv'
  <2>1. /\ listing' = listing \ {r} /\ draft' = draft /\ caret' = caret
        /\ menuToken' = menuToken /\ requestId' = requestId
    BY <1>3 DEF Completing!Listed
  <2>2. CASE r.id = requestId
    <3>1. menu' # Completing!NoMenu => menu'.token = r.token /\ menu'.start = r.start
      BY <1>3, <2>2 DEF Completing!Listed
    <3>2. caret > 0 /\ r.start = caret /\ r.token = draft[caret] /\ menuToken = r.token
      BY <2>2 DEF MenuInv
    <3>3. caret \in 1 .. Len(draft)
      BY <1>0, <3>2
    <3> QED BY <2>1, <3>1, <3>2, <3>3 DEF MenuInv
  <2>3. CASE r.id # requestId
    <3>1. menu' = menu
      BY <1>3, <2>3 DEF Completing!Listed
    <3>2. Awaited => Awaited'
      BY <2>1, <2>3 DEF Awaited
    <3> QED BY <2>1, <3>1, <3>2 DEF MenuInv
  <2> QED BY <2>2, <2>3
<1>4. CASE Completing!Space
  <2> DEFINE words == Completing!InsertAt(draft, caret + 1, Blank)
  <2>1. caret > 0 /\ draft' = words /\ caret' = caret + 1 /\ Completing!Refresh(words, caret + 1, FALSE)
    BY <1>4, Zenon DEF Completing!Space, Blank
  <2>2. words \in Seq(Completing!Token) /\ Len(words) = Len(draft) + 1 /\ words[caret + 1] = Blank
    BY <2>1, Spaced
  <2> HIDE DEF words
  <2>3. Completing!providerKind(Completing!TokenAt(words, caret + 1), caret + 1) = "none"
    <3>1. Completing!TokenAt(words, caret + 1) = Blank
      BY <1>0, <2>2, Placed
    <3> QED BY <3>1, Unfit, Zenon
  <2>4. caret + 1 \in 0 .. Len(words) /\ Len(draft) <= Len(words)
    BY <1>0, <2>2
  <2> QED BY <2>1, <2>2, <2>3, <2>4, RefreshKeeps
<1>5. CASE Completing!TabAccepts
  <2>1. PICK entry \in Completing!Entry : menu # Completing!NoMenu /\ Completing!acceptCompletion(entry)
    BY <1>5 DEF Completing!TabAccepts
  <2>2. draft' = accepted'.becomes /\ caret' = Len(accepted'.becomes)
    BY <1>5 DEF Completing!TabAccepts
  <2>3. accepted'.becomes \in Seq(Completing!Token) /\ Len(accepted'.becomes) \in Nat
    BY <2>1, Acceptance
  <2>4. Completing!dismissMenu /\ listing' = listing
    BY <2>1 DEF Completing!acceptCompletion
  <2>5. caret' \in 0 .. Len(draft')
    BY <2>2, <2>3
  <2> QED BY <2>2, <2>3, <2>4, <2>5, DismissHolds
<1>6. CASE Completing!TabAsks
  <2>1. menu = Completing!NoMenu /\ draft' = draft /\ caret' = caret /\ Completing!Refresh(draft, caret, TRUE)
    BY <1>6, Zenon DEF Completing!TabAsks
  <2> QED BY <1>0, <2>1, RefreshKeeps
<1>7. CASE Completing!EnterAccepts
  <2>1. PICK entry \in Completing!Entry :
           /\ menu # Completing!NoMenu /\ Completing!acceptCompletion(entry)
           /\ \/ draft' = <<"">> /\ caret' = 1
              \/ draft' = accepted'.becomes /\ caret' = Len(draft')
    BY <1>7, Zenon DEF Completing!EnterAccepts
  <2>2. accepted'.becomes \in Seq(Completing!Token) /\ Len(accepted'.becomes) \in Nat
    BY <2>1, Acceptance, Zenon
  <2>3. Completing!dismissMenu /\ listing' = listing
    BY <2>1, Zenon DEF Completing!acceptCompletion
  <2>4. draft' \in Seq(Completing!Token) /\ caret' \in 0 .. Len(draft')
    <3>1. 1 \in 0 .. 1 /\ Len(accepted'.becomes) \in 0 .. Len(accepted'.becomes)
      BY <2>2
    <3> QED BY <2>1, <2>2, <3>1, EmptyLine, Zenon
  <2> QED BY <2>3, <2>4, DismissHolds
<1>8. CASE Completing!EnterSubmits
  <2> DEFINE words == <<"">>
  <2>1. menu = Completing!NoMenu /\ draft' = words /\ caret' = 1 /\ Completing!Refresh(words, 1, FALSE)
    BY <1>8, Zenon DEF Completing!EnterSubmits
  <2>2. words \in Seq(Completing!Token) /\ Len(words) = 1
    BY EmptyLine, Zenon
  <2> HIDE DEF words
  <2>3. 1 \in 0 .. Len(words)
    BY <2>2
  <2> QED BY <2>1, <2>2, <2>3, RefreshKeeps
<1>9. CASE Completing!Accelerated
  <2> DEFINE words == <<"">>
  <2>1. draft' = words /\ caret' = 1 /\ Completing!dismissMenu /\ listing' = listing
    BY <1>9, Zenon DEF Completing!Accelerated
  <2>2. words \in Seq(Completing!Token) /\ Len(words) = 1
    BY EmptyLine, Zenon
  <2> HIDE DEF words
  <2>3. caret' \in 0 .. Len(draft')
    BY <2>1, <2>2
  <2> QED BY <2>1, <2>2, <2>3, DismissHolds
<1>10. CASE Completing!Move \/ Completing!renderMenu
  <2>1. draft' = draft /\ caret' = caret /\ menu' = menu /\ menuToken' = menuToken /\ requestId' = requestId /\ listing' = listing
    BY <1>10 DEF Completing!Move, Completing!renderMenu
  <2> QED BY <2>1 DEF MenuInv, Awaited
<1>11. CASE Completing!Escape
  BY <1>0, <1>11, DismissHolds DEF Completing!Escape
<1>12. CASE Completing!Outside
  <2>1. /\ menu = Completing!NoMenu /\ listing = {} /\ menu' = menu /\ listing' = listing /\ requestId' = requestId
        /\ \/ caret' \in 0 .. Len(draft) /\ draft' = draft
           \/ \E t \in Word : draft' = Append(draft, t) /\ caret' = Len(draft')
    BY <1>12 DEF Completing!Outside
  <2>2. draft' \in Seq(Completing!Token) /\ caret' \in 0 .. Len(draft')
    <3>1. CASE draft' = draft
      BY <1>0, <2>1, <3>1
    <3>2. ASSUME NEW t \in Word, draft' = Append(draft, t), caret' = Len(draft')
           PROVE  draft' \in Seq(Completing!Token) /\ caret' \in 0 .. Len(draft')
      <4>1. t \in Completing!Token
        BY DEF Completing!Token
      <4> QED BY <1>0, <3>2, <4>1
    <3> QED BY <2>1, <3>1, <3>2
  <2> QED BY <2>1, <2>2 DEF MenuInv
<1> QED BY <1>1, <1>2, <1>3, <1>4, <1>5, <1>6, <1>7, <1>8, <1>9, <1>10, <1>11, <1>12, Zenon DEF Completing!CompletionNext

LEMMA AcceptedHolds ==
  ASSUME Command \subseteq Slash, MenuInv, Completing!AcceptsAtTheCursor, [Completing!CompletionNext]_completion
  PROVE  Completing!AcceptsAtTheCursor'
<1>1. CASE accepted' = accepted
  BY <1>1 DEF Completing!AcceptsAtTheCursor
<1>2. CASE accepted' # accepted
  <2>1. Completing!TabAccepts \/ Completing!EnterAccepts
    BY <1>2, Zenon DEF Completing!CompletionNext, completion, Completing!Edit, Completing!Jump, Completing!Listed,
       Completing!Space, Completing!TabAsks, Completing!EnterSubmits, Completing!Accelerated,
       Completing!Move, Completing!Escape, Completing!renderMenu, Completing!Outside
  <2>2. \E entry \in Completing!Entry : menu # Completing!NoMenu /\ Completing!acceptCompletion(entry)
    BY <2>1, Zenon DEF Completing!TabAccepts, Completing!EnterAccepts
  <2> QED BY <2>2, Acceptance
<1> QED BY <1>1, <1>2
-----------------------------------------------------------------------------
(* The thinking level.                                                     *)

\* The selections whose level the model has, and one step round its levels.
Good == {s \in Choosing!Selection : Choosing!Fits(s)}
OneLevel(from, to) ==
    /\ to.model = from.model
    /\ \E i \in 1 .. Len(Efforts[from.model]) :
          /\ Efforts[from.model][i] = Choosing!Effective(from)
          /\ to.level = Efforts[from.model][(i % Len(Efforts[from.model])) + 1]
Levels == \A m \in Model : /\ Efforts[m] \in Seq(Choosing!Range(Efforts[m]))
                           /\ Efforts[m] # << >> => DefaultEffort[m] \in Choosing!Range(Efforts[m])

\* At most one command is under way; the journal that is still to come ends with the
\* Host's selection; a Shift-Tab on its way is one level from it.
LevelInv ==
    /\ session \in Good /\ default \in Good /\ model \in Good
    /\ events \in Seq(Good)
    /\ IF events = << >> THEN model = session ELSE events[Len(events)] = session
    /\ op \in [Op -> [stage : {"idle", "catalog", "panel", "sent", "applied"},
                      kind : {"none", "cycle", "named", "panel"}, to : Good \cup {Choosing!Unread}]]
    /\ \A c, d \in Op : op[c] # Choosing!Idle /\ op[d] # Choosing!Idle => c = d
    /\ \A c \in Op :
          /\ op[c].stage \in {"panel", "sent", "applied"} => op[c].to \in Good
          /\ op[c].stage = "catalog" => model = session /\ events = << >> /\ op[c].kind # "none"
          /\ op[c].stage = "panel" => op[c].kind = "panel"
          /\ op[c].stage = "sent" /\ op[c].kind = "cycle" => OneLevel(session, op[c].to)
          /\ op[c].stage = "applied" => op[c].to = session
    /\ applied.to = Choosing!Unread \/ OneLevel(applied.from, applied.to)

LEMMA NextIsOneLevel ==
  ASSUME Levels, NEW s \in Good, Efforts[s.model] # << >>
  PROVE  OneLevel(s, [model |-> s.model, level |-> Choosing!nextLevel(Efforts[s.model], Choosing!Effective(s))])
         /\ Choosing!nextLevel(Efforts[s.model], Choosing!Effective(s)) \in Choosing!Range(Efforts[s.model])
<1> DEFINE levels == Efforts[s.model]
           current == Choosing!Effective(s)
           n == CHOOSE i \in 1 .. Len(levels) : levels[i] = current
           to == [model |-> s.model, level |-> Choosing!nextLevel(levels, current)]
<1>1. /\ s.model \in Model /\ levels \in Seq(Choosing!Range(levels)) /\ levels # << >>
      /\ s.level \in Choosing!Range(levels) \cup {"none"}
  BY DEF Good, Choosing!Selection, Choosing!Fits, Levels, Choosing!NoLevel
<1>2. current \in Choosing!Range(levels)
  <2>1. DefaultEffort[s.model] \in Choosing!Range(levels)
    BY <1>1 DEF Levels
  <2> QED BY <1>1, <2>1 DEF Choosing!Effective, Choosing!NoLevel
<1>3. Len(levels) \in Nat /\ Len(levels) > 0
  BY <1>1, EmptySeq
<1>4. \E i \in 1 .. Len(levels) : levels[i] = current
  BY <1>1, <1>2 DEF Choosing!Range
<1> HIDE DEF levels, current
<1>5. n \in 1 .. Len(levels) /\ levels[n] = current
  BY <1>4, Zenon
<1>6. Choosing!nextLevel(levels, current) = levels[(n % Len(levels)) + 1]
  BY <1>2, Zenon DEF Choosing!nextLevel
<1> HIDE DEF n
<1>7. (n % Len(levels)) + 1 \in 1 .. Len(levels)
  BY <1>3, <1>5
<1>8. levels[(n % Len(levels)) + 1] \in Choosing!Range(levels)
  BY <1>1, <1>7 DEF Choosing!Range
<1>9. to.model = s.model /\ to.level = levels[(n % Len(levels)) + 1]
  BY <1>6
<1> HIDE DEF to
<1>10. OneLevel(s, to)
  BY <1>5, <1>9 DEF OneLevel, levels, current
<1> QED BY <1>6, <1>8, <1>10 DEF to, levels, current
LEMMA GoodFacts ==
  ASSUME "none" \notin Model
  PROVE  /\ Choosing!Unread \notin Good
         /\ \A s \in Good : s.model \in Model /\ s = [model |-> s.model, level |-> s.level]
         /\ \A m \in Model : \A level \in Choosing!Range(Efforts[m]) : [model |-> m, level |-> level] \in Good
         /\ Choosing!Idle.stage = "idle" /\ Choosing!Idle.kind = "none" /\ Choosing!Idle.to = Choosing!Unread
<1>1. Choosing!Unread \notin Good
  BY DEF Good, Choosing!Selection, Choosing!Unread
<1>2. \A s \in Good : s.model \in Model /\ s = [model |-> s.model, level |-> s.level]
  BY DEF Good, Choosing!Selection
<1>3. ASSUME NEW m \in Model, NEW level \in Choosing!Range(Efforts[m]) PROVE [model |-> m, level |-> level] \in Good
  BY <1>3 DEF Good, Choosing!Selection, Choosing!Fits
<1>4. Choosing!Idle.stage = "idle" /\ Choosing!Idle.kind = "none" /\ Choosing!Idle.to = Choosing!Unread
  BY DEF Choosing!Idle
<1> QED BY <1>1, <1>2, <1>3, <1>4

Stages == {"idle", "catalog", "panel", "sent", "applied"}
Commands == [stage : Stages, kind : {"none", "cycle", "named", "panel"}, to : Good \cup {Choosing!Unread}]

\* What a command may be, given the Host's selection and the window's.
Proper(o) ==
    /\ o \in Commands
    /\ o.stage \in {"panel", "sent", "applied"} => o.to \in Good
    /\ o.stage = "catalog" => model = session /\ events = << >> /\ o.kind # "none"
    /\ o.stage = "panel" => o.kind = "panel"
    /\ o.stage = "sent" /\ o.kind = "cycle" => OneLevel(session, o.to)
    /\ o.stage = "applied" => o.to = session

\* A step of a command that leaves the Host's selection, the window's and the journal.
LEMMA Becoming ==
  ASSUME "none" \notin Model, LevelInv, NEW c \in Op, NEW o, Proper(o), op' = [op EXCEPT ![c] = o],
         op[c] # Choosing!Idle \/ \A d \in Op : op[d] = Choosing!Idle,
         UNCHANGED <<session, model, events, applied>>, default' \in Good
  PROVE  LevelInv'
<1>1. op \in [Op -> Commands]
  BY DEF LevelInv, Commands, Stages
<1>2. op' \in [Op -> Commands] /\ op'[c] = o /\ \A d \in Op : d # c => op'[d] = op[d]
  BY <1>1 DEF Proper
<1>3. \A d \in Op : op'[d] # Choosing!Idle => d = c
  <2>1. \A d \in Op : op[d] # Choosing!Idle => d = c
    BY DEF LevelInv
  <2> QED BY <1>2, <2>1
<1>4. \A d \in Op : Proper(op'[d])
  <2>1. \A d \in Op : Proper(op[d])
    BY <1>1 DEF LevelInv, Proper
  <2> QED BY <1>2, <2>1
<1>5. \A d \in Op : Proper(op[d])'
  BY <1>2, <1>4 DEF Proper, OneLevel, Choosing!Effective
<1>6. (op \in [Op -> Commands])'
  BY <1>2 DEF Commands, Stages, Good, Choosing!Selection, Choosing!Fits
<1>7. \A d, e \in Op : (op[d] # Choosing!Idle /\ op[e] # Choosing!Idle => d = e)'
  BY <1>3
<1>8. (/\ session \in Good /\ default \in Good /\ model \in Good /\ events \in Seq(Good)
       /\ IF events = << >> THEN model = session ELSE events[Len(events)] = session
       /\ applied.to = Choosing!Unread \/ OneLevel(applied.from, applied.to))'
  BY DEF LevelInv, OneLevel, Choosing!Effective
<1> QED BY <1>5, <1>6, <1>7, <1>8 DEF LevelInv, Proper, Commands, Stages

LEMMA IdleIsProper == ASSUME "none" \notin Model PROVE Proper(Choosing!Idle)
<1>1. Choosing!Idle \in Commands
  BY DEF Choosing!Idle, Commands, Stages
<1> QED BY <1>1, GoodFacts DEF Proper

\* A selection that the Host takes while nothing else is sent.
LEMMA Selected ==
  ASSUME "none" \notin Model, LevelInv, NEW s \in Good, Choosing!Selects(s), model' = model
  PROVE  /\ session' = s /\ session' \in Good /\ default' \in Good /\ model' \in Good /\ events' \in Seq(Good)
         /\ events' # << >> /\ events'[Len(events')] = s
<1>1. session' = s /\ default' = s /\ events' = Append(events, s) /\ events \in Seq(Good)
  BY DEF Choosing!Selects, LevelInv
<1>2. events' \in Seq(Good) /\ events' # << >> /\ events'[Len(events')] = s
  BY <1>1, AppendProperties
<1> QED BY <1>1, <1>2 DEF LevelInv

LEMMA LevelHolds ==
  ASSUME ~Careless, Levels, "none" \notin Model, LevelInv, [Choosing!ThinkingNext]_thinking
  PROVE  LevelInv'
<1>0. /\ op \in [Op -> Commands] /\ \A d \in Op : Proper(op[d])
      /\ \A d, e \in Op : op[d] # Choosing!Idle /\ op[e] # Choosing!Idle => d = e
      /\ session \in Good /\ default \in Good /\ model \in Good
  BY DEF LevelInv, Proper, Commands, Stages
<1>1. ASSUME NEW c \in Op, NEW kind \in {"cycle", "named", "panel"}, Choosing!Press(c, kind) PROVE LevelInv'
  <2> DEFINE o == [stage |-> "catalog", kind |-> kind, to |-> Choosing!Unread]
  <2>1. /\ op' = [op EXCEPT ![c] = o] /\ \A d \in Op : op[d] = Choosing!Idle
        /\ UNCHANGED <<session, model, events, applied>> /\ default' = default /\ events = << >>
    BY <1>1 DEF Choosing!Press, Choosing!Becomes, Choosing!Quiet
  <2>2. o \in Commands /\ o.stage = "catalog" /\ o.kind = kind
    BY DEF Commands, Stages
  <2> HIDE DEF o
  <2>3. Proper(o)
    BY <2>1, <2>2 DEF Proper, LevelInv
  <2> QED BY <1>0, <2>1, <2>3, Becoming
<1>2. ASSUME NEW c \in Op, Choosing!loadThinking(c) PROVE LevelInv'
  <2> DEFINE levels == Efforts[model.model]
  <2>1. /\ op[c].stage = "catalog" /\ op[c] # Choosing!Idle
        /\ UNCHANGED <<session, model, events, applied>> /\ default' = default
    BY <1>2, GoodFacts DEF Choosing!loadThinking
  <2>2. op[c].kind # "none" /\ model = session /\ events = << >> /\ model.model \in Model /\ op[c] \in Commands
    BY <1>0, <2>1, GoodFacts DEF Proper
  <2>3. ASSUME NEW o, Proper(o), op' = [op EXCEPT ![c] = o] PROVE LevelInv'
    BY <1>0, <2>1, <2>3, Becoming
  <2>4. CASE levels = << >> \/ op' = [op EXCEPT ![c] = Choosing!Idle]
    <3>1. op' = [op EXCEPT ![c] = Choosing!Idle]
      BY <1>2, <2>4 DEF Choosing!loadThinking, Choosing!Becomes, Choosing!thinkingLevelsOf
    <3> QED BY <2>3, <3>1, IdleIsProper
  <2>5. CASE levels # << >> /\ op[c].kind = "cycle"
    <3> DEFINE to == [model |-> model.model, level |-> Choosing!nextLevel(levels, Choosing!Effective(model))]
               o == [stage |-> "sent", kind |-> "cycle", to |-> to]
    <3>1. default # Choosing!Unread
      BY <1>0, GoodFacts
    <3>2. Choosing!thinkingLevelOf(model, default) = Choosing!Effective(model)
      BY <3>1 DEF Choosing!thinkingLevelOf, Choosing!Effective
    <3>3. op' = [op EXCEPT ![c] = o]
      BY <1>2, <2>5, <3>2 DEF Choosing!loadThinking, Choosing!Becomes, Choosing!thinkingLevelsOf
    <3>4. OneLevel(model, to) /\ to \in Good
      BY <1>0, <2>2, <2>5, NextIsOneLevel, GoodFacts
    <3> HIDE DEF to
    <3>5. o \in Commands /\ o.stage = "sent" /\ o.kind = "cycle" /\ o.to = to
      BY <3>4 DEF Commands, Stages
    <3> HIDE DEF o
    <3>6. Proper(o)
      BY <2>2, <3>4, <3>5 DEF Proper
    <3> QED BY <2>3, <3>3, <3>6
  <2>6. CASE levels # << >> /\ op[c].kind = "named" /\ op' # [op EXCEPT ![c] = Choosing!Idle]
    <3>1. PICK level \in Choosing!Range(levels) \cup {Choosing!NoLevel} :
             op' = [op EXCEPT ![c] = [stage |-> "sent", kind |-> "named", to |-> [model |-> model.model, level |-> level]]]
             /\ level # Choosing!NoLevel
      BY <1>2, <2>6 DEF Choosing!loadThinking, Choosing!Becomes, Choosing!thinkingLevelsOf
    <3> DEFINE to == [model |-> model.model, level |-> level]
               o == [stage |-> "sent", kind |-> "named", to |-> to]
    <3>2. to \in Good
      BY <2>2, <3>1, GoodFacts
    <3> HIDE DEF to
    <3>3. o \in Commands /\ o.stage = "sent" /\ o.kind = "named" /\ o.to = to
      BY <3>2 DEF Commands, Stages
    <3>4. op' = [op EXCEPT ![c] = o]
      BY <3>1 DEF to
    <3> HIDE DEF o
    <3>5. Proper(o)
      BY <3>2, <3>3 DEF Proper
    <3> QED BY <2>3, <3>4, <3>5
  <2>7. CASE levels # << >> /\ op[c].kind \notin {"cycle", "named"}
    <3> DEFINE o == [op[c] EXCEPT !.stage = "panel", !.to = model]
    <3>1. op' = [op EXCEPT ![c] = o]
      BY <1>2, <2>7 DEF Choosing!loadThinking, Choosing!Becomes, Choosing!thinkingLevelsOf
    <3>2. /\ o \in Commands /\ o.stage = "panel" /\ o.kind = op[c].kind /\ o.to = model
      BY <1>0, <2>2 DEF Commands, Stages
    <3>3. op[c].kind \in {"none", "panel"} /\ op[c].kind # "none"
      BY <1>0, <2>1, <2>2, <2>7 DEF Commands, Proper
    <3> HIDE DEF o
    <3>4. Proper(o)
      BY <1>0, <3>2, <3>3 DEF Proper
    <3> QED BY <2>3, <3>1, <3>4
  <2> QED BY <2>4, <2>5, <2>6, <2>7
<1>3. ASSUME NEW c \in Op, Choosing!loadFails(c) \/ Choosing!commitFails(c) PROVE LevelInv'
  <2>1. /\ op' = [op EXCEPT ![c] = Choosing!Idle] /\ op[c].stage # "idle"
        /\ UNCHANGED <<session, model, events, applied>> /\ default' = default
    BY <1>3 DEF Choosing!loadFails, Choosing!commitFails, Choosing!Becomes
  <2>2. op[c] # Choosing!Idle
    BY <2>1, GoodFacts
  <2> QED BY <1>0, <2>1, <2>2, IdleIsProper, Becoming
<1>4. ASSUME NEW c \in Op, Choosing!chooseThinking(c) PROVE LevelInv'
  <2>1. /\ op[c].stage = "panel" /\ op[c] # Choosing!Idle
        /\ UNCHANGED <<session, model, events, applied>> /\ default' = default
    BY <1>4, GoodFacts DEF Choosing!chooseThinking
  <2>2. ASSUME NEW o, Proper(o), op' = [op EXCEPT ![c] = o] PROVE LevelInv'
    BY <1>0, <2>1, <2>2, Becoming
  <2>3. CASE op' = [op EXCEPT ![c] = Choosing!Idle]
    BY <2>2, <2>3, IdleIsProper
  <2>4. ASSUME NEW level \in Choosing!Range(Efforts[op[c].to.model]),
               op' = [op EXCEPT ![c] = [op[c] EXCEPT !.stage = "sent", !.to.level = level]]
        PROVE  LevelInv'
    <3> DEFINE o == [op[c] EXCEPT !.stage = "sent", !.to.level = level]
               to == [op[c].to EXCEPT !.level = level]
    <3>1. op[c] \in Commands /\ op[c].to \in Good /\ op[c].kind = "panel"
      BY <1>0, <2>1 DEF Proper
    <3>2. to = [model |-> op[c].to.model, level |-> level] /\ op[c].to.model \in Model
      BY <3>1, GoodFacts DEF Good, Choosing!Selection
    <3>3. to \in Good
      BY <3>2, GoodFacts
    <3>4. o = [op[c] EXCEPT !.stage = "sent", !.to = to]
      BY <3>1 DEF Commands
    <3> HIDE DEF to, o
    <3>5. o \in Commands /\ o.stage = "sent" /\ o.kind = "panel" /\ o.to = to
      BY <3>1, <3>3, <3>4 DEF Commands, Stages
    <3>6. Proper(o)
      BY <3>3, <3>5 DEF Proper
    <3> QED BY <2>2, <2>4, <3>6 DEF o
  <2> QED BY <1>4, <2>3, <2>4 DEF Choosing!chooseThinking, Choosing!Becomes, Choosing!thinkingLevelsOf
<1>5. ASSUME NEW c \in Op, Choosing!HostApplies(c) PROVE LevelInv'
  <2> DEFINE to == op[c].to
             o == [op[c] EXCEPT !.stage = "applied"]
  <2>1. /\ op[c].stage = "sent" /\ op' = [op EXCEPT ![c] = o] /\ Choosing!Selects(to) /\ model' = model
        /\ applied' = IF op[c].kind = "cycle" THEN [from |-> session, to |-> to] ELSE applied
    BY <1>5 DEF Choosing!HostApplies, Choosing!Becomes
  <2>2. op[c] \in Commands /\ to \in Good /\ op[c] # Choosing!Idle
    BY <1>0, <2>1, GoodFacts DEF Proper
  <2>3. o \in Commands /\ o.stage = "applied" /\ o.to = to
    BY <2>2 DEF Commands, Stages
  <2>4. op[c].kind = "cycle" => OneLevel(session, to)
    BY <1>0, <2>1 DEF Proper
  <2>5. applied'.to = Choosing!Unread \/ OneLevel(applied'.from, applied'.to)
    <3>1. CASE op[c].kind = "cycle"
      <4>1. applied'.from = session /\ applied'.to = to
        BY <2>1, <3>1
      <4> QED BY <2>4, <3>1, <4>1
    <3>2. CASE op[c].kind # "cycle"
      BY <2>1, <3>2 DEF LevelInv
    <3> QED BY <3>1, <3>2
  <2> HIDE DEF o, to
  <2>6. /\ session' = to /\ session' \in Good /\ default' \in Good /\ model' \in Good /\ events' \in Seq(Good)
        /\ events' # << >> /\ events'[Len(events')] = session'
    BY <2>1, <2>2, Selected
  <2>7. op' \in [Op -> Commands] /\ op'[c] = o /\ \A d \in Op : d # c => op'[d] = Choosing!Idle
    BY <1>0, <2>1, <2>2, <2>3
  <2>8. \A d \in Op : Proper(op[d])'
    <3>1. Proper(op[c])'
      BY <2>2, <2>3, <2>6, <2>7 DEF Proper
    <3>2. ASSUME NEW d \in Op, d # c PROVE Proper(op[d])'
      <4>1. op'[d].stage = "idle" /\ op'[d] \in Commands
        BY <2>7, <3>2, GoodFacts
      <4> QED BY <4>1 DEF Proper
    <3> QED BY <3>1, <3>2
  <2>9. (applied.to = Choosing!Unread \/ OneLevel(applied.from, applied.to))'
    BY <2>5 DEF OneLevel, Choosing!Effective
  <2> QED BY <2>6, <2>7, <2>8, <2>9 DEF LevelInv, Proper, Commands, Stages
<1>6. ASSUME NEW c \in Op, Choosing!commitSelection(c) PROVE LevelInv'
  <2>1. /\ op[c].stage = "applied" /\ op' = [op EXCEPT ![c] = Choosing!Idle] /\ model' = op[c].to
        /\ UNCHANGED <<session, default, events, applied>>
    BY <1>6 DEF Choosing!commitSelection, Choosing!Becomes
  <2>2. op[c].to = session /\ op[c] # Choosing!Idle
    BY <1>0, <2>1, GoodFacts DEF Proper
  <2>3. \A d \in Op : op'[d] = Choosing!Idle
    BY <1>0, <2>1, <2>2
  <2>4. op' \in [Op -> Commands]
    BY <1>0, <2>1, IdleIsProper DEF Proper
  <2>5. \A d \in Op : op'[d].stage = "idle"
    BY <2>3, GoodFacts
  <2> QED BY <1>0, <2>1, <2>2, <2>3, <2>4, <2>5 DEF LevelInv, Commands, Stages, OneLevel, Choosing!Effective
<1>7. CASE Choosing!onEvent
  <2>1. /\ events # << >> /\ model' = Head(events) /\ events' = Tail(events) /\ UNCHANGED <<session, default, op, applied>>
    BY <1>7 DEF Choosing!onEvent
  <2>2. events \in Seq(Good) /\ events[Len(events)] = session
    BY <2>1 DEF LevelInv
  <2>3. model' \in Good /\ events' \in Seq(Good) /\ Len(events') = Len(events) - 1 /\ Len(events) \in Nat
        /\ \A i \in 1 .. Len(events') : events'[i] = events[i + 1]
    BY <2>1, <2>2, HeadTailProperties
  <2>4. IF events' = << >> THEN model' = session' ELSE events'[Len(events')] = session'
    <3>1. CASE events' = << >>
      <4>1. Len(events) = 1
        BY <2>3, <3>1, EmptySeq
      <4> QED BY <2>1, <2>2, <3>1, <4>1
    <3>2. CASE events' # << >>
      <4>1. Len(events') \in 1 .. Len(events') /\ Len(events') + 1 = Len(events)
        BY <2>3, <3>2, EmptySeq
      <4> QED BY <2>1, <2>2, <2>3, <3>2, <4>1
    <3> QED BY <3>1, <3>2
  <2>5. \A d \in Op : op[d].stage # "catalog"
    BY <1>0, <2>1 DEF Proper
  <2> QED BY <1>0, <2>1, <2>3, <2>4, <2>5 DEF LevelInv, OneLevel, Choosing!Effective
<1>8. ASSUME NEW s \in Choosing!Selection, Choosing!OtherClient(s) PROVE LevelInv'
  <2>1. /\ Choosing!Selects(s) /\ model' = model /\ op' = op /\ applied' = applied
        /\ \A d \in Op : op[d].stage \in {"idle", "panel"} /\ s \in Good
    BY <1>8 DEF Choosing!OtherClient, Good
  <2>2. s \in Good
    BY <1>8 DEF Choosing!OtherClient, Good
  <2>3. /\ session' = s /\ session' \in Good /\ default' \in Good /\ model' \in Good /\ events' \in Seq(Good)
        /\ events' # << >> /\ events'[Len(events')] = session'
    BY <2>1, <2>2, Selected
  <2> QED BY <1>0, <2>1, <2>3 DEF LevelInv, OneLevel, Choosing!Effective
<1>9. CASE UNCHANGED thinking
  BY <1>9 DEF thinking, LevelInv, OneLevel, Choosing!Effective
<1> QED BY <1>1, <1>2, <1>3, <1>4, <1>5, <1>6, <1>7, <1>8, <1>9 DEF Choosing!ThinkingNext

LEMMA LevelsShown == ASSUME "none" \notin Model, LevelInv PROVE Choosing!LevelShown /\ Choosing!EachPressIsOneLevel
<1>1. Choosing!LevelShown
  BY DEF LevelInv, Choosing!LevelShown, Choosing!Quiet, Choosing!thinkingLevelOf, Choosing!Effective
<1>2. Choosing!EachPressIsOneLevel
  BY DEF LevelInv, Choosing!EachPressIsOneLevel, OneLevel
<1> QED BY <1>1, <1>2

\* The prompt shows what is current: with no list under way a menu is of the token under
\* the cursor, a completion accepted then replaces that token and leaves the rest of the
\* line; with nothing under way the level in the footer is the one the Host runs at, and
\* each Shift-Tab goes one level on from it.  For every alphabet of tokens, every length
\* of the line and number of requests, every set of models with their levels, and any
\* number of commands; where the line changes under a list only by keys the menu sees,
\* and one command runs at a time (Completion, Thinking).
THEOREM PromptShowsTheCurrent ==
  ASSUME ~Careless, Blank \notin Slash \cup Path, Command \subseteq Slash, Levels, "none" \notin Model
  PROVE  Spec => []PromptIsCurrent
<1> DEFINE Inv == MenuInv /\ Completing!AcceptsAtTheCursor /\ LevelInv
<1>1. Init => Inv
  <2> SUFFICES ASSUME Init PROVE Inv
    OBVIOUS
  <2>1. MenuInv
    <3>1. Completing!CompletionInit
      BY DEF Init
    <3>2. draft = <<"">> /\ caret = 1 /\ requestId = 0 /\ listing = {} /\ menu = Completing!NoMenu
      BY <3>1, Zenon DEF Completing!CompletionInit
    <3>3. draft \in Seq(Completing!Token) /\ Len(draft) = 1
      BY <3>2, EmptyLine, Zenon
    <3>4. caret = 1 /\ requestId = 0 /\ listing = {} /\ menu = Completing!NoMenu
      BY <3>2, Zenon
    <3> QED BY <3>3, <3>4 DEF MenuInv
  <2>2. Completing!AcceptsAtTheCursor
    <3>1. Completing!CompletionInit
      BY DEF Init
    <3> QED BY <3>1, Zenon DEF Completing!CompletionInit, Completing!AcceptsAtTheCursor
  <2>3. LevelInv
    <3>1. Choosing!ThinkingInit
      BY DEF Init
    <3>2. session \in Good /\ default = session /\ model = session /\ events = << >>
          /\ op = [c \in Op |-> Choosing!Idle] /\ applied = [from |-> Choosing!Unread, to |-> Choosing!Unread]
      BY <3>1 DEF Choosing!ThinkingInit, Good
    <3>3. Choosing!Idle \in Commands /\ Choosing!Idle.stage = "idle"
      BY IdleIsProper, GoodFacts DEF Proper
    <3>4. events \in Seq(Good)
      BY <3>2
    <3> QED BY <3>2, <3>3, <3>4 DEF LevelInv, Commands, Stages
  <2> QED BY <2>1, <2>2, <2>3
<1>2. Inv /\ [Next]_vars => Inv'
  <2> SUFFICES ASSUME Inv, [Next]_vars PROVE Inv'
    OBVIOUS
  <2>1. [Completing!CompletionNext]_completion /\ [Choosing!ThinkingNext]_thinking
    BY PartSteps
  <2>2. MenuInv'
    <3>1. CASE Completing!CompletionNext
      BY <3>1, MenuHolds
    <3>2. CASE UNCHANGED completion
      BY <3>2 DEF completion, MenuInv, Awaited
    <3> QED BY <2>1, <3>1, <3>2
  <2>3. Completing!AcceptsAtTheCursor'
    BY <2>1, AcceptedHolds
  <2>4. LevelInv'
    BY <2>1, LevelHolds
  <2> QED BY <2>2, <2>3, <2>4
<1>3. Inv => PromptIsCurrent
  <2> SUFFICES ASSUME Inv PROVE PromptIsCurrent
    OBVIOUS
  <2>1. Completing!MenuIsForTheToken
    BY DEF MenuInv, Awaited, Completing!MenuIsForTheToken
  <2> QED BY <2>1, LevelsShown DEF PromptIsCurrent
<1> QED BY <1>1, <1>2, <1>3, PTL DEF Spec

-----------------------------------------------------------------------------
(* The rules between the columns.                                          *)

\* From 67 columns a conversation and a pane have their minimum.  From 86 to 89 a rail is
\* let in beside them, and the three do not fit.
Roomy == Widths \subseteq Int /\ \A c \in Widths : c >= 67 /\ c \notin 86 .. 89

Kinds == {"sides", "alone", "railSplit", "rail", "split", "plain"}
RuleFrame ==
    [columns : Widths, dragged : Nat, ratio : Nat \X (Nat \ {0}), rail : BOOLEAN, pane : BOOLEAN,
     conversation : BOOLEAN, tree : [kind : Kinds, rail : Int, asked : Int, pane : Int]]

\* Of an even number of halves, and half a one more, the whole ones.
LEMMA Halves == ASSUME NEW c \in Int, c > 0, NEW n \in Int PROVE (2 * c * n + c) \div (2 * c) = n
<1> DEFINE k == (2 * c * n + c) \div (2 * c)
<1>1. k \in Int /\ 2 * c * k <= 2 * c * n + c /\ 2 * c * n + c < 2 * c * k + 2 * c
  BY SMTT(30)
<1> HIDE DEF k
<1>2. CASE k < n
  <2>1. 2 * c * (k + 1) <= 2 * c * n
    BY <1>1, <1>2, SMTT(30)
  <2>2. 2 * c * (k + 1) = 2 * c * k + 2 * c
    BY <1>1, SMTT(30)
  <2> QED BY <1>1, <2>1, <2>2, SMTT(30)
<1>3. CASE k > n
  <2>1. 2 * c * (n + 1) <= 2 * c * k
    BY <1>1, <1>3, SMTT(30)
  <2>2. 2 * c * (n + 1) = 2 * c * n + 2 * c
    BY SMTT(30)
  <2> QED BY <1>1, <2>1, <2>2, SMTT(30)
<1> QED BY <1>1, <1>2, <1>3 DEF k

\* The rail's widths: between its minimum and what the other columns leave.
LEMMA RailWidths ==
  ASSUME NEW c \in Int, c >= 67, NEW p \in BOOLEAN, NEW d \in Nat
  PROVE  LET limit == Dragging!railWidthLimit(c, p)
             wants == Dragging!railWidthNow(c, p, d)
             gets == Dragging!railDrawnWidth(wants)
         IN  /\ limit \in Int /\ 18 <= limit /\ (p /\ c >= 90 => limit <= c - 72)
             /\ wants \in Int /\ 18 <= wants /\ wants <= limit + 1
             /\ gets = (IF wants = 18 THEN 18 ELSE wants - 1) /\ gets <= limit
             /\ 18 <= d /\ d <= limit + 1 => wants = d
<1> DEFINE limit == Dragging!railWidthLimit(c, p)
           for == Dragging!railWidthFor(c)
           wants == Dragging!railWidthNow(c, p, d)
<1>1. limit \in Int /\ 18 <= limit /\ (p /\ c >= 90 => limit <= c - 72)
  <2>1. CASE p
    BY <2>1 DEF Dragging!railWidthLimit, Dragging!Greatest, Dragging!Least, Dragging!chrome,
       Dragging!RAIL_MIN_SIZE, Dragging!RAIL_CONVERSATION_MIN, Dragging!SPLIT_MIN_SIZE
  <2>2. CASE ~p
    BY <2>2 DEF Dragging!railWidthLimit, Dragging!Greatest, Dragging!Least, Dragging!chrome,
       Dragging!RAIL_MIN_SIZE, Dragging!RAIL_CONVERSATION_MIN, Dragging!SPLIT_MIN_SIZE
  <2> QED BY <2>1, <2>2
<1>2. for \in Int
  BY DEF Dragging!railWidthFor, Dragging!Greatest, Dragging!Least, Dragging!RAIL_MIN_SIZE,
     Dragging!RAIL_MAX_SIZE
<1> HIDE DEF limit, for
<1>3. /\ wants \in Int /\ 18 <= wants /\ wants <= limit + 1
      /\ 18 <= d /\ d <= limit + 1 => wants = d
  BY <1>1, <1>2 DEF wants, for, limit, Dragging!railWidthNow, Dragging!Greatest, Dragging!Least,
     Dragging!RAIL_MIN_SIZE
<1> HIDE DEF wants
<1> QED BY <1>1, <1>3 DEF limit, wants, Dragging!railDrawnWidth, Dragging!Greatest,
     Dragging!RAIL_MIN_SIZE

\* The width asked of the pane.
LEMMA PaneAsked ==
  ASSUME Roomy, NEW g \in RuleFrame
  PROVE  LET s == (2 * g.columns * g.ratio[1] + g.ratio[2]) \div (2 * g.ratio[2])
             p == Dragging!paneColumns(g)
         IN  /\ s \in Int /\ p \in Int /\ p >= 32
             /\ p = (IF s < 32 THEN 32 ELSE IF s > g.columns - 33 THEN g.columns - 33 ELSE s)
<1> DEFINE s == (2 * g.columns * g.ratio[1] + g.ratio[2]) \div (2 * g.ratio[2])
<1>1. g.columns \in Int /\ g.columns >= 67 /\ g.ratio[1] \in Nat /\ g.ratio[2] \in Nat /\ g.ratio[2] > 0
  <2>1. g.columns \in Widths /\ g.ratio \in Nat \X (Nat \ {0})
    BY DEF RuleFrame
  <2>2. g.ratio[1] \in Nat /\ g.ratio[2] \in Nat \ {0}
    BY <2>1
  <2>3. g.columns \in Int /\ g.columns >= 67
    BY <2>1 DEF Roomy
  <2>4. \A n \in Nat \ {0} : n \in Nat /\ n > 0
    OBVIOUS
  <2> QED BY <2>2, <2>3, <2>4
<1>2. s \in Int
  <2> DEFINE a == 2 * g.columns * g.ratio[1] + g.ratio[2]
             b == 2 * g.ratio[2]
  <2>1. a \in Int /\ b \in Int /\ b > 0
    BY <1>1
  <2> HIDE DEF a, b
  <2>2. a \div b \in Int
    BY <2>1
  <2> QED BY <2>2 DEF a, b
<1>3. Dragging!paneColumns(g) = Dragging!Greatest(32, Dragging!Least(g.columns - 32 - 1, s))
  BY DEF Dragging!paneColumns, Dragging!SPLIT_MIN_SIZE
<1> HIDE DEF s
<1> QED BY <1>1, <1>2, <1>3 DEF s, Dragging!Greatest, Dragging!Least

\* The tree that a rebuild makes.
LEMMA BuiltIs ==
  ASSUME Roomy, NEW g \in RuleFrame
  PROVE  LET t == Dragging!Built(g)
             wants == Dragging!railWidthNow(g.columns, g.pane, g.dragged)
         IN  /\ t \in [kind : Kinds, rail : Int, asked : Int, pane : Int]
             /\ t.kind \in {"split", "railSplit", "sides"} => g.pane
             /\ t.kind \in {"rail", "railSplit"} => g.conversation /\ g.rail
             /\ t.kind \in {"rail", "plain"} => ~g.pane
             /\ t.kind = "sides" => ~g.conversation
             /\ t.kind = "railSplit" => g.columns >= 90
             /\ t.rail = Dragging!railDrawnWidth(wants)
             /\ t.asked = Dragging!paneColumns(g)
             /\ t.pane = Dragging!Greatest(32, Dragging!paneColumns(g) - 1)
<1> DEFINE t == Dragging!Built(g)
           wants == Dragging!railWidthNow(g.columns, g.pane, g.dragged)
           fits == Dragging!railFits(g.columns, g.pane, wants)
           on == g.rail /\ fits
           talks == g.conversation \/ (~on /\ ~g.pane)
           kind == IF ~talks THEN (IF on /\ g.pane THEN "sides" ELSE "alone")
                   ELSE IF on /\ g.pane THEN "railSplit"
                   ELSE IF on THEN "rail"
                   ELSE IF g.pane THEN "split" ELSE "plain"
<1>1. g.columns \in Int /\ g.columns >= 67 /\ g.pane \in BOOLEAN /\ g.dragged \in Nat
      /\ g.rail \in BOOLEAN /\ g.conversation \in BOOLEAN /\ g.columns \notin 86 .. 89
  BY DEF Roomy, RuleFrame
<1>2. wants \in Int /\ 18 <= wants /\ Dragging!railDrawnWidth(wants) \in Int
  <2> DEFINE limit == Dragging!railWidthLimit(g.columns, g.pane)
             gets == Dragging!railDrawnWidth(wants)
  <2>1. /\ limit \in Int /\ 18 <= limit
        /\ wants \in Int /\ 18 <= wants /\ wants <= limit + 1
        /\ gets = (IF wants = 18 THEN 18 ELSE wants - 1) /\ gets <= limit
    <3>1. g.columns \in Int /\ g.columns >= 67 /\ g.pane \in BOOLEAN /\ g.dragged \in Nat
      BY <1>1
    <3> HIDE DEF t, fits, on, talks, kind
    <3> QED BY <3>1, RailWidths
  <2> HIDE DEF wants, gets
  <2> QED BY <2>1 DEF gets
<1>3. Dragging!paneColumns(g) \in Int /\ Dragging!Greatest(32, Dragging!paneColumns(g) - 1) \in Int
  BY PaneAsked DEF Dragging!Greatest
<1>4. t = [kind |-> kind, rail |-> Dragging!railDrawnWidth(wants), asked |-> Dragging!paneColumns(g),
           pane |-> Dragging!Greatest(32, Dragging!paneColumns(g) - 1)]
  BY DEF Dragging!Built, Dragging!SPLIT_MIN_SIZE
<1>5. fits \in BOOLEAN /\ (fits /\ g.pane => g.columns >= 90)
  <2> HIDE DEF wants
  <2>1. fits /\ g.pane => g.columns >= wants + 68
    BY <1>1, <1>2 DEF Dragging!railFits, Dragging!RAIL_CONVERSATION_MIN, Dragging!SPLIT_MIN_SIZE, Dragging!SPLIT_GAP
  <2>2. fits \in BOOLEAN
    BY DEF Dragging!railFits
  <2> HIDE DEF fits
  <2> QED BY <1>1, <1>2, <2>1, <2>2
<1> HIDE DEF t, wants, fits
<1>6. /\ kind \in Kinds
      /\ kind \in {"split", "railSplit", "sides"} => g.pane
      /\ kind \in {"rail", "railSplit"} => g.conversation /\ g.rail
      /\ kind \in {"rail", "plain"} => ~g.pane
      /\ kind = "sides" => ~g.conversation
      /\ kind = "railSplit" => g.columns >= 90
  BY <1>1, <1>5 DEF Kinds
<1> HIDE DEF kind
<1> QED BY <1>2, <1>3, <1>4, <1>6 DEF t, wants

\* What a rebuild reads of a frame.
Reads(g) == <<g.columns, g.dragged, g.ratio, g.rail, g.pane, g.conversation>>
LEMMA SameBuilt ==
  ASSUME NEW g, NEW h, Reads(g) = Reads(h)
  PROVE  /\ Dragging!Built(g) = Dragging!Built(h) /\ Dragging!paneColumns(g) = Dragging!paneColumns(h)
<1>1. /\ g.columns = h.columns /\ g.dragged = h.dragged /\ g.ratio = h.ratio /\ g.rail = h.rail
      /\ g.pane = h.pane /\ g.conversation = h.conversation
  BY DEF Reads
<1> QED BY <1>1 DEF Dragging!Built, Dragging!paneColumns

\* A frame whose tree is the one that a rebuild would make, up to the width of the pane
\* where there is no conversation and no rule.
Straight(g) ==
    /\ g \in RuleFrame
    /\ g.tree.kind = Dragging!Built(g).kind
    /\ g.tree.kind \in {"rail", "split", "railSplit"} => g.tree = Dragging!Built(g)

LEMMA Rebuilds ==
  ASSUME Roomy, NEW g \in RuleFrame
  PROVE  /\ Straight(Dragging!rebuilt(g)) /\ Reads(Dragging!rebuilt(g)) = Reads(g)
         /\ Dragging!rebuilt(g).tree = Dragging!Built(g)
<1> DEFINE h == Dragging!rebuilt(g)
<1>1. h \in RuleFrame /\ Reads(h) = Reads(g) /\ h.tree = Dragging!Built(g)
  BY BuiltIs DEF Dragging!rebuilt, RuleFrame, Reads
<1> HIDE DEF h
<1>2. Dragging!Built(h) = Dragging!Built(g)
  BY <1>1, SameBuilt
<1> QED BY <1>1, <1>2 DEF Straight, h

\* The share that a drag to column x asks for, in cells.
Cells(x, c) ==
    IF 4 * (c - x - 1) < c THEN (c + 2) \div 4
    ELSE IF 4 * (c - x - 1) > 3 * c THEN (3 * c + 2) \div 4
    ELSE c - x - 1

LEMMA Shared ==
  ASSUME NEW c \in Int, c >= 67, NEW x \in Int
  PROVE  LET q == Dragging!Share(x, c)
         IN  /\ q \in Nat \X (Nat \ {0})
             /\ (2 * c * q[1] + q[2]) \div (2 * q[2]) = Cells(x, c)
<1> DEFINE z == c - x - 1
<1>1. CASE 4 * z < c
  <2>1. Dragging!Share(x, c) = <<1, 4>> /\ Cells(x, c) = (c + 2) \div 4
    BY <1>1 DEF Dragging!Share, Cells
  <2>2. (2 * c * 1 + 4) \div (2 * 4) = (c + 2) \div 4
    OBVIOUS
  <2> QED BY <2>1, <2>2
<1>2. CASE 4 * z > 3 * c
  <2>1. Dragging!Share(x, c) = <<3, 4>> /\ Cells(x, c) = (3 * c + 2) \div 4
    BY <1>2 DEF Dragging!Share, Cells
  <2>2. (2 * c * 3 + 4) \div (2 * 4) = (3 * c + 2) \div 4
    OBVIOUS
  <2> QED BY <2>1, <2>2
<1>3. CASE ~(4 * z < c) /\ ~(4 * z > 3 * c)
  <2>1. Dragging!Share(x, c) = <<z, c>> /\ Cells(x, c) = z
    BY <1>3 DEF Dragging!Share, Cells
  <2>2. z \in Nat /\ c \in Nat \ {0}
    BY <1>3
  <2> HIDE DEF z
  <2>3. (2 * c * z + c) \div (2 * c) = z
    BY <2>2, Halves
  <2> QED BY <2>1, <2>2, <2>3
<1> QED BY <1>1, <1>2, <1>3

\* The pane drawn for such a share ends where Within says.
LEMMA PaneCells ==
  ASSUME NEW c \in Int, c >= 67, NEW x \in Int, NEW left \in Int, left >= 32,
         NEW p, p = (IF Cells(x, c) < 32 THEN 32 ELSE IF Cells(x, c) > c - 33 THEN c - 33 ELSE Cells(x, c)),
         NEW pane, pane = Dragging!Greatest(32, Dragging!Least(Dragging!Greatest(32, p - 1), left))
  PROVE  LET widest == Dragging!Least(left, Dragging!Least(c - 32 - 1, (3 * c + 2) \div 4) - 1)
             narrowest == Dragging!Greatest(32, (c + 2) \div 4 - 1)
         IN  c - pane - 2 =
               Dragging!Greatest(c - widest - 2, Dragging!Least(c - narrowest - 2, x))
<1> DEFINE most == (3 * c + 2) \div 4
           least == (c + 2) \div 4
           n == Cells(x, c)
<1>1. /\ most \in Int /\ least \in Int /\ n \in Int
      /\ 4 * most <= 3 * c + 2 /\ 4 * most > 3 * c - 2 /\ 4 * least <= c + 2 /\ 4 * least > c - 2
      /\ n = (IF 4 * (c - x - 1) < c THEN least ELSE IF 4 * (c - x - 1) > 3 * c THEN most ELSE c - x - 1)
  BY DEF Cells
<1> HIDE DEF most, least, n
<1>2. p \in Int /\ p = (IF n < 32 THEN 32 ELSE IF n > c - 33 THEN c - 33 ELSE n)
  BY <1>1 DEF n
<1>3. pane \in Int /\ pane = (IF p - 1 < 32 THEN 32 ELSE IF p - 1 > left THEN left ELSE p - 1)
  BY <1>2 DEF Dragging!Greatest, Dragging!Least
<1> DEFINE widest == Dragging!Least(left, Dragging!Least(c - 32 - 1, most) - 1)
           narrowest == Dragging!Greatest(32, least - 1)
<1>4. /\ widest \in Int /\ narrowest \in Int
      /\ widest = (IF left < widest THEN left ELSE widest) /\ widest <= left
      /\ widest <= c - 34 /\ widest <= most - 1 /\ widest \in {left, c - 34, most - 1}
      /\ narrowest = (IF least - 1 > 32 THEN least - 1 ELSE 32)
  BY <1>1 DEF Dragging!Greatest, Dragging!Least
<1> HIDE DEF widest, narrowest
<1>5. c - pane - 2 = Dragging!Greatest(c - widest - 2, Dragging!Least(c - narrowest - 2, x))
  <2>1. CASE 4 * (c - x - 1) < c
    BY <1>1, <1>2, <1>3, <1>4, <2>1, SMTT(60) DEF Dragging!Greatest, Dragging!Least
  <2>2. CASE 4 * (c - x - 1) > 3 * c
    BY <1>1, <1>2, <1>3, <1>4, <2>2, SMTT(60) DEF Dragging!Greatest, Dragging!Least
  <2>3. CASE ~(4 * (c - x - 1) < c) /\ ~(4 * (c - x - 1) > 3 * c)
    BY <1>1, <1>2, <1>3, <1>4, <2>3, SMTT(60) DEF Dragging!Greatest, Dragging!Least
  <2> QED BY <2>1, <2>2, <2>3
<1> QED BY <1>5 DEF widest, narrowest, most, least

\* The pane is put anew into the tree there is.
LEMMA PaneSet ==
  ASSUME Roomy, NEW g \in RuleFrame
  PROVE  LET h == Dragging!setPaneWidth(g)
         IN  /\ h \in RuleFrame /\ Reads(h) = Reads(g)
             /\ h.tree.kind = g.tree.kind /\ h.tree.rail = g.tree.rail
             /\ g.tree.kind \in {"split", "railSplit"} =>
                  /\ h.tree.asked = Dragging!paneColumns(g)
                  /\ h.tree.pane = IF g.tree.asked = Dragging!paneColumns(g) THEN g.tree.pane
                                   ELSE Dragging!Built(g).pane
             /\ g.tree.kind \notin {"split", "railSplit", "sides"} => h = g
<1> DEFINE p == Dragging!paneColumns(g)
           b == Dragging!Built(g).pane
           width == IF g.tree.kind = "sides" THEN p ELSE b
           h == [g EXCEPT !.tree.asked = p, !.tree.pane = width]
<1>1. p \in Int /\ b \in Int
  BY PaneAsked, BuiltIs
<1>2. Dragging!setPaneWidth(g) =
        IF g.tree.kind \notin {"split", "railSplit", "sides"} \/ g.tree.asked = p THEN g ELSE h
  BY DEF Dragging!setPaneWidth
<1> HIDE DEF p, b
<1>3. width \in Int
  BY <1>1
<1>4. g.tree.kind # "sides" => width = b
  OBVIOUS
<1> HIDE DEF width
<1>5. /\ h \in RuleFrame /\ h.columns = g.columns /\ h.dragged = g.dragged /\ h.ratio = g.ratio
      /\ h.rail = g.rail /\ h.pane = g.pane /\ h.conversation = g.conversation
      /\ h.tree.kind = g.tree.kind /\ h.tree.rail = g.tree.rail
      /\ h.tree.asked = p /\ h.tree.pane = width
  BY <1>1, <1>3 DEF RuleFrame
<1> HIDE DEF h
<1> QED BY <1>2, <1>4, <1>5 DEF p, b, Reads

\* The room of a pane beside a conversation.
LEMMA RoomIs ==
  ASSUME Roomy, NEW g \in RuleFrame, g.tree = Dragging!Built(g), g.tree.kind \in {"split", "railSplit"}
  PROVE  Dragging!room(g) \in Int /\ Dragging!room(g) >= 32
<1> DEFINE wants == Dragging!railWidthNow(g.columns, g.pane, g.dragged)
           gets == Dragging!railDrawnWidth(wants)
<1>1. g.columns \in Int /\ g.columns >= 67 /\ g.dragged \in Nat /\ g.pane \in BOOLEAN
  BY DEF Roomy, RuleFrame
<1>2. g.pane /\ g.tree.rail = gets
  BY BuiltIs
<1>3. gets \in Int /\ (g.columns >= 90 => gets <= g.columns - 72)
  <2> DEFINE limit == Dragging!railWidthLimit(g.columns, g.pane)
  <2>1. /\ limit \in Int /\ (g.pane /\ g.columns >= 90 => limit <= g.columns - 72)
        /\ wants \in Int /\ gets = (IF wants = 18 THEN 18 ELSE wants - 1) /\ gets <= limit
    BY <1>1, RailWidths
  <2> HIDE DEF limit, gets, wants
  <2> QED BY <1>1, <1>2, <2>1
<1> HIDE DEF gets
<1>4. CASE g.tree.kind = "split"
  BY <1>1, <1>4 DEF Dragging!room, Dragging!SPLIT_MIN_SIZE
<1>5. CASE g.tree.kind = "railSplit"
  <2>1. g.columns >= 90
    BY <1>5, BuiltIs
  <2> QED BY <1>1, <1>2, <1>3, <1>5, <2>1 DEF Dragging!room, Dragging!RAIL_CONVERSATION_MIN
<1> QED BY <1>4, <1>5

\* The pane's rule lands where the pointer is.
LEMMA DragsPane ==
  ASSUME Roomy, NEW g, Straight(g), g.tree.kind \in {"split", "railSplit", "sides", "alone"}, NEW x \in Int
  PROVE  LET h == Dragging!dragDividerTo(g, x)
         IN  /\ Straight(h)
             /\ g.tree.kind \in {"split", "railSplit"} =>
                  Dragging!At(h, "pane") = Dragging!Within(h, "pane", x)
<1> DEFINE q == Dragging!Share(x, g.columns)
           k == [g EXCEPT !.ratio = q]
           h == Dragging!setPaneWidth(k)
<1>1. g \in RuleFrame /\ g.columns \in Int /\ g.columns >= 67
  BY DEF Straight, Roomy, RuleFrame
<1>2. q \in Nat \X (Nat \ {0}) /\ (2 * g.columns * q[1] + q[2]) \div (2 * q[2]) = Cells(x, g.columns)
  BY <1>1, Shared
<1> HIDE DEF q
<1>3. /\ k \in RuleFrame /\ k.tree = g.tree /\ k.columns = g.columns /\ k.ratio = q
      /\ k.dragged = g.dragged /\ k.rail = g.rail /\ k.pane = g.pane /\ k.conversation = g.conversation
  BY <1>1, <1>2 DEF RuleFrame
<1> HIDE DEF k
<1>4. /\ h \in RuleFrame /\ Reads(h) = Reads(k)
      /\ h.tree.kind = k.tree.kind /\ h.tree.rail = k.tree.rail
      /\ k.tree.kind \in {"split", "railSplit"} =>
           /\ h.tree.asked = Dragging!paneColumns(k)
           /\ h.tree.pane = IF k.tree.asked = Dragging!paneColumns(k) THEN k.tree.pane
                            ELSE Dragging!Built(k).pane
  BY <1>3, PaneSet
<1>5. Dragging!dragDividerTo(g, x) = h
  BY DEF Dragging!dragDividerTo, k, q
<1> HIDE DEF h
<1>6. Dragging!Built(h) = Dragging!Built(k) /\ Dragging!paneColumns(h) = Dragging!paneColumns(k)
  BY <1>4, SameBuilt
<1>7. Dragging!Built(k).kind = Dragging!Built(g).kind /\ Dragging!Built(k).rail = Dragging!Built(g).rail
  BY <1>3 DEF Dragging!Built
<1>8. h.tree.kind = Dragging!Built(h).kind
  BY <1>3, <1>4, <1>6, <1>7 DEF Straight
<1>9. ASSUME g.tree.kind \in {"split", "railSplit"} PROVE h.tree = Dragging!Built(h)
  <2>1. /\ g.tree = Dragging!Built(g)
        /\ g.tree.pane = Dragging!Greatest(32, g.tree.asked - 1)
    BY <1>1, <1>9, BuiltIs DEF Straight
  <2>2. /\ Dragging!Built(k) \in [kind : Kinds, rail : Int, asked : Int, pane : Int]
        /\ Dragging!Built(k).asked = Dragging!paneColumns(k)
        /\ Dragging!Built(k).pane = Dragging!Greatest(32, Dragging!paneColumns(k) - 1)
    BY <1>3, BuiltIs
  <2>3. h.tree \in [kind : Kinds, rail : Int, asked : Int, pane : Int]
    BY <1>4 DEF RuleFrame
  <2>4. h.tree.pane = Dragging!Built(k).pane /\ h.tree.asked = Dragging!Built(k).asked
    BY <1>3, <1>4, <1>9, <2>1, <2>2
  <2>5. h.tree.kind = Dragging!Built(k).kind /\ h.tree.rail = Dragging!Built(k).rail
    BY <1>3, <1>4, <1>6, <1>7, <1>8, <2>1
  <2> QED BY <1>6, <2>2, <2>3, <2>4, <2>5
<1>10. Straight(h)
  BY <1>3, <1>4, <1>8, <1>9 DEF Straight
<1>11. ASSUME g.tree.kind \in {"split", "railSplit"}
       PROVE  Dragging!At(h, "pane") = Dragging!Within(h, "pane", x)
  <2> DEFINE p == Dragging!paneColumns(h)
             c == h.columns
             left == Dragging!room(h)
             pane == Dragging!paneDrawn(h)
             s == (2 * h.columns * h.ratio[1] + h.ratio[2]) \div (2 * h.ratio[2])
  <2>1. h.columns = g.columns /\ h.ratio = q
    BY <1>3, <1>4 DEF Reads
  <2>2. s = Cells(x, c)
    BY <1>2, <2>1
  <2>3. p = (IF s < 32 THEN 32 ELSE IF s > c - 33 THEN c - 33 ELSE s)
    BY <1>4, PaneAsked
  <2>4. left \in Int /\ left >= 32
    BY <1>3, <1>4, <1>9, <1>11, RoomIs
  <2>5. h.tree.pane = Dragging!Greatest(32, p - 1)
    BY <1>4, <1>9, <1>11, BuiltIs
  <2>6. pane = Dragging!Greatest(32, Dragging!Least(Dragging!Greatest(32, p - 1), left))
    BY <2>5 DEF Dragging!paneDrawn, Dragging!SPLIT_MIN_SIZE
  <2>7. c \in Int /\ c >= 67
    BY <1>1, <2>1
  <2> HIDE DEF p, c, left, pane, s
  <2>8. c - pane - 2 =
          Dragging!Greatest(c - Dragging!Least(left, Dragging!Least(c - 32 - 1, (3 * c + 2) \div 4) - 1) - 2,
                            Dragging!Least(c - Dragging!Greatest(32, (c + 2) \div 4 - 1) - 2, x))
    BY <2>2, <2>3, <2>4, <2>6, <2>7, PaneCells
  <2> QED BY <2>8 DEF p, c, left, pane, Dragging!At, Dragging!Within, Dragging!SPLIT_MIN_SIZE
<1> QED BY <1>5, <1>10, <1>11

\* So does the rail's, beside a conversation.
LEMMA DragsRail ==
  ASSUME Roomy, NEW g, Straight(g), NEW delta \in Int
  PROVE  LET h == Dragging!moveRailRule(g, delta)
         IN  /\ Straight(h)
             /\ g.tree.kind \in {"rail", "railSplit"} =>
                  Dragging!At(h, "rail") = Dragging!Within(h, "rail", Dragging!railDividerColumn(g) + delta)
<1> DEFINE c == g.columns
           limit == Dragging!railWidthLimit(c, g.pane)
           wants == Dragging!railWidthNow(c, g.pane, g.dragged)
           gets == Dragging!railDrawnWidth(wants)
           edge == Dragging!railDividerColumn(g)
           goes == Dragging!Least(limit + 1, Dragging!Greatest(18, edge + delta))
           k == [g EXCEPT !.dragged = goes]
           h == Dragging!moveRailRule(g, delta)
<1>1. g \in RuleFrame /\ c \in Int /\ c >= 67 /\ g.dragged \in Nat /\ g.pane \in BOOLEAN
  BY DEF Straight, Roomy, RuleFrame
<1>2. /\ limit \in Int /\ 18 <= limit
      /\ wants \in Int /\ 18 <= wants /\ wants <= limit + 1
      /\ gets = (IF wants = 18 THEN 18 ELSE wants - 1) /\ gets <= limit
  BY <1>1, RailWidths
<1>3. edge \in Int /\ (g.tree.kind \notin {"sides", "alone"} => edge = gets + 1)
  <2>1. Dragging!paneColumns(g) \in Int
    BY <1>1, PaneAsked
  <2>2. gets \in Int
    BY <1>2
  <2> HIDE DEF gets, c
  <2>3. edge = IF g.tree.kind \in {"sides", "alone"} THEN c - Dragging!paneColumns(g) - 1 ELSE gets + 1
    BY DEF Dragging!railDividerColumn, gets, wants, c
  <2> QED BY <1>1, <2>1, <2>2, <2>3
<1>4. h = IF delta = 0 THEN g
          ELSE IF g.tree.kind \in {"sides", "alone"}
          THEN IF g.pane THEN Dragging!dragDividerTo(g, c - (Dragging!paneColumns(g) - delta) - 1) ELSE g
          ELSE IF goes = wants THEN g
          ELSE Dragging!rebuilt(k)
  BY DEF Dragging!moveRailRule, Dragging!RAIL_MIN_SIZE
<1> HIDE DEF h, edge, gets, wants, limit
<1>5. /\ goes \in Nat /\ 18 <= goes /\ goes <= limit + 1
      /\ goes = (IF edge + delta < 18 THEN 18 ELSE IF edge + delta > limit + 1 THEN limit + 1 ELSE edge + delta)
  BY <1>2, <1>3 DEF Dragging!Least, Dragging!Greatest
<1> HIDE DEF goes
<1>6. /\ k \in RuleFrame /\ k.columns = c /\ k.pane = g.pane /\ k.dragged = goes
      /\ k.conversation = g.conversation
  BY <1>1, <1>5 DEF RuleFrame
<1> HIDE DEF k
<1>7. Straight(h)
  <2>1. Straight(Dragging!rebuilt(k))
    BY <1>6, Rebuilds
  <2>2. ASSUME g.tree.kind \in {"sides", "alone"}
        PROVE  Straight(Dragging!dragDividerTo(g, c - (Dragging!paneColumns(g) - delta) - 1))
    <3>1. c - (Dragging!paneColumns(g) - delta) - 1 \in Int
      BY <1>1, PaneAsked
    <3> HIDE DEF c
    <3> QED BY <2>2, <3>1, DragsPane
  <2> QED BY <1>4, <2>1, <2>2
<1>8. ASSUME g.tree.kind \in {"rail", "railSplit"}
      PROVE  Dragging!At(h, "rail") = Dragging!Within(h, "rail", edge + delta)
  <2>1. /\ h.columns = c /\ h.pane = g.pane /\ h.tree.kind # "sides"
        /\ h.tree.rail = IF delta = 0 \/ goes = wants THEN gets ELSE IF goes = 18 THEN 18 ELSE goes - 1
    <3>1. g.tree.rail = gets /\ g.conversation
      BY <1>1, <1>8, BuiltIs DEF Straight, gets, wants
    <3>2. CASE delta = 0 \/ goes = wants
      BY <1>4, <1>8, <3>1, <3>2
    <3>3. CASE ~(delta = 0 \/ goes = wants)
      <4>1. h = Dragging!rebuilt(k)
        BY <1>4, <1>8, <3>3
      <4>2. h.tree = Dragging!Built(k) /\ Reads(h) = Reads(k)
        BY <1>6, <4>1, Rebuilds
      <4>3. Dragging!Built(k).kind # "sides"
        BY <1>6, <3>1, BuiltIs
      <4>4. Dragging!Built(k).rail = IF goes = 18 THEN 18 ELSE goes - 1
        <5>1. Dragging!Built(k).rail = Dragging!railDrawnWidth(Dragging!railWidthNow(c, g.pane, goes))
          BY <1>6, BuiltIs
        <5>2. Dragging!railWidthNow(c, g.pane, goes) = goes
          BY <1>1, <1>5, RailWidths DEF limit
        <5> QED BY <1>5, <5>1, <5>2 DEF Dragging!railDrawnWidth, Dragging!Greatest, Dragging!RAIL_MIN_SIZE
      <4> QED BY <1>6, <3>3, <4>2, <4>3, <4>4 DEF Reads
    <3> QED BY <3>2, <3>3
  <2>2. Dragging!At(h, "rail") = h.tree.rail + 1
    BY <2>1 DEF Dragging!At
  <2>3. Dragging!Within(h, "rail", edge + delta) = Dragging!Greatest(19, Dragging!Least(limit + 1, edge + delta))
    BY <2>1 DEF Dragging!Within, Dragging!RAIL_MIN_SIZE, limit
  <2>4. h.tree.rail + 1 = Dragging!Greatest(19, Dragging!Least(limit + 1, edge + delta))
    BY <1>2, <1>3, <1>5, <1>8, <2>1 DEF Dragging!Greatest, Dragging!Least
  <2> QED BY <2>2, <2>3, <2>4
<1> QED BY <1>7, <1>8 DEF h, edge

\* A drag or a key leaves a straight frame, and its rule where it was taken.
LEMMA Dragged ==
  ASSUME Roomy, NEW g, Straight(g), NEW r \in {"rail", "pane"}, NEW x \in Int,
         r = "pane" => g.tree.kind \in {"split", "railSplit"}
  PROVE  LET h == Dragging!dragTo(g, r, x)
         IN  /\ Straight(h)
             /\ g.tree.kind \notin {"sides", "alone"} /\ r \in Dragging!Drawn(g) =>
                  Dragging!At(h, r) = Dragging!Within(h, r, x)
<1>1. CASE r = "pane"
  BY <1>1, DragsPane DEF Dragging!dragTo
<1>2. CASE r = "rail"
  <2> DEFINE edge == Dragging!railDividerColumn(g)
  <2>1. edge \in Int
    <3>1. g \in RuleFrame /\ g.columns \in Int /\ g.columns >= 67 /\ g.dragged \in Nat /\ g.pane \in BOOLEAN
      BY DEF Straight, Roomy, RuleFrame
    <3>2. Dragging!railDrawnWidth(Dragging!railWidthNow(g.columns, g.pane, g.dragged)) \in Int
      BY <3>1, RailWidths
    <3>3. Dragging!paneColumns(g) \in Int
      BY <3>1, PaneAsked
    <3> QED BY <3>1, <3>2, <3>3 DEF Dragging!railDividerColumn
  <2>2. Dragging!dragTo(g, r, x) = Dragging!moveRailRule(g, x - edge)
    BY <1>2 DEF Dragging!dragTo
  <2> HIDE DEF edge
  <2>3. x - edge \in Int /\ edge + (x - edge) = x
    BY <2>1
  <2>4. r \in Dragging!Drawn(g) /\ g.tree.kind # "sides" => g.tree.kind \in {"rail", "railSplit"}
    BY <1>2 DEF Dragging!Drawn, Dragging!Rule
  <2>5. /\ Straight(Dragging!moveRailRule(g, x - edge))
        /\ g.tree.kind \in {"rail", "railSplit"} =>
             Dragging!At(Dragging!moveRailRule(g, x - edge), "rail")
               = Dragging!Within(Dragging!moveRailRule(g, x - edge), "rail", edge + (x - edge))
    BY <2>3, DragsRail DEF edge
  <2> QED BY <1>2, <2>2, <2>3, <2>4, <2>5
<1> QED BY <1>1, <1>2
\* The kind of a frame without side columns.
LEMMA PlainIs == ASSUME NEW g, ~g.rail, ~g.pane PROVE Dragging!Built(g).kind = "plain"
BY DEF Dragging!Built

\* The frame is straight, and where the terminal mislabels a resting pointer no rule
\* believes in a button that is up.
DividerInv ==
    /\ Straight(columns)
    /\ pressed \in [Dragging!Rule -> BOOLEAN] /\ held \in Dragging!Rule \cup {"none"}
    /\ flaw \in Flaws
    /\ flaw = "mislabels" => \A r \in Dragging!Rule : pressed[r] => held = r

\* A key moves a rule that is drawn, or the rail's; where to is a column.
LEMMA KeyIs ==
  ASSUME Roomy, Straight(columns), NEW d \in {-1, 1}
  PROVE  /\ Dragging!keyRule(columns) \in {"rail", "pane"}
         /\ Dragging!keyRule(columns) = "pane" => columns.tree.kind \in {"split", "railSplit"}
         /\ Dragging!keyColumn(columns, d) \in Int
<1> DEFINE edge == Dragging!railDividerColumn(columns)
           p == Dragging!paneColumns(columns)
<1>1. edge \in Int /\ p \in Int
  <2>1. /\ columns \in RuleFrame /\ columns.columns \in Int /\ columns.columns >= 67
        /\ columns.dragged \in Nat /\ columns.pane \in BOOLEAN
    BY DEF Straight, Roomy, RuleFrame
  <2>2. Dragging!railDrawnWidth(Dragging!railWidthNow(columns.columns, columns.pane, columns.dragged)) \in Int
    BY <2>1, RailWidths
  <2>3. p \in Int
    BY <2>1, PaneAsked
  <2> QED BY <2>1, <2>2, <2>3 DEF Dragging!railDividerColumn
<1>2. columns.columns \in Int
  BY DEF Straight, Roomy, RuleFrame
<1>3. Dragging!keyColumn(columns, d)
        = d * 2 + (IF Dragging!keyRule(columns) = "pane" THEN columns.columns - p - 1 ELSE edge)
  BY DEF Dragging!keyColumn, Dragging!DIVIDER_STEP
<1> HIDE DEF edge, p
<1>4. Dragging!keyColumn(columns, d) \in Int
  <2>1. d \in Int
    OBVIOUS
  <2> QED BY <2>1, <1>1, <1>2, <1>3
<1> QED BY <1>4 DEF Dragging!keyRule, Dragging!Drawn, Dragging!Rule

\* What a step makes of the frame and of the gesture.
LEMMA DividerHolds ==
  ASSUME Roomy, Points \subseteq Int, "both" \notin Flaws,
         DividerInv, [Dragging!DividerNext]_dividers
  PROVE  /\ DividerInv'
         /\ [moved'.by # "none" /\ moved'.rule \in Dragging!Drawn(columns) /\ Dragging!Talking(columns)
             => Dragging!At(columns', moved'.rule) = Dragging!Within(columns', moved'.rule, moved'.to)]_dividers
         /\ [moved'.by = "pointer" => held # "none"]_dividers
<1> DEFINE Lands == moved'.by # "none" /\ moved'.rule \in Dragging!Drawn(columns) /\ Dragging!Talking(columns)
                      => Dragging!At(columns', moved'.rule) = Dragging!Within(columns', moved'.rule, moved'.to)
           Held == moved'.by = "pointer" => held # "none"
           Sound == DividerInv' /\ Lands /\ Held
<1>1. ASSUME UNCHANGED flaw, moved' = Dragging!Still, Straight(columns'),
             pressed' \in [Dragging!Rule -> BOOLEAN], held' \in Dragging!Rule \cup {"none"},
             flaw = "mislabels" => \A r \in Dragging!Rule : pressed'[r] => held' = r
      PROVE  Sound
  BY <1>1 DEF DividerInv, Dragging!Still
<1>2. ASSUME UNCHANGED flaw, NEW r \in Dragging!Rule, Dragging!Press(r) PROVE Sound
  BY <1>1, <1>2 DEF DividerInv, Dragging!Press, Dragging!Rule
<1>3. ASSUME UNCHANGED flaw, NEW r \in Dragging!Rule, Dragging!Release(r) PROVE Sound
  BY <1>1, <1>3 DEF DividerInv, Dragging!Release, Dragging!Rule
<1>4. ASSUME UNCHANGED flaw, NEW r \in Dragging!Rule, Dragging!Hover(r) PROVE Sound
  BY <1>1, <1>4 DEF DividerInv, Dragging!Hover, Dragging!Rule
<1>5. ASSUME UNCHANGED flaw, NEW r \in Dragging!Rule, NEW x \in Points, Dragging!Motion(r, x) PROVE Sound
  <2>1. CASE ~pressed[r]
    BY <1>1, <1>5, <2>1 DEF DividerInv, Dragging!Motion
  <2>2. CASE pressed[r]
    <3>1. /\ columns' = Dragging!dragTo(columns, r, x) /\ UNCHANGED <<held, pressed>>
          /\ moved' = [by |-> "pointer", rule |-> r, to |-> x]
          /\ r \in Dragging!Drawn(columns)
      BY <1>5, <2>2 DEF Dragging!Motion
    <3>2. r \in {"rail", "pane"} /\ (r = "pane" => columns.tree.kind \in {"split", "railSplit"})
      BY <3>1 DEF Dragging!Rule, Dragging!Drawn
    <3>3. /\ Straight(columns')
          /\ Dragging!Talking(columns) => Dragging!At(columns', r) = Dragging!Within(columns', r, x)
      BY <3>1, <3>2, Dragged DEF DividerInv, Dragging!Talking
    <3>4. held # "none"
      BY <1>5, <2>2 DEF Dragging!Motion, DividerInv, Dragging!Rule
    <3> QED BY <1>5, <3>1, <3>3, <3>4 DEF DividerInv
  <2> QED BY <2>1, <2>2
<1>6. ASSUME UNCHANGED flaw, Dragging!LoseRelease PROVE Sound
  BY <1>1, <1>6 DEF DividerInv, Dragging!LoseRelease
<1>7. ASSUME UNCHANGED flaw, NEW d \in {-1, 1}, Dragging!Key(d) PROVE Sound
  <2> DEFINE r == Dragging!keyRule(columns)
             x == Dragging!keyColumn(columns, d)
  <2>1. /\ columns' = Dragging!dragTo(columns, r, x) /\ UNCHANGED <<held, pressed>>
        /\ moved' = [by |-> "key", rule |-> r, to |-> x]
    BY <1>7 DEF Dragging!Key, Dragging!keyTo
  <2>2. r \in {"rail", "pane"} /\ (r = "pane" => columns.tree.kind \in {"split", "railSplit"}) /\ x \in Int
    BY KeyIs DEF DividerInv
  <2> HIDE DEF r, x
  <2>3. /\ Straight(columns')
        /\ r \in Dragging!Drawn(columns) /\ Dragging!Talking(columns)
             => Dragging!At(columns', r) = Dragging!Within(columns', r, x)
    BY <2>1, <2>2, Dragged DEF DividerInv, Dragging!Talking
  <2> QED BY <1>7, <2>1, <2>3 DEF DividerInv
<1>8. ASSUME UNCHANGED flaw, NEW c \in Widths, Dragging!Resize(c) PROVE Sound
  <2> DEFINE wider == [columns EXCEPT !.columns = c]
  <2>1. columns \in RuleFrame /\ columns.tree.kind = Dragging!Built(columns).kind
    BY DEF DividerInv, Straight
  <2>2. /\ wider \in RuleFrame /\ wider.tree = columns.tree
        /\ wider.rail = columns.rail /\ wider.pane = columns.pane
    BY <2>1 DEF RuleFrame
  <2>3. Straight(columns')
    <3>1. CASE columns.pane \/ columns.rail
      BY <1>8, <2>2, <3>1, Rebuilds DEF Dragging!Resize
    <3>2. CASE ~columns.pane /\ ~columns.rail
      <4>1. columns' = wider
        BY <1>8, <3>2 DEF Dragging!Resize
      <4> HIDE DEF wider
      <4>2. Dragging!Built(columns).kind = "plain" /\ Dragging!Built(wider).kind = "plain"
        BY <2>2, <3>2, PlainIs
      <4> QED BY <2>1, <2>2, <4>1, <4>2 DEF Straight
    <3> QED BY <3>1, <3>2
  <2> QED BY <1>1, <1>8, <2>3 DEF DividerInv, Dragging!Resize
<1>9. ASSUME UNCHANGED flaw, Dragging!Toggle PROVE Sound
  <2>1. columns \in RuleFrame
    BY DEF DividerInv, Straight
  <2>2. /\ [columns EXCEPT !.pane = ~@] \in RuleFrame
        /\ [columns EXCEPT !.rail = ~@] \in RuleFrame
        /\ [columns EXCEPT !.conversation = ~@] \in RuleFrame
    BY <2>1 DEF RuleFrame
  <2>3. Straight(columns')
    BY <1>9, <2>2, Rebuilds DEF DividerInv, Dragging!Toggle
  <2> QED BY <1>1, <1>9, <2>3 DEF DividerInv, Dragging!Toggle
<1>10. CASE UNCHANGED dividers
  BY <1>10 DEF dividers, DividerInv
<1>11. ASSUME Dragging!DividerNext PROVE Sound
  BY <1>2, <1>3, <1>4, <1>5, <1>6, <1>7, <1>8, <1>9, <1>11 DEF Dragging!DividerNext
<1> QED BY <1>10, <1>11 DEF dividers

-----------------------------------------------------------------------------
(* The keys of a column's program.                                         *)

\* The keys with names have no other byte with Shift, nor Tab and Enter with Ctrl.
LEMMA KeyTables ==
  /\ \A c \in {"space", "esc", "tab", "enter", "backspace"} : Typing!Upper[c] = c
  /\ \A c \in {"tab", "enter"} : Typing!Control[c] = c
<1>1. \A c \in Typing!Code : Typing!Upper[c] = CASE c = "p" -> "P" [] c = "[" -> "{" [] c = "1" -> "!" [] OTHER -> c
  BY DEF Typing!Upper
<1>2. \A c \in Typing!Code : Typing!Control[c] = CASE c = "p" -> "C-p" [] c = "[" -> "esc" [] c = "space" -> "nul"
                             [] c = "backspace" -> "bs" [] OTHER -> c
  BY DEF Typing!Control
<1> QED BY <1>1, <1>2 DEF Typing!Code

\* Bytes are no report.
LEMMA BytesAreNoReport == \A alt, byte : Typing!Bytes(alt, byte) \notin Typing!Key
<1> SUFFICES ASSUME NEW alt, NEW byte, Typing!Bytes(alt, byte) \in Typing!Key PROVE FALSE
  OBVIOUS
<1>1. DOMAIN Typing!Bytes(alt, byte) = {"code", "mods"}
  BY DEF Typing!Key
<1>2. DOMAIN Typing!Bytes(alt, byte) = {"alt", "byte"}
  BY DEF Typing!Bytes
<1> QED BY <1>1, <1>2

\* legacyKeys lets what the terminal sends as bytes through.
LEMMA LegacyIsBytes == \A key : Typing!Legacy(key) \notin Typing!Key
<1> SUFFICES ASSUME NEW key PROVE Typing!Legacy(key) \notin Typing!Key
  OBVIOUS
<1>1. CASE "super" \in key.mods
  BY <1>1, BytesAreNoReport, ZenonT(30) DEF Typing!Legacy, Typing!NoBytes
<1>2. CASE "super" \notin key.mods
  BY <1>2, BytesAreNoReport DEF Typing!Legacy
<1> QED BY <1>1, <1>2

\* No escape goes before the byte of a key without Alt.
LEMMA WithoutAlt ==
  ASSUME NEW mods, "alt" \notin mods, NEW byte
  PROVE  Typing!Bytes("alt" \in mods, byte) = Typing!Bytes(FALSE, byte)
<1>1. ("alt" \in mods) = FALSE
  BY SMT
<1> QED BY <1>1

\* What is no exception means the same, in whichever form it comes.
LEMMA SameMeaning ==
  ASSUME NEW key \in Typing!Key, key \notin Typing!Exception
  PROVE  Typing!legacyKeys(Typing!Encoded(key)) = Typing!Legacy(key)
<1>1. CASE Typing!Encoded(key) = Typing!Legacy(key)
  BY <1>1, LegacyIsBytes DEF Typing!legacyKeys
<1>2. CASE Typing!Encoded(key) # Typing!Legacy(key)
  <2>1. /\ Typing!Encoded(key) = Typing!Report(key)
        /\ \/ key.mods \cap {"alt", "ctrl", "super"} # {}
           \/ key.code = "esc"
           \/ key.code \notin Typing!TextCode /\ key.mods # {}
    BY <1>2 DEF Typing!Encoded
  <2>2. Typing!Report(key) = key /\ key.code \in Typing!Code /\ key.mods \subseteq Typing!Modifier
    BY DEF Typing!Report, Typing!Key
  <2>3. Typing!legacyKeys(Typing!Encoded(key)) = Typing!legacyFor(key)
    BY <2>1, <2>2 DEF Typing!legacyKeys
  <2>4. CASE "super" \in key.mods
    BY <2>3, <2>4 DEF Typing!legacyFor, Typing!Legacy
  <2>5. CASE "super" \notin key.mods /\ "ctrl" \in key.mods
    <3>1. key.code \in {"p", "[", "tab", "enter"}
      BY <2>2, <2>5 DEF Typing!Exception, Typing!Code
    <3>2. Typing!Legacy(key) = Typing!Bytes("alt" \in key.mods, Typing!Control[key.code])
      BY <2>5 DEF Typing!Legacy
    <3>3. Typing!legacyFor(key) = Typing!Bytes("alt" \in key.mods, Typing!Control[key.code])
      BY <2>5, <3>1, KeyTables DEF Typing!legacyFor, Typing!Known, Typing!controlByte
    <3> QED BY <2>3, <3>2, <3>3
  <2>6. CASE "super" \notin key.mods /\ "ctrl" \notin key.mods
    <3> DEFINE shifted == IF "shift" \notin key.mods THEN key.code
                          ELSE IF key.code = "tab" THEN "backtab" ELSE Typing!Upper[key.code]
    <3>1. Typing!Legacy(key) = Typing!Bytes("alt" \in key.mods, shifted)
      BY <2>6 DEF Typing!Legacy
    <3>2. CASE "alt" \in key.mods
      <4>1. Typing!legacyFor(key) = Typing!Bytes(TRUE, key.code)
        BY <2>6, <3>2 DEF Typing!legacyFor
      <4>2. "shift" \in key.mods => key.code \in {"space", "esc", "enter", "backspace"}
        BY <2>2, <2>6, <3>2 DEF Typing!Exception, Typing!Code
      <4>3. shifted = key.code
        BY <4>2, KeyTables
      <4> QED BY <2>3, <3>1, <3>2, <4>1, <4>3
    <3>3. CASE "alt" \notin key.mods /\ "shift" \in key.mods
      <4>1. Typing!legacyFor(key) = Typing!Bytes(FALSE, IF key.code = "tab" THEN "backtab" ELSE key.code)
        BY <2>6, <3>3 DEF Typing!legacyFor
      <4>2. key.code \in {"esc", "tab", "enter", "backspace"}
        BY <2>1, <2>2, <2>6, <3>3 DEF Typing!TextCode, Typing!Code
      <4>3. shifted = IF key.code = "tab" THEN "backtab" ELSE key.code
        BY <3>3, <4>2, KeyTables
      <4>4. Typing!Legacy(key) = Typing!Bytes(FALSE, shifted)
        BY <3>1, <3>3, WithoutAlt
      <4> QED BY <2>3, <4>1, <4>3, <4>4
    <3>4. CASE "alt" \notin key.mods /\ "shift" \notin key.mods
      <4>1. key.mods = {}
        BY <2>2, <2>6, <3>4 DEF Typing!Modifier
      <4>2. key.code = "esc"
        BY <2>1, <4>1
      <4>3. Typing!legacyFor(key) = Typing!Bytes(FALSE, "esc")
        BY <2>6, <3>4, <4>2 DEF Typing!legacyFor
      <4>4. shifted = "esc"
        BY <3>4, <4>2
      <4>5. Typing!Legacy(key) = Typing!Bytes(FALSE, shifted)
        BY <3>1, <3>4, WithoutAlt
      <4> QED BY <2>3, <4>3, <4>4, <4>5
    <3> QED BY <3>2, <3>3, <3>4
  <2> QED BY <2>4, <2>5, <2>6
<1> QED BY <1>1, <1>2

\* A key on its way is in a form from which its bytes come back.
TypedInv == typed # << >> /\ typed[1] \notin Typing!Exception => Typing!legacyKeys(typed[2]) = Typing!Legacy(typed[1])

\* The form holds what the key means until the program reads it.
LEMMA TypedHolds ==
  ASSUME TypedInv, [Typing!KeyboardNext]_keys
  PROVE  /\ TypedInv'
         /\ [typed # << >> /\ typed' = << >> /\ window # 0 /\ typed[1] \notin Typing!Exception
               => got' = Typing!Legacy(typed[1])]_keys
<1> DEFINE Kept == typed # << >> /\ typed' = << >> /\ window # 0 /\ typed[1] \notin Typing!Exception
                     => got' = Typing!Legacy(typed[1])
<1>1. ASSUME UNCHANGED typed PROVE TypedInv' /\ Kept
  BY <1>1 DEF TypedInv
<1>2. CASE Typing!start
  BY <1>1, <1>2 DEF Typing!start
<1>3. CASE Typing!Read
  BY <1>3 DEF Typing!Read, TypedInv
<1>4. ASSUME NEW w \in 1 .. Windows, Typing!stop(w) PROVE TypedInv' /\ Kept
  BY <1>1, <1>4 DEF Typing!stop
<1>5. ASSUME NEW key \in Typing!Key, Typing!Press(key) PROVE TypedInv' /\ Kept
  <2>1. typed = << >> /\ typed' = <<key, Typing!Encoded(key)>>
    BY <1>5 DEF Typing!Press
  <2> DEFINE e == Typing!Encoded(key)
  <2>2. key \notin Typing!Exception => Typing!legacyKeys(e) = Typing!Legacy(key)
    BY SameMeaning
  <2> HIDE DEF e
  <2>3. typed'[1] = key /\ typed'[2] = e
    BY <2>1 DEF e
  <2> QED BY <2>1, <2>2, <2>3 DEF TypedInv
<1>6. CASE UNCHANGED keys
  BY <1>1, <1>6 DEF keys
<1> QED BY <1>2, <1>3, <1>4, <1>5, <1>6 DEF Typing!KeyboardNext

-----------------------------------------------------------------------------
\* A key means to a column's program what it means without the protocol, with the
\* exceptions named; a rule lands where a drag or a key takes it, the tree that was kept
\* is the one a rebuild would make, and no pointer that rests moves a rule.  For any
\* number of windows and keys, every column the pointer may be in and every width of 67
\* or more but 86 to 89, where a terminal has one flaw at most
\* (legacyKeys.ts, plugins/layout.ts, plugins/panes.ts, splitDivider.ts).
THEOREM KeysAndRules ==
  ASSUME Roomy, Points \subseteq Int, "both" \notin Flaws
  PROVE  Spec => KeysMeanTheSame
<1> DEFINE Inv == TypedInv /\ DividerInv
           Kept == typed # << >> /\ typed' = << >> /\ window # 0 /\ typed[1] \notin Typing!Exception
                     => got' = Typing!Legacy(typed[1])
           Lands == moved'.by # "none" /\ moved'.rule \in Dragging!Drawn(columns) /\ Dragging!Talking(columns)
                      => Dragging!At(columns', moved'.rule) = Dragging!Within(columns', moved'.rule, moved'.to)
           Held == moved'.by = "pointer" => held # "none"
           Current == Dragging!Talking(columns) /\ Dragging!Drawn(columns) # {} => columns.tree = Dragging!Built(columns)
<1>1. Init => Inv
  <2> SUFFICES ASSUME Init PROVE Inv
    OBVIOUS
  <2>1. TypedInv
    BY DEF Init, Typing!KeyboardInit, TypedInv
  <2>2. DividerInv
    <3>1. Dragging!DividerInit
      BY DEF Init
    <3>2. PICK c \in Widths :
            columns = Dragging!rebuilt([columns |-> c, dragged |-> 0, ratio |-> <<1, 3>>, rail |-> TRUE, pane |-> FALSE,
              conversation |-> TRUE, tree |-> [kind |-> "plain", rail |-> 0, asked |-> 0, pane |-> 0]])
      BY <3>1 DEF Dragging!DividerInit
    <3> DEFINE g == [columns |-> c, dragged |-> 0, ratio |-> <<1, 3>>, rail |-> TRUE, pane |-> FALSE,
                     conversation |-> TRUE, tree |-> [kind |-> "plain", rail |-> 0, asked |-> 0, pane |-> 0]]
    <3>3. g \in RuleFrame
      <4>1. <<1, 3>> \in Nat \X (Nat \ {0})
        OBVIOUS
      <4>2. [kind |-> "plain", rail |-> 0, asked |-> 0, pane |-> 0] \in [kind : Kinds, rail : Int, asked : Int, pane : Int]
        BY DEF Kinds
      <4> QED BY <4>1, <4>2 DEF RuleFrame
    <3>4. Straight(columns)
      <4> HIDE DEF g
      <4> QED BY <3>2, <3>3, Rebuilds DEF g
    <3>5. /\ held = "none" /\ flaw \in Flaws /\ pressed = [r \in Dragging!Rule |-> FALSE]
      BY <3>1 DEF Dragging!DividerInit
    <3> QED BY <3>4, <3>5 DEF DividerInv
  <2> QED BY <2>1, <2>2
<1>2. Inv /\ [Next]_vars => Inv' /\ [Kept]_keys /\ [Lands]_dividers /\ [Held]_dividers
  <2> SUFFICES ASSUME Inv, [Next]_vars
               PROVE  Inv' /\ [Kept]_keys /\ [Lands]_dividers /\ [Held]_dividers
    OBVIOUS
  <2>1. TypedInv' /\ [Kept]_keys
    BY PartSteps, TypedHolds
  <2>2. DividerInv' /\ [Lands]_dividers /\ [Held]_dividers
    BY PartSteps, DividerHolds
  <2> QED BY <2>1, <2>2
<1>3. Inv => Current
  BY DEF DividerInv, Straight, RuleFrame, Kinds, Dragging!Talking, Dragging!Drawn
<1>4. Spec => [][Kept]_keys /\ [][Lands]_dividers /\ [][Held]_dividers /\ []Current
  <2> HIDE DEF Kept, Lands, Held, Current, Inv
  <2> QED BY <1>1, <1>2, <1>3, PTL DEF Spec
<1>5. Typing!MeansTheSame <=> [][Kept]_keys
  BY PTL DEF Typing!MeansTheSame, Typing!keyboard, keys
<1>6. Dragging!RuleLands <=> [][Lands]_dividers
  BY PTL DEF Dragging!RuleLands, Dragging!dividers, dividers
<1>7. Dragging!OnlyWhileHeld <=> [][Held]_dividers
  BY PTL DEF Dragging!OnlyWhileHeld, Dragging!dividers, dividers
<1>8. Dragging!TreeIsCurrent <=> []Current
  BY PTL DEF Dragging!TreeIsCurrent
<1> HIDE DEF Kept, Lands, Held, Current
<1> QED BY <1>4, <1>5, <1>6, <1>7, <1>8, PTL DEF KeysMeanTheSame

-----------------------------------------------------------------------------
(* The download site's reads.                                              *)

\* The sum that MapThenSumSet takes: element by element, each set from a smaller one.
First(s) == CHOOSE x \in s : TRUE
Summing(f, T, sum) == [s \in SUBSET T |-> IF s = {} THEN 0 ELSE f[First(s)] + sum[s \ {First(s)}]]
Sum(f, T) == CHOOSE sum : sum = Summing(f, T, sum)

LEMMA SumsTheReads == \A T : Downloading!MapThenSumSet(LAMBDA e : spent[e], T) = Sum(spent, T)[T]
BY Zenon DEF Downloading!MapThenSumSet, Downloading!MapThenFoldSet, Sum, Summing, First

\* Of some subsets of a finite set one has no smaller one among them.
LEMMA Shrinks ==
  ASSUME NEW T, IsFiniteSet(T), NEW B \in SUBSET SUBSET T, B # {}
  PROVE  \E s \in B : \A x \in s : s \ {x} \notin B
<1> DEFINE sizes == {Cardinality(s) : s \in B}
<1>1. sizes \subseteq Nat /\ sizes # {}
  BY FS_Subset, FS_CardinalityType
<1>2. PICK n \in sizes : \A m \in sizes : ~(<<m, n>> \in OpToRel(<, Nat))
  <2> HIDE DEF sizes
  <2> QED BY <1>1, NatLessThanWellFounded, WFMin
<1>3. \A m \in sizes : ~(m < n)
  BY <1>1, <1>2 DEF OpToRel
<1>4. PICK s \in B : Cardinality(s) = n
  OBVIOUS
<1>5. ASSUME NEW x \in s, s \ {x} \in B PROVE FALSE
  <2>1. IsFiniteSet(s)
    BY FS_Subset
  <2>2. Cardinality(s \ {x}) = Cardinality(s) - 1 /\ Cardinality(s) \in Nat
    BY <2>1, FS_RemoveElement, FS_CardinalityType
  <2>3. Cardinality(s \ {x}) \in sizes
    BY <1>5
  <2> HIDE DEF sizes
  <2> QED BY <1>3, <1>4, <2>2, <2>3
<1> QED BY <1>5

\* What the sum over the subsets of T is.
Sums(f, T, sum) == \A s \in SUBSET T : sum[s] = IF s = {} THEN 0 ELSE f[First(s)] + sum[s \ {First(s)}]

\* The recursion has a solution, so the sum is one.
LEMMA SumIs ==
  ASSUME NEW T, IsFiniteSet(T), NEW f
  PROVE  Sums(f, T, Sum(f, T))
<1> DEFINE Low(n) == {s \in SUBSET T : Cardinality(s) <= n}
           Has(n, g) == g = [s \in Low(n) |-> IF s = {} THEN 0 ELSE f[First(s)] + g[s \ {First(s)}]]
           bad == {n \in Nat : ~\E g : Has(n, g)}
<1>1. \A s \in SUBSET T : IsFiniteSet(s) /\ Cardinality(s) \in Nat
  BY FS_Subset, FS_CardinalityType
<1>2. \A s \in SUBSET T : s # {} => First(s) \in s /\ Cardinality(s \ {First(s)}) = Cardinality(s) - 1
  BY <1>1, FS_RemoveElement DEF First
<1>3. \E g : Has(0, g)
  <2>1. \A s \in Low(0) : s = {}
    BY <1>1, FS_EmptySet
  <2> DEFINE g == [s \in Low(0) |-> 0]
  <2>2. Has(0, g)
    BY <2>1
  <2> QED BY <2>2
<1>4. ASSUME NEW n \in Nat, NEW g, Has(n, g) PROVE \E h : Has(n + 1, h)
  <2> DEFINE h == [s \in Low(n + 1) |-> IF s = {} THEN 0 ELSE f[First(s)] + g[s \ {First(s)}]]
  <2>1. ASSUME NEW s \in Low(n + 1), s # {} PROVE h[s \ {First(s)}] = g[s \ {First(s)}]
    <3> DEFINE t == s \ {First(s)}
    <3>1. t \in SUBSET T /\ Cardinality(t) <= n
      BY <1>1, <1>2, <2>1
    <3>2. t \in Low(n) /\ t \in Low(n + 1)
      BY <1>1, <3>1
    <3>3. g[t] = IF t = {} THEN 0 ELSE f[First(t)] + g[t \ {First(t)}]
      <4> HIDE DEF t, Low
      <4> QED BY <1>4, <3>2
    <3>4. h[t] = IF t = {} THEN 0 ELSE f[First(t)] + g[t \ {First(t)}]
      <4> HIDE DEF t, Low
      <4> QED BY <3>2
    <3> QED BY <3>3, <3>4
  <2>2. Has(n + 1, h)
    <3> HIDE DEF Low
    <3>1. [s \in Low(n + 1) |-> IF s = {} THEN 0 ELSE f[First(s)] + g[s \ {First(s)}]]
            = [s \in Low(n + 1) |-> IF s = {} THEN 0 ELSE f[First(s)] + h[s \ {First(s)}]]
      BY <2>1
    <3> QED BY <3>1
  <2> QED BY <2>2
<1>5. bad = {}
  <2> SUFFICES ASSUME bad # {} PROVE FALSE
    OBVIOUS
  <2>1. PICK n \in bad : \A m \in bad : ~(<<m, n>> \in OpToRel(<, Nat))
    <3>1. bad \subseteq Nat
      OBVIOUS
    <3> HIDE DEF bad
    <3> QED BY <3>1, NatLessThanWellFounded, WFMin
  <2>2. n \in Nat /\ n # 0 /\ n - 1 \in Nat
    <3> HIDE DEF Has
    <3>1. n \in Nat /\ ~\E g : Has(n, g)
      OBVIOUS
    <3>2. n # 0
      <4> HIDE DEF bad
      <4> QED BY <1>3, <3>1, Zenon
    <3> QED BY <3>1, <3>2
  <2>3. n - 1 \notin bad
    <3>1. <<n - 1, n>> \in OpToRel(<, Nat)
      BY <2>2 DEF OpToRel
    <3> HIDE DEF bad, Has
    <3> QED BY <2>1, <3>1, Zenon
  <2>4. \E g : Has(n - 1, g)
    BY <2>2, <2>3
  <2>5. \E h : Has((n - 1) + 1, h)
    <3> HIDE DEF Has
    <3> QED BY <1>4, <2>2, <2>4
  <2>6. (n - 1) + 1 = n
    BY <2>2
  <2>7. \E h : Has(n, h)
    <3> HIDE DEF Has
    <3> QED BY <2>5, <2>6
  <2> QED BY <2>7
<1>6. Low(Cardinality(T)) = SUBSET T
  BY FS_Subset
<1>7. PICK g : g = Summing(f, T, g)
  <2>1. Cardinality(T) \in Nat
    BY FS_CardinalityType
  <2>2. \E g : Has(Cardinality(T), g)
    BY <1>5, <2>1
  <2> QED BY <1>6, <2>2 DEF Summing
<1>8. Sum(f, T) = Summing(f, T, Sum(f, T))
  BY <1>7, Zenon DEF Sum
<1> DEFINE sum == Sum(f, T)
<1> HIDE DEF sum
<1>9. sum = Summing(f, T, sum)
  BY <1>8 DEF sum
<1>10. Sums(f, T, sum)
  BY <1>9 DEF Summing, Sums
<1> QED BY <1>10 DEF sum

\* The sum with one element more.
LEMMA SumStep ==
  ASSUME NEW T, IsFiniteSet(T), NEW f
  PROVE  \A s \in SUBSET T :
            /\ s = {} => Sum(f, T)[s] = 0
            /\ s # {} => Sum(f, T)[s] = f[First(s)] + Sum(f, T)[s \ {First(s)}]
BY SumIs, Zenon DEF Sums

\* A cost that rises in one place raises the sums with it by as much.
LEMMA SumRises ==
  ASSUME NEW T, IsFiniteSet(T), NEW f, NEW h, NEW d, NEW k \in Int,
         \A e \in T : f[e] \in Int /\ (e # d => h[e] = f[e]) /\ (e = d => h[e] = f[e] + k)
  PROVE  /\ Sum(f, T)[T] \in Int
         /\ d \in T => Sum(h, T)[T] = Sum(f, T)[T] + k
         /\ d \notin T => Sum(h, T)[T] = Sum(f, T)[T]
<1> DEFINE F == Sum(f, T)
           H == Sum(h, T)
           Rises(s) == F[s] \in Int /\ (d \in s => H[s] = F[s] + k) /\ (d \notin s => H[s] = F[s])
           bad == {s \in SUBSET T : ~Rises(s)}
<1>1. \A s \in SUBSET T :
        /\ s = {} => F[s] = 0 /\ H[s] = 0
        /\ s # {} => /\ F[s] = f[First(s)] + F[s \ {First(s)}]
                     /\ H[s] = h[First(s)] + H[s \ {First(s)}]
  <2>1. \A s \in SUBSET T : /\ s = {} => F[s] = 0
                            /\ s # {} => F[s] = f[First(s)] + F[s \ {First(s)}]
    BY SumStep
  <2>2. \A s \in SUBSET T : /\ s = {} => H[s] = 0
                            /\ s # {} => H[s] = h[First(s)] + H[s \ {First(s)}]
    BY SumStep
  <2> HIDE DEF F, H
  <2> QED BY <2>1, <2>2
<1> HIDE DEF F, H
<1>2. bad = {}
  <2> SUFFICES ASSUME bad # {} PROVE FALSE
    OBVIOUS
  <2>1. PICK s \in bad : \A x \in s : s \ {x} \notin bad
    <3>1. bad \in SUBSET SUBSET T
      OBVIOUS
    <3> HIDE DEF bad
    <3> QED BY <3>1, Shrinks
  <2>2. s \in SUBSET T /\ ~Rises(s)
    OBVIOUS
  <2>3. s # {}
    <3>1. s = {} => F[s] = 0 /\ H[s] = 0 /\ d \notin s
      BY <1>1, <2>2
    <3> QED BY <2>2, <3>1
  <2> DEFINE x == First(s)
             t == s \ {x}
  <2>4. x \in s /\ t \in SUBSET T
    BY <2>2, <2>3 DEF First
  <2>5. Rises(t)
    BY <2>1, <2>4
  <2>6. F[s] = f[x] + F[t] /\ H[s] = h[x] + H[t]
    BY <1>1, <2>2, <2>3
  <2>7. f[x] \in Int /\ (x # d => h[x] = f[x]) /\ (x = d => h[x] = f[x] + k)
    BY <2>2, <2>4
  <2>8. d \in s <=> (d = x \/ d \in t)
    BY <2>4
  <2>9. d = x => d \notin t
    OBVIOUS
  <2> HIDE DEF x, t
  <2> QED BY <2>2, <2>5, <2>6, <2>7, <2>8, <2>9
<1>3. Rises(T)
  BY <1>2
<1> QED BY <1>3 DEF F, H

\* What costs nothing sums to nothing.
LEMMA SumOfNothing ==
  ASSUME NEW T, IsFiniteSet(T), NEW f, \A e \in T : f[e] = 0
  PROVE  Sum(f, T)[T] = 0
<1> DEFINE F == Sum(f, T)
           bad == {s \in SUBSET T : F[s] # 0}
<1>1. \A s \in SUBSET T :
        /\ s = {} => F[s] = 0
        /\ s # {} => F[s] = f[First(s)] + F[s \ {First(s)}]
  BY SumStep, Zenon
<1> HIDE DEF F
<1>2. bad = {}
  <2> SUFFICES ASSUME bad # {} PROVE FALSE
    OBVIOUS
  <2>1. PICK s \in bad : \A x \in s : s \ {x} \notin bad
    <3>1. bad \in SUBSET SUBSET T
      OBVIOUS
    <3> HIDE DEF bad
    <3> QED BY <3>1, Shrinks
  <2>2. s \in SUBSET T /\ F[s] # 0 /\ s # {}
    BY <1>1
  <2>3. First(s) \in s /\ s \ {First(s)} \in SUBSET T
    BY <2>2 DEF First
  <2>4. F[s \ {First(s)}] = 0 /\ f[First(s)] = 0
    BY <2>1, <2>2, <2>3
  <2> QED BY <1>1, <2>2, <2>4
<1> QED BY <1>2 DEF F

\* Costs that are nowhere above others have no greater sum.
LEMMA SumNoMore ==
  ASSUME NEW T, IsFiniteSet(T), NEW f, NEW h,
         \A e \in T : f[e] \in Int /\ h[e] \in Int /\ f[e] <= h[e]
  PROVE  Sum(f, T)[T] \in Int /\ Sum(h, T)[T] \in Int /\ Sum(f, T)[T] <= Sum(h, T)[T]
<1> DEFINE F == Sum(f, T)
           H == Sum(h, T)
           Below(s) == F[s] \in Int /\ H[s] \in Int /\ F[s] <= H[s]
           bad == {s \in SUBSET T : ~Below(s)}
<1>1. \A s \in SUBSET T :
        /\ s = {} => F[s] = 0 /\ H[s] = 0
        /\ s # {} => /\ F[s] = f[First(s)] + F[s \ {First(s)}]
                     /\ H[s] = h[First(s)] + H[s \ {First(s)}]
  <2>1. \A s \in SUBSET T : /\ s = {} => F[s] = 0
                            /\ s # {} => F[s] = f[First(s)] + F[s \ {First(s)}]
    BY SumStep
  <2>2. \A s \in SUBSET T : /\ s = {} => H[s] = 0
                            /\ s # {} => H[s] = h[First(s)] + H[s \ {First(s)}]
    BY SumStep
  <2> HIDE DEF F, H
  <2> QED BY <2>1, <2>2
<1> HIDE DEF F, H
<1>2. bad = {}
  <2> SUFFICES ASSUME bad # {} PROVE FALSE
    OBVIOUS
  <2>1. PICK s \in bad : \A x \in s : s \ {x} \notin bad
    <3>1. bad \in SUBSET SUBSET T
      OBVIOUS
    <3> HIDE DEF bad
    <3> QED BY <3>1, Shrinks
  <2>2. s \in SUBSET T /\ ~Below(s)
    OBVIOUS
  <2>3. s # {}
    <3>1. s = {} => F[s] = 0 /\ H[s] = 0
      BY <1>1, <2>2
    <3> QED BY <2>2, <3>1
  <2> DEFINE x == First(s)
             t == s \ {x}
  <2>4. x \in s /\ t \in SUBSET T
    BY <2>2, <2>3 DEF First
  <2>5. Below(t)
    BY <2>1, <2>4
  <2>6. F[s] = f[x] + F[t] /\ H[s] = h[x] + H[t]
    BY <1>1, <2>2, <2>3
  <2>7. f[x] \in Int /\ h[x] \in Int /\ f[x] <= h[x]
    BY <2>2, <2>4
  <2> HIDE DEF x, t
  <2> QED BY <2>2, <2>5, <2>6, <2>7
<1>3. Below(T)
  BY <1>2
<1> QED BY <1>3 DEF F, H

-----------------------------------------------------------------------------
\* Requests are finitely many at a time, and the limits and the calendar are numbers.
Metered ==
    /\ IsFiniteSet(Request) /\ Days \in Nat /\ DaysAMonth \in Nat \ {0}
    /\ DAILY_READ_LIMIT \in Nat /\ MONTHLY_READ_LIMIT \in Nat

\* The days that share the month of d.
MonthOf(d) == Downloading!Month(d)
MonthDays(d) == {e \in Downloading!Day : MonthOf(e) = MonthOf(d)}

\* What a day costs: its reads, and the reservations that will still read on it.
Reserved(d) == {r \in Request : download[r].at = "reserved" /\ download[r].day = d}
Cost == [d \in Downloading!Day |-> spent[d] + Cardinality(Reserved(d))]
MonthCost(f, d) == Sum(f, MonthDays(d))[MonthDays(d)]

Given == {"none", "static", "retired", "unknown", "416", "elsewhere", "bucket"}
Asking == [at : {"free", "asks", "reserved", "done"}, day : Nat, answer : Given]
MeterTypes ==
    /\ clock \in Downloading!Day
    /\ spent \in [Downloading!Day -> Nat]
    /\ download \in [Request -> Asking]
    /\ \A r \in Request : download[r].at = "reserved" => download[r].day \in Downloading!Day

\* The counter c covers the costs f of its day and of its month, and no later day costs
\* anything.
Covers(c, f) ==
    /\ c.day \in Nat /\ c.daily \in Nat /\ c.monthly \in Nat
    /\ c.day # 0 => c.day \in Downloading!Day /\ c.month = MonthOf(c.day)
    /\ \A d \in Downloading!Day :
          /\ f[d] \in Nat /\ f[d] <= DAILY_READ_LIMIT
          /\ d = c.day => f[d] <= c.daily
          /\ d > c.day => f[d] = 0
          /\ MonthCost(f, d) <= MONTHLY_READ_LIMIT
          /\ c.day # 0 /\ MonthOf(d) = c.month => MonthCost(f, d) <= c.monthly

\* A day is in its month, and months are in the order of their days.
LEMMA Months ==
  ASSUME Metered
  PROVE  /\ \A d \in Downloading!Day : MonthOf(d) \in Int /\ d \in MonthDays(d) /\ IsFiniteSet(MonthDays(d))
         /\ \A d, e \in Downloading!Day : d <= e => MonthOf(d) <= MonthOf(e)
<1> DEFINE m == DaysAMonth
<1>1. m \in Nat /\ m > 0
  BY DEF Metered
<1>2. \A d \in Downloading!Day : /\ MonthOf(d) \in Int /\ m * MonthOf(d) <= d - 1 /\ d - 1 < m * MonthOf(d) + m
  BY <1>1, SMTT(30) DEF MonthOf, Downloading!Month, Downloading!Day, Metered
<1>3. \A d \in Downloading!Day : d \in MonthDays(d) /\ IsFiniteSet(MonthDays(d))
  <2>1. IsFiniteSet(Downloading!Day)
    BY FS_Interval DEF Downloading!Day, Metered
  <2> QED BY <2>1, FS_Subset DEF MonthDays
<1>4. ASSUME NEW d \in Downloading!Day, NEW e \in Downloading!Day, d <= e PROVE MonthOf(d) <= MonthOf(e)
  <2> DEFINE a == MonthOf(d)
             b == MonthOf(e)
  <2>1. /\ a \in Int /\ b \in Int /\ d \in Int /\ e \in Int
        /\ m * a <= d - 1 /\ e - 1 < m * b + m
    BY <1>2 DEF Downloading!Day, Metered
  <2> HIDE DEF a, b, m
  <2>2. m * a < m * b + m
    BY <1>1, <1>4, <2>1
  <2>3. ~(a >= b + 1)
    <3>1. a >= b + 1 => m * a >= m * (b + 1)
      BY <1>1, <2>1, SMTT(30)
    <3>2. m * (b + 1) = m * b + m
      BY <1>1, <2>1, SMTT(30)
    <3>3. m * a \in Int /\ m * b \in Int
      BY <1>1, <2>1
    <3> QED BY <1>1, <2>2, <3>1, <3>2, <3>3
  <2>4. a <= b
    BY <2>1, <2>3
  <2> QED BY <2>4 DEF a, b
<1> QED BY <1>2, <1>3, <1>4

\* A month costs more by what one of its days does.
LEMMA MonthRises ==
  ASSUME Metered, NEW e \in Downloading!Day, NEW f, NEW h, NEW d, NEW k \in Int,
         \A x \in Downloading!Day : f[x] \in Int /\ (x # d => h[x] = f[x]) /\ (x = d => h[x] = f[x] + k)
  PROVE  /\ MonthCost(f, e) \in Int
         /\ d \in MonthDays(e) => MonthCost(h, e) = MonthCost(f, e) + k
         /\ d \notin MonthDays(e) => MonthCost(h, e) = MonthCost(f, e)
<1> DEFINE T == MonthDays(e)
<1>1. IsFiniteSet(T)
  BY Months
<1>2. \A x \in T : f[x] \in Int /\ (x # d => h[x] = f[x]) /\ (x = d => h[x] = f[x] + k)
  BY DEF MonthDays
<1> HIDE DEF T
<1>3. /\ Sum(f, T)[T] \in Int
      /\ d \in T => Sum(h, T)[T] = Sum(f, T)[T] + k
      /\ d \notin T => Sum(h, T)[T] = Sum(f, T)[T]
  BY <1>1, <1>2, SumRises
<1> QED BY <1>3 DEF T, MonthCost

\* A reservation of the counter is taken for one more read of its day, or for none that
\* is made; refused, it leaves the counter as it is.
LEMMA ReserveCovers ==
  ASSUME Metered, NEW c, NEW f, NEW h, NEW d \in Downloading!Day, NEW k \in {0, 1}, Covers(c, f),
         \A e \in Downloading!Day : (e # d => h[e] = f[e]) /\ (e = d => h[e] = f[e] + k),
         Downloading!reserve(c, d) # c \/ k = 0
  PROVE  Covers(Downloading!reserve(c, d), h)
<1> DEFINE daily == IF c.day = d THEN c.daily ELSE 0
           monthly == IF c.day # 0 /\ c.month = MonthOf(d) THEN c.monthly ELSE 0
           refused == d < c.day \/ daily >= DAILY_READ_LIMIT \/ monthly >= MONTHLY_READ_LIMIT
           taken == [day |-> d, month |-> MonthOf(d), daily |-> daily + 1, monthly |-> monthly + 1]
<1>1. Downloading!reserve(c, d) = IF refused THEN c ELSE taken
  BY DEF Downloading!reserve, MonthOf
<1>2. \A e \in Downloading!Day :
         /\ f[e] \in Nat /\ f[e] <= DAILY_READ_LIMIT
         /\ e = c.day => f[e] <= c.daily
         /\ e > c.day => f[e] = 0
         /\ MonthCost(f, e) <= MONTHLY_READ_LIMIT
         /\ c.day # 0 /\ MonthOf(e) = c.month => MonthCost(f, e) <= c.monthly
  BY DEF Covers
<1>3. /\ c.day \in Nat /\ c.daily \in Nat /\ c.monthly \in Nat
      /\ c.day # 0 => c.day \in Downloading!Day /\ c.month = MonthOf(c.day)
  BY DEF Covers
<1>4. \A e \in Downloading!Day :
        /\ MonthCost(f, e) \in Int
        /\ d \in MonthDays(e) => MonthCost(h, e) = MonthCost(f, e) + k
        /\ d \notin MonthDays(e) => MonthCost(h, e) = MonthCost(f, e)
  <2>1. \A x \in Downloading!Day : f[x] \in Int /\ (x # d => h[x] = f[x]) /\ (x = d => h[x] = f[x] + k)
    BY <1>2
  <2>2. k \in Int
    OBVIOUS
  <2> QED BY <2>1, <2>2, MonthRises
<1>5. CASE refused
  <2>1. k = 0
    BY <1>1, <1>5
  <2>2. \A e \in Downloading!Day : h[e] = f[e] /\ MonthCost(h, e) = MonthCost(f, e)
    BY <1>2, <1>4, <2>1
  <2>3. Downloading!reserve(c, d) = c
    BY <1>1, <1>5
  <2>4. Covers(c, h)
    BY <1>2, <1>3, <2>2 DEF Covers
  <2> QED BY <2>3, <2>4
<1>6. CASE ~refused
  <2>1. /\ d \in Nat /\ d # 0 /\ d >= c.day /\ DAILY_READ_LIMIT \in Nat /\ MONTHLY_READ_LIMIT \in Nat
        /\ daily \in Nat /\ monthly \in Nat /\ daily < DAILY_READ_LIMIT /\ monthly < MONTHLY_READ_LIMIT
    BY <1>6, <1>3 DEF Downloading!Day, Metered
  <2>2. f[d] <= daily
    <3>1. CASE c.day = d BY <1>2, <3>1
    <3>2. CASE c.day # d BY <1>2, <1>3, <2>1, <3>2
    <3> QED BY <3>1, <3>2
  <2>3. \A e \in Downloading!Day : MonthOf(e) = MonthOf(d) => MonthCost(f, e) <= monthly
    <3> SUFFICES ASSUME NEW e \in Downloading!Day, MonthOf(e) = MonthOf(d) PROVE MonthCost(f, e) <= monthly
      OBVIOUS
    <3>1. CASE c.day # 0 /\ c.month = MonthOf(d)
      BY <1>2, <3>1
    <3>2. CASE ~(c.day # 0 /\ c.month = MonthOf(d))
      <4> DEFINE T == MonthDays(e)
      <4>1. ASSUME NEW x \in T PROVE f[x] = 0
        <5>1. x \in Downloading!Day /\ MonthOf(x) = MonthOf(d) /\ x \in Nat /\ x # 0
          BY DEF MonthDays, Downloading!Day
        <5>2. CASE c.day = 0
          BY <1>2, <5>1, <5>2
        <5>3. CASE c.day # 0
          <6>1. MonthOf(c.day) <= MonthOf(d) /\ MonthOf(c.day) # MonthOf(d)
            BY <1>3, <2>1, <3>2, <5>3, Months
          <6>2. ~(x <= c.day)
            BY <1>3, <5>1, <5>3, <6>1, Months
          <6>3. x > c.day
            BY <1>3, <5>1, <6>2
          <6> QED BY <1>2, <5>1, <6>3
        <5> QED BY <5>2, <5>3
      <4>2. IsFiniteSet(T)
        BY Months
      <4> HIDE DEF T
      <4>3. Sum(f, T)[T] = 0
        BY <4>1, <4>2, SumOfNothing
      <4>4. monthly = 0
        BY <3>2
      <4> QED BY <4>3, <4>4 DEF T, MonthCost
    <3> QED BY <3>1, <3>2
  <2> HIDE DEF daily, monthly
  <2>4. ASSUME NEW e \in Downloading!Day
        PROVE  /\ h[e] \in Nat /\ h[e] <= DAILY_READ_LIMIT
               /\ e = d => h[e] <= daily + 1
               /\ e > d => h[e] = 0
    <3>1. (e # d => h[e] = f[e]) /\ (e = d => h[e] = f[e] + k)
      OBVIOUS
    <3>2. e \in Nat
      BY DEF Downloading!Day
    <3>3. e > d => e > c.day
      BY <1>3, <2>1, <3>2
    <3>4. k \in Nat /\ k <= 1
      OBVIOUS
    <3> QED BY <1>2, <2>1, <2>2, <3>1, <3>2, <3>3, <3>4
  <2>5. ASSUME NEW e \in Downloading!Day
        PROVE  /\ MonthCost(h, e) <= MONTHLY_READ_LIMIT
               /\ MonthOf(e) = MonthOf(d) => MonthCost(h, e) <= monthly + 1
    <3>1. d \in MonthDays(e) <=> MonthOf(e) = MonthOf(d)
      BY DEF MonthDays
    <3>2. k \in Nat /\ k <= 1
      OBVIOUS
    <3>3. CASE MonthOf(e) = MonthOf(d)
      <4>1. MonthCost(h, e) = MonthCost(f, e) + k /\ MonthCost(f, e) \in Int /\ MonthCost(f, e) <= monthly
        BY <1>4, <2>3, <3>1, <3>3
      <4> QED BY <2>1, <3>2, <4>1
    <3>4. CASE MonthOf(e) # MonthOf(d)
      <4>1. MonthCost(h, e) = MonthCost(f, e) + 0 /\ MonthCost(f, e) \in Int /\ MonthCost(f, e) <= MONTHLY_READ_LIMIT
        BY <1>2, <1>4, <3>1, <3>4
      <4> QED BY <3>4, <4>1
    <3> QED BY <3>3, <3>4
  <2>6. /\ taken.day = d /\ taken.month = MonthOf(d)
        /\ taken.daily = daily + 1 /\ taken.monthly = monthly + 1
    OBVIOUS
  <2>7. Downloading!reserve(c, d) = taken
    BY <1>1, <1>6
  <2> HIDE DEF taken
  <2>8. Covers(taken, h)
    BY <2>1, <2>4, <2>5, <2>6 DEF Covers
  <2> QED BY <2>7, <2>8
<1> QED BY <1>5, <1>6

\* The counter covers what was read and what is reserved.
MeterInv == MeterTypes /\ Covers(counter, Cost)

\* What becomes of one request.
LEMMA OneMoves ==
  ASSUME NEW r \in Request, \A s \in Request \ {r} : download'[s] = download[s], NEW d \in Downloading!Day
  PROVE  Reserved(d)' = (Reserved(d) \ {r})
                          \cup (IF download'[r].at = "reserved" /\ download'[r].day = d THEN {r} ELSE {})
BY DEF Reserved

\* The cost of a day is a number, and no less than its reads.
LEMMA ReservedAre == ASSUME Metered, NEW d PROVE IsFiniteSet(Reserved(d)) /\ Cardinality(Reserved(d)) \in Nat
BY FS_Subset, FS_CardinalityType DEF Metered, Reserved

LEMMA CostIs ==
  ASSUME Metered, MeterTypes
  PROVE  \A d \in Downloading!Day : Cost[d] = spent[d] + Cardinality(Reserved(d)) /\ Cost[d] \in Nat /\ spent[d] <= Cost[d]
<1> TAKE d \in Downloading!Day
<1>1. spent[d] \in Nat /\ Cardinality(Reserved(d)) \in Nat
  BY ReservedAre DEF MeterTypes
<1>2. Cost[d] = spent[d] + Cardinality(Reserved(d))
  BY DEF Cost
<1> QED BY <1>1, <1>2

\* A step that neither reserves nor reads.
LEMMA CostStays ==
  ASSUME MeterInv, counter' = counter, spent' = spent, clock' \in Downloading!Day,
         \/ download' = download
         \/ \E r \in Request :
              /\ download' \in [Request -> Asking]
              /\ \A s \in Request \ {r} : download'[s] = download[s]
              /\ download[r].at # "reserved" /\ download'[r].at # "reserved"
  PROVE  MeterInv'
<1>1. MeterTypes'
  <2>1. CASE download' = download
    BY <2>1 DEF MeterInv, MeterTypes
  <2>2. ASSUME NEW r \in Request,
               download' \in [Request -> Asking],
               \A s \in Request \ {r} : download'[s] = download[s],
               download'[r].at # "reserved"
        PROVE  MeterTypes'
    BY <2>2 DEF MeterInv, MeterTypes
  <2> QED BY <2>1, <2>2
<1>2. \A d \in Downloading!Day : Reserved(d)' = Reserved(d)
  BY DEF Reserved
<1>3. Cost' = Cost
  BY <1>2 DEF Cost
<1> QED BY <1>1, <1>3 DEF MeterInv

Answer(r, given) == [download EXCEPT ![r].at = "done", ![r].answer = given]

\* A request that is answered has no reservation left.
LEMMA AnswerIs ==
  ASSUME MeterTypes, NEW r \in Request, NEW given \in Given
  PROVE  /\ Answer(r, given) \in [Request -> Asking] /\ Answer(r, given)[r].at = "done"
         /\ \A s \in Request \ {r} : Answer(r, given)[s] = download[s]
BY DEF MeterTypes, Answer, Asking

\* A reservation is a read to come: it costs its day from the moment it is taken, so that
\* the read itself costs nothing more.
LEMMA MeterHolds ==
  ASSUME Metered, MeterInv, [Downloading!DownloadsNext]_site
  PROVE  MeterInv'
<1>0. MeterTypes /\ Covers(counter, Cost) /\ clock \in Downloading!Day
  BY DEF MeterInv, MeterTypes
<1>1. ASSUME NEW r \in Request, Downloading!fetch(r) PROVE MeterInv'
  <2>1. /\ download[r].at # "reserved" /\ counter' = counter /\ spent' = spent /\ clock' = clock
    BY <1>1 DEF Downloading!fetch
  <2>2. ASSUME NEW given \in Given, download' = Answer(r, given) PROVE MeterInv'
    <3>1. /\ download' \in [Request -> Asking] /\ download'[r].at # "reserved"
          /\ \A s \in Request \ {r} : download'[s] = download[s]
      BY <1>0, <2>2, AnswerIs
    <3> QED BY <1>0, <2>1, <3>1, CostStays
  <2>3. CASE download' = [download EXCEPT ![r].at = "asks"]
    <3>1. /\ download' \in [Request -> Asking] /\ download'[r].at # "reserved"
          /\ \A s \in Request \ {r} : download'[s] = download[s]
      BY <1>0, <2>3 DEF MeterTypes, Asking
    <3> QED BY <1>0, <2>1, <3>1, CostStays
  <2>4. \/ \E given \in Given : download' = Answer(r, given)
        \/ download' = [download EXCEPT ![r].at = "asks"]
    BY <1>1 DEF Downloading!fetch, Downloading!Answered, Answer, Given
  <2> QED BY <2>2, <2>3, <2>4
<1>2. ASSUME NEW r \in Request, Downloading!quotaFails(r) PROVE MeterInv'
  <2>1. /\ download[r].at # "reserved" /\ counter' = counter /\ spent' = spent /\ clock' = clock
        /\ download' = Answer(r, "elsewhere") /\ "elsewhere" \in Given
    BY <1>2 DEF Downloading!quotaFails, Downloading!fallback, Downloading!Answered, Answer, Given
  <2>2. /\ download' \in [Request -> Asking] /\ download'[r].at # "reserved"
        /\ \A s \in Request \ {r} : download'[s] = download[s]
    BY <1>0, <2>1, AnswerIs
  <2> QED BY <1>0, <2>1, <2>2, CostStays
<1>3. ASSUME NEW r \in Request, Downloading!Answers(r) PROVE MeterInv'
  <2>1. /\ download[r].at # "reserved" /\ counter' = counter /\ spent' = spent /\ clock' = clock
        /\ download' = [download EXCEPT ![r] = Downloading!Free]
    BY <1>3 DEF Downloading!Answers
  <2>2. Downloading!Free \in Asking /\ Downloading!Free.at # "reserved"
    BY DEF Downloading!Free, Asking, Given
  <2>3. /\ download' \in [Request -> Asking] /\ download'[r].at # "reserved"
        /\ \A s \in Request \ {r} : download'[s] = download[s]
    BY <1>0, <2>1, <2>2 DEF MeterTypes
  <2> QED BY <1>0, <2>1, <2>3, CostStays
<1>4. CASE Downloading!Clock \/ Downloading!Bucket \/ UNCHANGED site
  BY <1>0, <1>4, CostStays DEF Downloading!Clock, Downloading!Bucket, site
<1>5. ASSUME NEW r \in Request, Downloading!askQuota(r) PROVE MeterInv'
  <2> DEFINE k == IF download'[r].at = "reserved" THEN 1 ELSE 0
  <2>1. /\ download[r].at = "asks" /\ counter' = Downloading!reserve(counter, clock)
        /\ clock' = clock /\ spent' = spent
    BY <1>5 DEF Downloading!askQuota
  <2>2. \/ /\ counter' # counter
           /\ download' = [download EXCEPT ![r].at = "reserved", ![r].day = clock]
        \/ download' = Answer(r, "elsewhere") /\ "elsewhere" \in Given
    BY <1>5 DEF Downloading!askQuota, Downloading!fallback, Downloading!Answered, Answer, Given
  <2>3. /\ download' \in [Request -> Asking]
        /\ \A s \in Request \ {r} : download'[s] = download[s]
        /\ download'[r].at = "reserved" => download'[r].day = clock /\ counter' # counter
    <3>1. CASE download' = [download EXCEPT ![r].at = "reserved", ![r].day = clock]
      <4>1. clock \in Nat
        BY <1>0 DEF Downloading!Day
      <4>2. /\ download' \in [Request -> Asking]
            /\ \A s \in Request \ {r} : download'[s] = download[s]
            /\ download'[r].day = clock
        BY <1>0, <3>1, <4>1 DEF MeterTypes, Asking
      <4>3. counter' # counter
        <5>1. download'[r].at = "reserved"
          BY <1>0, <3>1 DEF MeterTypes, Asking
        <5>2. download' = Answer(r, "elsewhere") /\ "elsewhere" \in Given => download'[r].at = "done"
          BY <1>0, AnswerIs
        <5> QED BY <2>2, <5>1, <5>2
      <4> QED BY <4>2, <4>3
    <3>2. CASE download' = Answer(r, "elsewhere") /\ "elsewhere" \in Given
      BY <1>0, <3>2, AnswerIs
    <3> QED BY <2>2, <3>1, <3>2
  <2>4. MeterTypes'
    <3>1. \A s \in Request : download'[s].at = "reserved" => download'[s].day \in Downloading!Day
      BY <1>0, <2>3 DEF MeterTypes
    <3> QED BY <1>0, <2>1, <2>3, <3>1 DEF MeterTypes
  <2>5. \A d \in Downloading!Day :
           /\ d # clock => Cost'[d] = Cost[d]
           /\ d = clock => Cost'[d] = Cost[d] + k
    <3> TAKE d \in Downloading!Day
    <3>1. Reserved(d)' = (Reserved(d) \ {r})
                           \cup (IF download'[r].at = "reserved" /\ download'[r].day = d THEN {r} ELSE {})
      BY <2>3, OneMoves
    <3>2. r \notin Reserved(d)
      BY <2>1 DEF Reserved
    <3>3. IsFiniteSet(Reserved(d)) /\ Cardinality(Reserved(d)) \in Nat
      BY ReservedAre
    <3>4. Reserved(d)' = IF k = 1 /\ d = clock THEN Reserved(d) \cup {r} ELSE Reserved(d)
      BY <2>3, <3>1, <3>2
    <3>5. Cardinality(Reserved(d) \cup {r}) = Cardinality(Reserved(d)) + 1
      BY <3>2, <3>3, FS_AddElement
    <3>6. /\ d # clock => Cardinality(Reserved(d)') = Cardinality(Reserved(d))
          /\ d = clock => Cardinality(Reserved(d)') = Cardinality(Reserved(d)) + k
      <4>1. k \in {0, 1}
        OBVIOUS
      <4> HIDE DEF k
      <4> QED BY <3>3, <3>4, <3>5, <4>1
    <3>7. Cost'[d] = spent'[d] + Cardinality(Reserved(d)')
      BY DEF Cost
    <3>8. Cost[d] = spent[d] + Cardinality(Reserved(d)) /\ spent[d] \in Nat
      BY <1>0, CostIs DEF MeterTypes
    <3>9. k \in Nat
      OBVIOUS
    <3> HIDE DEF k
    <3> QED BY <2>1, <3>3, <3>6, <3>7, <3>8, <3>9
  <2>6. k \in {0, 1} /\ (Downloading!reserve(counter, clock) # counter \/ k = 0)
    BY <2>1, <2>3
  <2> HIDE DEF k
  <2>7. Covers(Downloading!reserve(counter, clock), Cost')
    BY <1>0, <2>5, <2>6, ReserveCovers
  <2> QED BY <2>1, <2>4, <2>7 DEF MeterInv
<1>6. ASSUME NEW r \in Request, Downloading!read(r) PROVE MeterInv'
  <2> DEFINE day == download[r].day
  <2>1. /\ download[r].at = "reserved" /\ day \in Downloading!Day
        /\ counter' = counter /\ clock' = clock
        /\ spent' = [spent EXCEPT ![day] = @ + 1]
    BY <1>0, <1>6 DEF Downloading!read, MeterTypes
  <2>2. PICK given \in Given : download' = Answer(r, given)
    BY <1>6 DEF Downloading!read, Downloading!fallback, Downloading!Answered, Answer, Given
  <2>3. /\ download' \in [Request -> Asking] /\ download'[r].at = "done"
        /\ \A s \in Request \ {r} : download'[s] = download[s]
    BY <1>0, <2>2, AnswerIs
  <2>4. MeterTypes'
    <3>1. \A s \in Request : download'[s].at = "reserved" => download'[s].day \in Downloading!Day
      BY <1>0, <2>3 DEF MeterTypes
    <3>2. spent' \in [Downloading!Day -> Nat]
      BY <1>0, <2>1 DEF MeterTypes
    <3> QED BY <1>0, <2>1, <2>3, <3>1, <3>2 DEF MeterTypes
  <2>5. \A d \in Downloading!Day : spent'[d] + Cardinality(Reserved(d)') = spent[d] + Cardinality(Reserved(d))
    <3> TAKE d \in Downloading!Day
    <3>1. Reserved(d)' = Reserved(d) \ {r}
      BY <2>3, OneMoves
    <3>2. r \in Reserved(d) <=> d = day
      BY <2>1 DEF Reserved
    <3>3. IsFiniteSet(Reserved(d)) /\ Cardinality(Reserved(d)) \in Nat
      BY ReservedAre
    <3>4. spent[d] \in Nat
      BY <1>0 DEF MeterTypes
    <3>5. CASE d = day
      <4>1. spent'[d] = spent[d] + 1
        BY <1>0, <2>1, <3>5 DEF MeterTypes
      <4>2. Cardinality(Reserved(d) \ {r}) = Cardinality(Reserved(d)) - 1
        BY <3>2, <3>3, <3>5, FS_RemoveElement
      <4> QED BY <3>1, <3>3, <3>4, <4>1, <4>2
    <3>6. CASE d # day
      <4>1. spent'[d] = spent[d]
        BY <1>0, <2>1, <3>6 DEF MeterTypes
      <4>2. Reserved(d) \ {r} = Reserved(d)
        BY <3>2, <3>6
      <4> QED BY <3>1, <4>1, <4>2
    <3> QED BY <3>5, <3>6
  <2>6. Cost' = Cost
    BY <2>5 DEF Cost
  <2> QED BY <1>0, <2>1, <2>4, <2>6 DEF MeterInv
<1> QED BY <1>1, <1>2, <1>3, <1>4, <1>5, <1>6 DEF Downloading!DownloadsNext

LEMMA MeterStarts ==
  ASSUME Metered, Downloading!DownloadsInit
  PROVE  MeterInv
<1>1. /\ clock \in Downloading!Day /\ counter = [day |-> 0, month |-> 0, daily |-> 0, monthly |-> 0]
      /\ download = [r \in Request |-> Downloading!Free] /\ spent = [d \in Downloading!Day |-> 0]
  BY DEF Downloading!DownloadsInit
<1>2. Downloading!Free \in Asking /\ Downloading!Free.at = "free"
  BY DEF Downloading!Free, Asking, Given
<1>3. MeterTypes
  BY <1>1, <1>2 DEF MeterTypes
<1>4. \A d \in Downloading!Day : Cost[d] = 0
  <2> TAKE d \in Downloading!Day
  <2>1. Reserved(d) = {}
    BY <1>1, <1>2 DEF Reserved
  <2>2. Cardinality({}) = 0
    BY FS_EmptySet
  <2>3. spent[d] = 0
    BY <1>1
  <2> QED BY <2>1, <2>2, <2>3 DEF Cost
<1>5. ASSUME NEW d \in Downloading!Day PROVE MonthCost(Cost, d) = 0
  <2> DEFINE T == MonthDays(d)
  <2>1. IsFiniteSet(T) /\ \A e \in T : Cost[e] = 0
    BY <1>4, Months DEF MonthDays
  <2> HIDE DEF T
  <2>2. Sum(Cost, T)[T] = 0
    BY <2>1, SumOfNothing
  <2> QED BY <2>2 DEF T, MonthCost
<1>6. Covers(counter, Cost)
  BY <1>1, <1>4, <1>5 DEF Covers, Metered
<1> QED BY <1>3, <1>6 DEF MeterInv

LEMMA MeterSays ==
  ASSUME Metered, MeterInv
  PROVE  Downloading!ReadsAreMetered
<1>1. \A d \in Downloading!Day : Cost[d] \in Nat /\ spent[d] \in Nat /\ spent[d] <= Cost[d]
  BY CostIs DEF MeterInv, MeterTypes
<1>2. \A d \in Downloading!Day : Cost[d] <= DAILY_READ_LIMIT /\ MonthCost(Cost, d) <= MONTHLY_READ_LIMIT
  BY DEF MeterInv, Covers
<1>3. \A d \in Downloading!Day : spent[d] <= DAILY_READ_LIMIT
  BY <1>1, <1>2 DEF Metered
<1>4. ASSUME NEW d \in Downloading!Day
      PROVE  Downloading!MapThenSumSet(LAMBDA e : spent[e], {e \in Downloading!Day : Downloading!Month(e) = Downloading!Month(d)})
               <= MONTHLY_READ_LIMIT
  <2> DEFINE T == MonthDays(d)
  <2>1. {e \in Downloading!Day : Downloading!Month(e) = Downloading!Month(d)} = T
    BY DEF MonthDays, MonthOf
  <2>2. IsFiniteSet(T) /\ \A e \in T : spent[e] \in Int /\ Cost[e] \in Int /\ spent[e] <= Cost[e]
    BY <1>1, Months DEF MonthDays
  <2>3. Sum(Cost, T)[T] <= MONTHLY_READ_LIMIT
    BY <1>2 DEF MonthCost
  <2> HIDE DEF T
  <2>4. Sum(spent, T)[T] \in Int /\ Sum(Cost, T)[T] \in Int /\ Sum(spent, T)[T] <= Sum(Cost, T)[T]
    BY <2>2, SumNoMore
  <2>5. Sum(spent, T)[T] <= MONTHLY_READ_LIMIT
    BY <2>3, <2>4 DEF Metered
  <2>6. Downloading!MapThenSumSet(LAMBDA e : spent[e], T) <= MONTHLY_READ_LIMIT
    BY <2>5, SumsTheReads, Zenon
  <2> QED BY <2>1, <2>6, Zenon
<1> QED BY <1>3, <1>4, Zenon DEF Downloading!ReadsAreMetered

\* A header that names bytes is answered with those that are there.
LEMMA RangeIsGiven == ASSUME Size \in Nat PROVE Downloading!GivesTheRange
<1> SUFFICES ASSUME NEW h \in Downloading!Header \ {Downloading!Whole}
             PROVE  LET part == Downloading!byteRange(h, Size) IN
                      {i \in 0 .. Size + 1 : part.offset =< i /\ i < part.offset + part.length} =
                      {i \in 0 .. Size - 1 : IF h.first = Downloading!NoLimit THEN i >= Size - h.last
                                             ELSE h.first =< i /\ (h.last # Downloading!NoLimit => i =< h.last)}
  BY DEF Downloading!GivesTheRange
<1> DEFINE a == h.first
           b == h.last
           part == Downloading!byteRange(h, Size)
           o == part.offset
           n == part.length
<1>1. /\ a \in Int /\ b \in Int /\ a >= -1 /\ b >= -1 /\ a <= Size /\ b <= Size + 1
      /\ ~(a = -1 /\ b = -1)
  BY DEF Downloading!Header, Downloading!Whole, Downloading!NoLimit
<1>2. /\ a = -1 /\ b = 0 => o = 0 /\ n = 0
      /\ a = -1 /\ b # 0 /\ b <= Size => o = Size - b /\ n = b
      /\ a = -1 /\ b # 0 /\ b > Size => o = 0 /\ n = Size
      /\ a # -1 /\ (a >= Size \/ (b # -1 /\ b < a)) => o = 0 /\ n = 0
      /\ a # -1 /\ a < Size /\ b = -1 => o = a /\ n = Size - a
      /\ a # -1 /\ a < Size /\ b # -1 /\ b >= a /\ b <= Size - 1 => o = a /\ n = b - a + 1
      /\ a # -1 /\ a < Size /\ b # -1 /\ b >= a /\ b > Size - 1 => o = a /\ n = Size - a
  BY <1>1 DEF Downloading!byteRange, Downloading!NoRange, Downloading!NoLimit, Downloading!Lesser
<1> HIDE DEF a, b, o, n
<1>3. \A i \in Int : /\ i \in 0 .. Size + 1 /\ o <= i /\ i < o + n
                     <=> /\ i \in 0 .. Size - 1
                         /\ IF a = -1 THEN i >= Size - b ELSE a <= i /\ (b # -1 => i <= b)
  BY <1>1, <1>2
<1>4. {i \in 0 .. Size + 1 : o <= i /\ i < o + n}
        = {i \in 0 .. Size - 1 : IF a = -1 THEN i >= Size - b ELSE a <= i /\ (b # -1 => i <= b)}
  BY <1>3
<1> QED BY <1>4 DEF a, b, o, n, Downloading!NoLimit

\* However often the clock is set forward and back, and whatever answers are lost, the
\* reads of the bucket stay within the limits of their day and of their month; and a
\* Range is answered with the bytes that it names.
THEOREM ReadsStayWithin ==
  ASSUME Metered, Size \in Nat
  PROVE  Spec => []ReadsAreMetered
<1>1. Init => MeterInv
  BY MeterStarts DEF Init
<1>2. MeterInv /\ [Next]_vars => MeterInv'
  BY PartSteps, MeterHolds
<1>3. MeterInv => ReadsAreMetered
  BY MeterSays, RangeIsGiven DEF ReadsAreMetered
<1> QED BY <1>1, <1>2, <1>3, PTL DEF Spec

-----------------------------------------------------------------------------
(* What a terminal shows of a line: its tokens, folded from the left.      *)

Clear == [pen |-> Inking!DefaultPen, columns |-> <<>>]
Folding(w, S, acts) == [s \in SUBSET S |-> IF s = {} THEN Clear
                                           ELSE Inking!Act(acts[s \ {Inking!Max(s)}], w[Inking!Max(s)])]
Fold(w, S) == CHOOSE acts : acts = Folding(w, S, acts)

LEMMA ScreenFolds == \A w : Inking!Screen(w) = Fold(w, DOMAIN w)[DOMAIN w]
BY Zenon DEF Inking!Screen, Inking!FoldLeft, Inking!MapThenFoldSet, Fold, Folding, Clear

\* Of positions there is a last one.
LEMMA LastOf ==
  ASSUME NEW n \in Nat, NEW s \in SUBSET (1 .. n), s # {}
  PROVE  Inking!Max(s) \in s /\ \A y \in s : Inking!Max(s) >= y
<1> DEFINE left == {n - x : x \in s}
<1>0. \A x \in s : x \in Nat /\ n - x \in Nat
  <2> TAKE x \in s
  <2>1. x \in 1 .. n
    OBVIOUS
  <2> QED BY <2>1
<1>1. left \subseteq Nat /\ left # {}
  BY <1>0
<1>2. PICK m \in left : \A k \in left : ~(<<k, m>> \in OpToRel(<, Nat))
  <2> HIDE DEF left
  <2> QED BY <1>1, NatLessThanWellFounded, WFMin
<1>3. \A k \in left : ~(k < m)
  BY <1>1, <1>2 DEF OpToRel
<1>4. PICK x \in s : m = n - x
  OBVIOUS
<1>5. \A y \in s : x >= y
  <2> TAKE y \in s
  <2>1. n - y \in left
    OBVIOUS
  <2>2. ~(n - y < n - x)
    BY <1>3, <1>4, <2>1
  <2> QED BY <1>0, <2>2
<1>6. \E z \in s : \A y \in s : z >= y
  BY <1>5
<1> QED BY <1>6, Zenon DEF Inking!Max

Folds(w, S, acts) ==
    \A s \in SUBSET S : /\ s = {} => acts[s] = Clear
                        /\ s # {} => acts[s] = Inking!Act(acts[s \ {Inking!Max(s)}], w[Inking!Max(s)])

\* The fold is one: acts on the subsets up to a size are acts on those up to the next.
LEMMA FoldIs ==
  ASSUME NEW w, NEW m \in Nat
  PROVE  Folds(w, 1 .. m, Fold(w, 1 .. m))
<1> DEFINE T == 1 .. m
           Low(n) == {s \in SUBSET T : Cardinality(s) <= n}
           Top(s) == Inking!Max(s)
           Has(n, g) == g = [s \in Low(n) |-> IF s = {} THEN Clear ELSE Inking!Act(g[s \ {Top(s)}], w[Top(s)])]
           bad == {n \in Nat : ~\E g : Has(n, g)}
<1>0. IsFiniteSet(T)
  BY FS_Interval
<1>1. \A s \in SUBSET T : IsFiniteSet(s) /\ Cardinality(s) \in Nat
  BY <1>0, FS_Subset, FS_CardinalityType
<1>2. \A s \in SUBSET T : s # {} => Top(s) \in s /\ Cardinality(s \ {Top(s)}) = Cardinality(s) - 1
  <2> TAKE s \in SUBSET T
  <2>1. s # {} => Top(s) \in s
    BY LastOf
  <2> HIDE DEF Top
  <2> QED BY <1>1, <2>1, FS_RemoveElement
<1> HIDE DEF Top, T
<1>3. \E g : Has(0, g)
  <2>1. \A s \in Low(0) : s = {}
    BY <1>1, FS_EmptySet
  <2> DEFINE g == [s \in Low(0) |-> Clear]
  <2>2. Has(0, g)
    BY <2>1
  <2> QED BY <2>2
<1>4. ASSUME NEW n \in Nat, NEW g, Has(n, g) PROVE \E h : Has(n + 1, h)
  <2> DEFINE h == [s \in Low(n + 1) |-> IF s = {} THEN Clear ELSE Inking!Act(g[s \ {Top(s)}], w[Top(s)])]
  <2>1. ASSUME NEW s \in Low(n + 1), s # {} PROVE h[s \ {Top(s)}] = g[s \ {Top(s)}]
    <3> DEFINE t == s \ {Top(s)}
    <3>1. t \in SUBSET T /\ Cardinality(t) <= n
      BY <1>1, <1>2, <2>1
    <3>2. t \in Low(n) /\ t \in Low(n + 1)
      BY <1>1, <3>1
    <3>3. g[t] = IF t = {} THEN Clear ELSE Inking!Act(g[t \ {Top(t)}], w[Top(t)])
      <4> HIDE DEF t, Low
      <4> QED BY <1>4, <3>2
    <3>4. h[t] = IF t = {} THEN Clear ELSE Inking!Act(g[t \ {Top(t)}], w[Top(t)])
      <4> HIDE DEF t, Low
      <4> QED BY <3>2
    <3> QED BY <3>3, <3>4
  <2>2. Has(n + 1, h)
    <3> HIDE DEF Low
    <3>1. [s \in Low(n + 1) |-> IF s = {} THEN Clear ELSE Inking!Act(g[s \ {Top(s)}], w[Top(s)])]
            = [s \in Low(n + 1) |-> IF s = {} THEN Clear ELSE Inking!Act(h[s \ {Top(s)}], w[Top(s)])]
      BY <2>1
    <3> QED BY <3>1
  <2> QED BY <2>2
<1>5. bad = {}
  <2> SUFFICES ASSUME bad # {} PROVE FALSE
    OBVIOUS
  <2>1. PICK n \in bad : \A k \in bad : ~(<<k, n>> \in OpToRel(<, Nat))
    <3>1. bad \subseteq Nat
      OBVIOUS
    <3> HIDE DEF bad
    <3> QED BY <3>1, NatLessThanWellFounded, WFMin
  <2>2. n \in Nat /\ n # 0 /\ n - 1 \in Nat
    <3> HIDE DEF Has
    <3>1. n \in Nat /\ ~\E g : Has(n, g)
      OBVIOUS
    <3>2. n # 0
      <4> HIDE DEF bad
      <4> QED BY <1>3, <3>1, Zenon
    <3> QED BY <3>1, <3>2
  <2>3. n - 1 \notin bad
    <3>1. <<n - 1, n>> \in OpToRel(<, Nat)
      BY <2>2 DEF OpToRel
    <3> HIDE DEF bad, Has
    <3> QED BY <2>1, <3>1, Zenon
  <2>4. \E g : Has(n - 1, g)
    <3> HIDE DEF Has
    <3> QED BY <2>2, <2>3
  <2>5. \E h : Has((n - 1) + 1, h)
    <3> HIDE DEF Has
    <3> QED BY <1>4, <2>2, <2>4
  <2>6. (n - 1) + 1 = n
    BY <2>2
  <2>7. \E h : Has(n, h)
    <3> HIDE DEF Has
    <3> QED BY <2>5, <2>6
  <2> QED BY <2>7
<1>6. Low(Cardinality(T)) = SUBSET T /\ Cardinality(T) \in Nat
  BY <1>0, FS_Subset, FS_CardinalityType
<1>7. PICK g : g = Folding(w, T, g)
  <2>1. \E g : Has(Cardinality(T), g)
    <3> HIDE DEF Has
    <3> QED BY <1>5, <1>6
  <2>2. PICK g : Has(Cardinality(T), g)
    BY <2>1
  <2>3. g = [s \in SUBSET T |-> IF s = {} THEN Clear ELSE Inking!Act(g[s \ {Top(s)}], w[Top(s)])]
    <3> HIDE DEF Low
    <3> QED BY <1>6, <2>2
  <2>4. g = Folding(w, T, g)
    BY <2>3, Zenon DEF Folding, Top
  <2> QED BY <2>4
<1>8. Fold(w, T) = Folding(w, T, Fold(w, T))
  BY <1>7, Zenon DEF Fold
<1> DEFINE acts == Fold(w, T)
<1> HIDE DEF acts
<1>9. acts = Folding(w, T, acts)
  BY <1>8, Zenon DEF acts
<1>10. \A s \in SUBSET T : acts[s] = IF s = {} THEN Clear ELSE Inking!Act(acts[s \ {Inking!Max(s)}], w[Inking!Max(s)])
  <2>1. acts = [s \in SUBSET T |-> IF s = {} THEN Clear ELSE Inking!Act(acts[s \ {Inking!Max(s)}], w[Inking!Max(s)])]
    BY <1>9, Zenon DEF Folding
  <2> QED BY <2>1
<1>11. Folds(w, T, acts)
  BY <1>10 DEF Folds
<1> QED BY <1>11, Zenon DEF acts, T

\* What is shown of a line with one token more.
LEMMA ScreenAppends ==
  ASSUME NEW S, NEW w \in Seq(S), NEW t \in S
  PROVE  Inking!Screen(Append(w, t)) = Inking!Act(Inking!Screen(w), t)
<1> DEFINE v == Append(w, t)
           n == Len(w)
           F == Fold(w, 1 .. n)
           G == Fold(v, 1 .. n + 1)
           bad == {k \in Nat : k <= n /\ G[1 .. k] # F[1 .. k]}
<1>1. n \in Nat /\ DOMAIN w = 1 .. n /\ DOMAIN v = 1 .. n + 1
  BY AppendProperties
<1>2. v[n + 1] = t /\ \A k \in 1 .. n : v[k] = w[k]
  BY AppendProperties
<1> HIDE DEF n, v
<1>3. Folds(w, 1 .. n, F) /\ Folds(v, 1 .. n + 1, G)
  BY <1>1, FoldIs
<1> HIDE DEF F, G
<1>4. \A k \in Nat : k # 0 => /\ Inking!Max(1 .. k) = k /\ (1 .. k) \ {k} = 1 .. k - 1 /\ 1 .. k # {}
  <2> TAKE k \in Nat
  <2> HAVE k # 0
  <2>0. \A x : x \in (1 .. k) \ {k} <=> x \in 1 .. k - 1
    OBVIOUS
  <2>1. 1 .. k # {} /\ k \in 1 .. k /\ (1 .. k) \ {k} = 1 .. k - 1
    <3>1. k \in 1 .. k
      OBVIOUS
    <3> QED BY <2>0, <3>1, Zenon
  <2>2. Inking!Max(1 .. k) \in 1 .. k /\ Inking!Max(1 .. k) >= k
    BY <2>1, LastOf
  <2> QED BY <2>1, <2>2
<1>5. \A k \in Nat : k # 0 /\ k <= n => F[1 .. k] = Inking!Act(F[1 .. k - 1], w[k]) /\ G[1 .. k] = Inking!Act(G[1 .. k - 1], w[k])
  <2> TAKE k \in Nat
  <2> HAVE k # 0 /\ k <= n
  <2>1. 1 .. k \in SUBSET (1 .. n) /\ 1 .. k \in SUBSET (1 .. n + 1) /\ k \in 1 .. n
    BY <1>1
  <2>2. F[1 .. k] = Inking!Act(F[1 .. k - 1], w[k])
    BY <1>3, <1>4, <2>1, Zenon DEF Folds
  <2>3. G[1 .. k] = Inking!Act(G[1 .. k - 1], v[k])
    BY <1>3, <1>4, <2>1, Zenon DEF Folds
  <2> QED BY <1>2, <2>1, <2>2, <2>3
<1>6. G[1 .. n + 1] = Inking!Act(G[1 .. n], t)
  <2>1. n + 1 \in Nat /\ n + 1 # 0 /\ 1 .. n + 1 \in SUBSET (1 .. n + 1) /\ (n + 1) - 1 = n
    BY <1>1
  <2>2. G[1 .. n + 1] = Inking!Act(G[1 .. (n + 1) - 1], v[n + 1])
    BY <1>3, <1>4, <2>1, Zenon DEF Folds
  <2> QED BY <1>2, <2>1, <2>2
<1>7. F[1 .. 0] = G[1 .. 0]
  <2>1. 1 .. 0 = {} /\ {} \in SUBSET (1 .. n) /\ {} \in SUBSET (1 .. n + 1)
    OBVIOUS
  <2>2. F[{}] = Clear /\ G[{}] = Clear
    BY <1>3, <2>1, Zenon DEF Folds
  <2> QED BY <2>1, <2>2
<1>8. bad = {}
  <2> SUFFICES ASSUME bad # {} PROVE FALSE
    OBVIOUS
  <2>1. PICK k \in bad : \A j \in bad : ~(<<j, k>> \in OpToRel(<, Nat))
    <3>1. bad \subseteq Nat
      OBVIOUS
    <3> HIDE DEF bad
    <3> QED BY <3>1, NatLessThanWellFounded, WFMin
  <2>2. k \in Nat /\ k <= n /\ k # 0 /\ k - 1 \in Nat /\ k - 1 <= n
    BY <1>1, <1>7
  <2>3. k - 1 \notin bad
    <3>1. <<k - 1, k>> \in OpToRel(<, Nat)
      BY <2>2 DEF OpToRel
    <3> HIDE DEF bad
    <3> QED BY <2>1, <3>1, Zenon
  <2>4. G[1 .. k - 1] = F[1 .. k - 1]
    BY <2>2, <2>3
  <2>5. G[1 .. k] = F[1 .. k]
    BY <1>5, <2>2, <2>4
  <2>6. G[1 .. k] # F[1 .. k]
    OBVIOUS
  <2> QED BY <2>5, <2>6
<1>9. G[1 .. n] = F[1 .. n]
  BY <1>1, <1>8
<1>10. Inking!Screen(w) = F[1 .. n] /\ Inking!Screen(v) = G[1 .. n + 1]
  BY <1>1, ScreenFolds, Zenon DEF F, G
<1>11. Inking!Screen(v) = Inking!Act(Inking!Screen(w), t)
  BY <1>6, <1>9, <1>10
<1> QED BY <1>11 DEF v

LEMMA ScreenOfNothing == Inking!Screen(<< >>) = Clear
<1>1. DOMAIN << >> = 1 .. 0 /\ 1 .. 0 = {} /\ 0 \in Nat
  OBVIOUS
<1>2. Folds(<< >>, 1 .. 0, Fold(<< >>, 1 .. 0))
  BY <1>1, FoldIs
<1>3. Fold(<< >>, 1 .. 0)[{}] = Clear
  BY <1>1, <1>2, Zenon DEF Folds
<1>4. Inking!Screen(<< >>) = Fold(<< >>, 1 .. 0)[1 .. 0]
  BY <1>1, ScreenFolds, Zenon
<1> QED BY <1>1, <1>3, <1>4

-----------------------------------------------------------------------------
(* The rows of the engine: a wide glyph has a blank after it.              *)

Styles == Pen \cup {"default"}
Cell == [text : {Inking!Blank, "a", "wide"}, sgr : Styles]
Short == {q \in Inking!Piece : Len(q) = 1}
Long == {q \in Inking!Piece : Len(q) = 2}
Lengthened(f, n) == IF n = 0 THEN {<<>>}
                    ELSE Inking!Longer(f[n - 1], 1) \cup (IF n = 1 THEN {} ELSE Inking!Longer(f[n - 2], 2))

LEMMA CellTexts == Inking!Blank # "wide" /\ Inking!Blank # "a" /\ Inking!Blank # "tail"
BY Zenon DEF Inking!Blank

LEMMA PieceShape ==
  /\ \A q \in Short : \E c \in Cell : q = <<c>> /\ c.text # "wide"
  /\ \A q \in Long : \E c \in Cell, d \in Cell : q = <<c, d>> /\ c.text = "wide" /\ d.text = Inking!Blank /\ d.sgr = c.sgr
<1>0. \A q \in Inking!Piece : \E p \in Styles :
         \/ q = <<[text |-> Inking!Blank, sgr |-> p]>>
         \/ q = <<[text |-> "a", sgr |-> p]>>
         \/ q = <<[text |-> "wide", sgr |-> p], [text |-> Inking!Blank, sgr |-> p]>>
  BY DEF Inking!Piece, Inking!DefaultPen, Styles
<1>1. ASSUME NEW q \in Short PROVE \E c \in Cell : q = <<c>> /\ c.text # "wide"
  <2>1. q \in Inking!Piece /\ Len(q) = 1
    BY Zenon DEF Short
  <2>2. PICK p \in Styles : \/ q = <<[text |-> Inking!Blank, sgr |-> p]>>
                            \/ q = <<[text |-> "a", sgr |-> p]>>
                            \/ q = <<[text |-> "wide", sgr |-> p], [text |-> Inking!Blank, sgr |-> p]>>
    BY <1>0, <2>1, Zenon
  <2>3. q # <<[text |-> "wide", sgr |-> p], [text |-> Inking!Blank, sgr |-> p]>>
    BY <2>1
  <2> QED BY <2>2, <2>3, CellTexts DEF Cell
<1>2. ASSUME NEW q \in Long
      PROVE \E c \in Cell, d \in Cell : q = <<c, d>> /\ c.text = "wide" /\ d.text = Inking!Blank /\ d.sgr = c.sgr
  <2>1. q \in Inking!Piece /\ Len(q) = 2
    BY Zenon DEF Long
  <2>2. PICK p \in Styles : \/ q = <<[text |-> Inking!Blank, sgr |-> p]>>
                            \/ q = <<[text |-> "a", sgr |-> p]>>
                            \/ q = <<[text |-> "wide", sgr |-> p], [text |-> Inking!Blank, sgr |-> p]>>
    BY <1>0, <2>1, Zenon
  <2>3. q = <<[text |-> "wide", sgr |-> p], [text |-> Inking!Blank, sgr |-> p]>>
    BY <2>1, <2>2
  <2> QED BY <2>3, CellTexts DEF Cell
<1> QED BY <1>1, <1>2, Zenon

LEMMA RowsGrow ==
  ASSUME Width \in Nat
  PROVE  \A n \in 0 .. Width : Inking!Rows[n] = Lengthened(Inking!Rows, n)
<1> DEFINE Has(m, g) == g = [n \in 0 .. m |-> Lengthened(g, n)]
           bad == {m \in Nat : ~\E g : Has(m, g)}
<1>1. \E g : Has(0, g)
  <2> DEFINE g == [n \in 0 .. 0 |-> {<<>>}]
  <2>1. Has(0, g)
    <3>1. \A n \in 0 .. 0 : Lengthened(g, n) = {<<>>}
      BY DEF Lengthened
    <3> QED BY <3>1
  <2> QED BY <2>1
<1>2. ASSUME NEW m \in Nat, NEW g, Has(m, g) PROVE \E h : Has(m + 1, h)
  <2> DEFINE h == [n \in 0 .. m + 1 |-> Lengthened(g, n)]
  <2>1. \A n \in 0 .. m : h[n] = g[n]
    <3> TAKE n \in 0 .. m
    <3>1. n \in 0 .. m + 1
      OBVIOUS
    <3>2. g[n] = Lengthened(g, n)
      <4> HIDE DEF h
      <4> QED BY <1>2
    <3> QED BY <3>1, <3>2
  <2> HIDE DEF h
  <2>2. ASSUME NEW n \in 0 .. m + 1 PROVE Lengthened(g, n) = Lengthened(h, n)
    <3>1. n # 0 => n - 1 \in 0 .. m
      BY <2>2
    <3>2. n # 0 /\ n # 1 => n - 2 \in 0 .. m
      BY <2>2
    <3>3. n # 0 => h[n - 1] = g[n - 1]
      BY <2>1, <3>1
    <3>4. n # 0 /\ n # 1 => h[n - 2] = g[n - 2]
      BY <2>1, <3>2
    <3> QED BY <3>3, <3>4, Zenon DEF Lengthened
  <2>3. h = [n \in 0 .. m + 1 |-> Lengthened(h, n)]
    <3>1. h = [n \in 0 .. m + 1 |-> Lengthened(g, n)]
      BY Zenon DEF h
    <3> QED BY <2>2, <3>1
  <2> QED BY <2>3
<1>3. bad = {}
  <2> SUFFICES ASSUME bad # {} PROVE FALSE
    OBVIOUS
  <2>1. PICK n \in bad : \A k \in bad : ~(<<k, n>> \in OpToRel(<, Nat))
    <3>1. bad \subseteq Nat
      OBVIOUS
    <3> HIDE DEF bad
    <3> QED BY <3>1, NatLessThanWellFounded, WFMin
  <2>2. n \in Nat /\ n # 0 /\ n - 1 \in Nat
    <3> HIDE DEF Has
    <3>1. n \in Nat /\ ~\E g : Has(n, g)
      OBVIOUS
    <3>2. n # 0
      <4> HIDE DEF bad
      <4> QED BY <1>1, <3>1, Zenon
    <3> QED BY <3>1, <3>2
  <2>3. n - 1 \notin bad
    <3>1. <<n - 1, n>> \in OpToRel(<, Nat)
      BY <2>2 DEF OpToRel
    <3> HIDE DEF bad, Has
    <3> QED BY <2>1, <3>1, Zenon
  <2>4. \E g : Has(n - 1, g)
    <3> HIDE DEF Has
    <3> QED BY <2>2, <2>3
  <2>5. \E h : Has((n - 1) + 1, h)
    <3> HIDE DEF Has
    <3> QED BY <1>2, <2>2, <2>4
  <2>6. (n - 1) + 1 = n
    BY <2>2
  <2>7. \E h : Has(n, h)
    <3> HIDE DEF Has
    <3> QED BY <2>5, <2>6
  <2> QED BY <2>7
<1>4. PICK g : Has(Width, g)
  <2> HIDE DEF Has
  <2> QED BY <1>3
<1>5. Inking!Rows = CHOOSE f : Has(Width, f)
  BY Zenon DEF Inking!Rows, Lengthened
<1>6. Has(Width, Inking!Rows)
  <2> HIDE DEF Has
  <2> QED BY <1>4, <1>5, Zenon
<1> QED BY <1>6

RowShape(r, n) ==
    /\ r \in Seq(Cell) /\ Len(r) = n
    /\ \A i \in 1 .. n : r[i].text = "wide" => i < n /\ r[i + 1].text = Inking!Blank /\ r[i + 1].sgr = r[i].sgr

LEMMA RowsAre ==
  ASSUME Width \in Nat
  PROVE  \A n \in 0 .. Width : \A r \in Inking!Rows[n] : RowShape(r, n)
<1> DEFINE bad == {n \in Nat : n <= Width /\ \E r \in Inking!Rows[n] : ~RowShape(r, n)}
<1>1. bad = {}
  <2> SUFFICES ASSUME bad # {} PROVE FALSE
    OBVIOUS
  <2>1. PICK n \in bad : \A k \in bad : ~(<<k, n>> \in OpToRel(<, Nat))
    <3>1. bad \subseteq Nat
      OBVIOUS
    <3> HIDE DEF bad
    <3> QED BY <3>1, NatLessThanWellFounded, WFMin
  <2>2. n \in Nat /\ n <= Width /\ n \in 0 .. Width
    OBVIOUS
  <2>3. PICK s \in Inking!Rows[n] : ~RowShape(s, n)
    OBVIOUS
  <2>4. \A k \in Nat : k < n => k \notin bad
    <3> TAKE k \in Nat
    <3> HAVE k < n
    <3>1. <<k, n>> \in OpToRel(<, Nat)
      BY <2>2 DEF OpToRel
    <3> HIDE DEF bad
    <3> QED BY <2>1, <3>1, Zenon
  <2>5. \A k \in Nat : k < n => \A r \in Inking!Rows[k] : RowShape(r, k)
    BY <2>2, <2>4
  <2> HIDE DEF bad
  <2>6. s \in Lengthened(Inking!Rows, n)
    BY <2>2, <2>3, RowsGrow, Zenon
  <2>7. CASE n = 0
    <3>1. s = << >>
      BY <2>6, <2>7, Zenon DEF Lengthened
    <3>2. RowShape(s, 0)
      BY <3>1 DEF RowShape
    <3> QED BY <2>3, <2>7, <3>2, Zenon
  <2>8. CASE n # 0 /\ \E r \in Inking!Rows[n - 1], p \in Short : s = r \o p
    <3>1. PICK r \in Inking!Rows[n - 1], p \in Short : s = r \o p
      BY <2>8, Zenon
    <3>2. RowShape(r, n - 1)
      BY <2>2, <2>5, <2>8
    <3>3. PICK c \in Cell : p = <<c>> /\ c.text # "wide"
      BY PieceShape, Zenon
    <3>4. r \in Seq(Cell) /\ Len(r) = n - 1 /\ <<c>> \in Seq(Cell) /\ Len(<<c>>) = 1 /\ <<c>>[1] = c
      BY <3>2 DEF RowShape
    <3>5. s \in Seq(Cell) /\ Len(s) = n
      BY <2>2, <3>1, <3>3, <3>4, ConcatProperties
    <3>6. s[n] = c /\ \A i \in 1 .. n - 1 : s[i] = r[i]
      BY <2>2, <2>8, <3>1, <3>3, <3>4
    <3>7. \A i \in 1 .. n : s[i].text = "wide" => i < n /\ s[i + 1].text = Inking!Blank /\ s[i + 1].sgr = s[i].sgr
      <4> TAKE i \in 1 .. n
      <4> HAVE s[i].text = "wide"
      <4>1. i # n
        BY <3>3, <3>6
      <4>2. i \in 1 .. n - 1
        BY <2>2, <4>1
      <4>3. i < n - 1 /\ r[i + 1].text = Inking!Blank /\ r[i + 1].sgr = r[i].sgr
        BY <3>2, <3>6, <4>2 DEF RowShape
      <4>4. i + 1 \in 1 .. n - 1
        BY <2>2, <4>2, <4>3
      <4> QED BY <2>2, <3>6, <4>2, <4>3, <4>4
    <3>8. RowShape(s, n)
      BY <3>5, <3>7, Zenon DEF RowShape
    <3> QED BY <2>3, <3>8
  <2>9. CASE n # 0 /\ n # 1 /\ \E r \in Inking!Rows[n - 2], p \in Long : s = r \o p
    <3>1. PICK r \in Inking!Rows[n - 2], p \in Long : s = r \o p
      BY <2>9, Zenon
    <3>0. n - 2 \in Nat /\ n - 2 < n
      BY <2>2, <2>9
    <3>2. RowShape(r, n - 2)
      BY <2>5, <3>0
    <3>3. PICK c \in Cell, d \in Cell : p = <<c, d>> /\ c.text = "wide" /\ d.text = Inking!Blank /\ d.sgr = c.sgr
      BY PieceShape, Zenon
    <3>4. r \in Seq(Cell) /\ Len(r) = n - 2 /\ <<c, d>> \in Seq(Cell) /\ Len(<<c, d>>) = 2 /\ <<c, d>>[1] = c /\ <<c, d>>[2] = d
      BY <3>2 DEF RowShape
    <3>5. s \in Seq(Cell) /\ Len(s) = n
      BY <2>2, <3>1, <3>3, <3>4, ConcatProperties
    <3>6. s[n - 1] = c /\ s[n] = d /\ \A i \in 1 .. n - 2 : s[i] = r[i]
      <4> DEFINE q == <<c, d>>
      <4>1. s = r \o q /\ q \in Seq(Cell) /\ Len(q) = 2 /\ q[1] = c /\ q[2] = d
        BY <3>1, <3>3, <3>4
      <4> HIDE DEF q
      <4>2. /\ \A i \in 1 .. Len(r) : s[i] = r[i]
            /\ \A i \in Len(r) + 1 .. Len(r) + Len(q) : s[i] = q[i - Len(r)]
        BY <3>4, <4>1, ConcatProperties
      <4>3. n - 1 \in Len(r) + 1 .. Len(r) + Len(q) /\ n \in Len(r) + 1 .. Len(r) + Len(q) /\ (n - 1) - Len(r) = 1 /\ n - Len(r) = 2
        BY <2>2, <3>4, <4>1
      <4> QED BY <3>4, <4>1, <4>2, <4>3
    <3>7. \A i \in 1 .. n : s[i].text = "wide" => i < n /\ s[i + 1].text = Inking!Blank /\ s[i + 1].sgr = s[i].sgr
      <4> TAKE i \in 1 .. n
      <4> HAVE s[i].text = "wide"
      <4>1. i # n
        BY <3>3, <3>6, CellTexts
      <4>2. CASE i = n - 1
        <5>1. i + 1 = n /\ i < n
          BY <2>2, <4>2
        <5> QED BY <3>3, <3>6, <4>2, <5>1
      <4>3. CASE i # n - 1
        <5>1. i \in 1 .. n - 2
          BY <2>2, <4>1, <4>3
        <5>2. i < n - 2 /\ r[i + 1].text = Inking!Blank /\ r[i + 1].sgr = r[i].sgr
          BY <3>2, <3>6, <5>1 DEF RowShape
        <5>3. i + 1 \in 1 .. n - 2
          BY <2>2, <5>1, <5>2
        <5> QED BY <2>2, <3>6, <5>1, <5>2, <5>3
      <4> QED BY <4>2, <4>3
    <3>8. RowShape(s, n)
      BY <3>5, <3>7, Zenon DEF RowShape
    <3> QED BY <2>3, <3>8
  <2>10. n # 0 => s \in Inking!Longer(Inking!Rows[n - 1], 1) \/ (n # 1 /\ s \in Inking!Longer(Inking!Rows[n - 2], 2))
    BY <2>6 DEF Lengthened
  <2>11. n # 0 /\ s \in Inking!Longer(Inking!Rows[n - 1], 1) => \E r \in Inking!Rows[n - 1], p \in Short : s = r \o p
    BY DEF Inking!Longer, Short
  <2>12. n # 1 /\ s \in Inking!Longer(Inking!Rows[n - 2], 2) => \E r \in Inking!Rows[n - 2], p \in Long : s = r \o p
    BY DEF Inking!Longer, Long
  <2> QED BY <2>7, <2>8, <2>9, <2>10, <2>11, <2>12, Zenon
<1> QED BY <1>1

-----------------------------------------------------------------------------
(* What is written of a row.                                               *)

Ink(x) == [op |-> "ink", text |-> x]
Token == {Inking!Reset} \cup {Inking!Open(p) : p \in Styles} \cup
         UNION {{Inking!Put(t), Ink(t)} : t \in {Inking!Blank, "a", "wide"}}

LEMMA TokensAre ==
  /\ Inking!Reset \in Token
  /\ \A p \in Styles : Inking!Open(p) \in Token
  /\ \A c \in Cell : Inking!Put(c.text) \in Token /\ Ink(c.text) \in Token
<1>1. Inking!Reset \in Token
  BY Zenon DEF Token
<1>2. \A p \in Styles : Inking!Open(p) \in Token
  BY Zenon DEF Token
<1>3. ASSUME NEW c \in Cell PROVE Inking!Put(c.text) \in Token /\ Ink(c.text) \in Token
  <2>1. c.text \in {Inking!Blank, "a", "wide"}
    BY DEF Cell
  <2> QED BY <2>1, Zenon DEF Token
<1> QED BY <1>1, <1>2, <1>3, Zenon

\* What one token does to what is shown.
LEMMA ResetActs ==
  \A screen, p, shown : screen = [pen |-> p, columns |-> shown]
     => Inking!Act(screen, Inking!Reset) = [pen |-> "default", columns |-> shown]
BY DEF Inking!Act, Inking!Reset, Inking!DefaultPen

LEMMA OpenActs ==
  \A screen, p, shown, x : screen = [pen |-> p, columns |-> shown]
     => Inking!Act(screen, Inking!Open(x)) = [pen |-> x, columns |-> shown]
BY DEF Inking!Act, Inking!Open

LEMMA PutActs ==
  \A screen, p, shown, x : screen = [pen |-> p, columns |-> shown]
     => Inking!Act(screen, Inking!Put(x)) = [pen |-> p, columns |-> shown \o Inking!Shown(x, p)]
<1>1. \A p, shown, x : Inking!Act([pen |-> p, columns |-> shown], Inking!Put(x))
                         = [pen |-> p, columns |-> shown \o Inking!Shown(x, p)]
  BY DEF Inking!Act, Inking!Put
<1> QED BY <1>1, Zenon

LEMMA InkActs ==
  \A screen, x : Inking!Act(screen, Ink(x)) = [pen |-> "default", columns |-> screen.columns \o Inking!Shown(x, "ink")]
BY DEF Inking!Act, Inking!DefaultPen, Ink

\* Several tokens are written one after the other.
LEMMA TokensFollow ==
  ASSUME NEW w \in Seq(Token), NEW a \in Token, NEW b \in Token, NEW c \in Token
  PROVE  /\ (w \o << >>) \o <<a>> = Append(w, a)
         /\ w \o <<a, b>> = Append(Append(w, a), b)
         /\ (w \o <<a>>) \o <<b>> = Append(Append(w, a), b)
         /\ (w \o <<a, b>>) \o <<c>> = Append(Append(Append(w, a), b), c)
         /\ Append(w, a) \in Seq(Token) /\ Append(Append(w, a), b) \in Seq(Token)
         /\ Append(Append(Append(w, a), b), c) \in Seq(Token)
OBVIOUS

\* One sequence after another.
LEMMA Concats ==
  ASSUME NEW S, NEW u \in Seq(S), NEW v \in Seq(S)
  PROVE  /\ u \o v \in Seq(S) /\ Len(u \o v) = Len(u) + Len(v)
         /\ \A i \in 1 .. Len(u) : (u \o v)[i] = u[i]
         /\ \A i \in 1 .. Len(v) : (u \o v)[Len(u) + i] = v[i]
OBVIOUS

\* The columns of a row up to one of them, as they are meant to be.
Columns(k) == [n \in 1 .. k |-> Inking!Meant(n)]

LEMMA ColumnsGrow ==
  ASSUME NEW k \in Nat
  PROVE  /\ Columns(k) \o <<Inking!Meant(k + 1)>> = Columns(k + 1)
         /\ Columns(k) \o <<Inking!Meant(k + 1), Inking!Meant(k + 2)>> = Columns(k + 2)
<1> DEFINE S == {Inking!Meant(n) : n \in Nat}
           f == Columns(k)
           g == <<Inking!Meant(k + 1)>>
           h == <<Inking!Meant(k + 1), Inking!Meant(k + 2)>>
<1>1. f \in Seq(S) /\ Len(f) = k /\ \A n \in 1 .. k : f[n] = Inking!Meant(n)
  BY DEF Columns
<1>2. g \in Seq(S) /\ Len(g) = 1 /\ g[1] = Inking!Meant(k + 1)
  OBVIOUS
<1>3. h \in Seq(S) /\ Len(h) = 2 /\ h[1] = Inking!Meant(k + 1) /\ h[2] = Inking!Meant(k + 2)
  OBVIOUS
<1>4. Columns(k + 1) \in Seq(S) /\ Len(Columns(k + 1)) = k + 1 /\ \A n \in 1 .. k + 1 : Columns(k + 1)[n] = Inking!Meant(n)
  BY DEF Columns
<1>5. Columns(k + 2) \in Seq(S) /\ Len(Columns(k + 2)) = k + 2 /\ \A n \in 1 .. k + 2 : Columns(k + 2)[n] = Inking!Meant(n)
  BY DEF Columns
<1> HIDE DEF S, f, g, h
<1>6. f \o g = Columns(k + 1)
  <2>1. /\ f \o g \in Seq(S) /\ Len(f \o g) = k + 1
        /\ \A i \in 1 .. k : (f \o g)[i] = f[i]
        /\ (f \o g)[k + 1] = g[1]
    <3>1. f \in Seq(S) /\ g \in Seq(S)
      BY <1>1, <1>2, Zenon
    <3>2. /\ f \o g \in Seq(S) /\ Len(f \o g) = Len(f) + Len(g)
          /\ \A i \in 1 .. Len(f) : (f \o g)[i] = f[i]
          /\ \A i \in 1 .. Len(g) : (f \o g)[Len(f) + i] = g[i]
      BY <3>1, Concats
    <3>3. \A i \in 1 .. 1 : (f \o g)[k + i] = g[i]
      BY <1>1, <1>2, <3>2
    <3> QED BY <1>1, <1>2, <3>2, <3>3
  <2>2. \A i \in 1 .. k + 1 : (f \o g)[i] = Columns(k + 1)[i]
    <3> TAKE i \in 1 .. k + 1
    <3>1. i \in 1 .. k \/ i = k + 1
      OBVIOUS
    <3> QED BY <1>1, <1>2, <1>4, <2>1, <3>1
  <2> QED BY <1>4, <2>1, <2>2, SeqEqual
<1>7. f \o h = Columns(k + 2)
  <2>1. /\ f \o h \in Seq(S) /\ Len(f \o h) = k + 2
        /\ \A i \in 1 .. k : (f \o h)[i] = f[i]
        /\ (f \o h)[k + 1] = h[1] /\ (f \o h)[k + 2] = h[2]
    <3>1. f \in Seq(S) /\ h \in Seq(S)
      BY <1>1, <1>3, Zenon
    <3>2. /\ f \o h \in Seq(S) /\ Len(f \o h) = Len(f) + Len(h)
          /\ \A i \in 1 .. Len(f) : (f \o h)[i] = f[i]
          /\ \A i \in 1 .. Len(h) : (f \o h)[Len(f) + i] = h[i]
      BY <3>1, Concats
    <3>3. \A i \in 1 .. 2 : (f \o h)[k + i] = h[i]
      BY <1>1, <1>3, <3>2
    <3> QED BY <1>1, <1>3, <3>2, <3>3
  <2>2. \A i \in 1 .. k + 2 : (f \o h)[i] = Columns(k + 2)[i]
    <3> TAKE i \in 1 .. k + 2
    <3>1. i \in 1 .. k \/ i = k + 1 \/ i = k + 2
      OBVIOUS
    <3> QED BY <1>1, <1>3, <1>5, <2>1, <3>1
  <2> QED BY <1>5, <2>1, <2>2, SeqEqual
<1> QED BY <1>6, <1>7 DEF f, g, h

\* What has been written is the row up to the column, in the pen that is open; a wide
\* glyph is written with its tail, and its second cell is still to be passed over.
CellsInv ==
    /\ RowShape(row, Width) /\ where \in Nat
    /\ next \in 1 .. Width + 1 /\ column \in 0 .. Width
    /\ pendingWide \in BOOLEAN /\ finished \in BOOLEAN
    /\ line \in Seq(Token) /\ pen \in Styles
    /\ pendingWide => next > 1 /\ next <= Width /\ row[next - 1].text = "wide" /\ column = next
    /\ ~pendingWide => column = next - 1 /\ (next # 1 => row[next - 1].text # "wide")
    /\ ~finished => Inking!Screen(line) = [pen |-> pen, columns |-> Columns(column)]
    /\ finished => Inking!Screen(line) = [pen |-> "default", columns |-> Columns(Width)]

LEMMA CellsStart ==
  ASSUME Width \in Nat, Inking!CellsInit
  PROVE  CellsInv
<1>1. RowShape(row, Width)
  <2>1. Width \in 0 .. Width
    OBVIOUS
  <2>2. row \in Inking!Rows[Width]
    BY Zenon DEF Inking!CellsInit
  <2> QED BY <2>1, <2>2, RowsAre
<1>2. where \in Nat /\ next = 1 /\ line = <<>> /\ pen = "default" /\ column = 0 /\ pendingWide = FALSE /\ finished = FALSE
  BY DEF Inking!CellsInit, Inking!DefaultPen
<1>3. Inking!Screen(line) = [pen |-> pen, columns |-> Columns(column)]
  <2>1. Columns(0) = << >>
    BY DEF Columns
  <2>2. Inking!Screen(<< >>) = [pen |-> "default", columns |-> <<>>]
    BY ScreenOfNothing DEF Clear, Inking!DefaultPen
  <2> QED BY <1>2, <2>1, <2>2
<1>4. line \in Seq(Token) /\ pen \in Styles /\ next \in 1 .. Width + 1 /\ column \in 0 .. Width
  BY <1>2 DEF Styles
<1>5. /\ pendingWide \in BOOLEAN /\ finished \in BOOLEAN /\ ~pendingWide /\ ~finished
      /\ column = next - 1 /\ (next # 1 => row[next - 1].text # "wide")
  <2>1. column = next - 1 /\ (next # 1 => row[next - 1].text # "wide")
    BY <1>2
  <2> QED BY <1>2, <2>1, Zenon
<1> QED BY <1>1, <1>2, <1>3, <1>4, <1>5, Zenon DEF CellsInv

\* The second cell of a wide glyph has been shown with the first.
LEMMA SecondPassed ==
  ASSUME Width \in Nat, CellsInv, Inking!SecondCell
  PROVE  CellsInv'
<1>1. pendingWide /\ row[next].text = Inking!Blank /\ ~finished /\ next <= Len(row)
  BY DEF Inking!SecondCell, Inking!More
<1>2. /\ pendingWide' = FALSE /\ next' = next + 1
      /\ UNCHANGED <<row, where, inkAt, line, pen, column, finished>>
  BY DEF Inking!SecondCell
<1>3. Columns(column)' = Columns(column)
  BY <1>2 DEF Columns, Inking!Meant, Inking!Inked, Inking!Ink
<1>4. (Inking!Screen(line))' = Inking!Screen(line)
  BY <1>2 DEF Inking!Screen
<1>5. pendingWide /\ ~finished => next > 1 /\ next <= Width /\ column = next /\ next \in Nat
  BY DEF CellsInv
<1>6. next' \in 1 .. Width + 1 /\ column' = next' - 1 /\ row'[next' - 1].text # "wide"
  BY <1>1, <1>2, <1>5, CellTexts
<1>7. RowShape(row, Width)' /\ (where \in Nat)' /\ (column \in 0 .. Width)' /\ (line \in Seq(Token))' /\ (pen \in Styles)'
  BY <1>2 DEF CellsInv, RowShape
<1>8. (Inking!Screen(line) = [pen |-> pen, columns |-> Columns(column)])'
  BY <1>1, <1>2, <1>3, <1>4 DEF CellsInv
<1>9. (pendingWide \in BOOLEAN)' /\ (finished \in BOOLEAN)' /\ ~pendingWide' /\ ~finished'
  <2>1. finished' = finished /\ pendingWide' = FALSE
    BY <1>2
  <2>2. finished = FALSE
    BY <1>1, Zenon DEF CellsInv
  <2>3. finished' = FALSE
    BY <2>1, <2>2, Zenon
  <2> QED BY <2>1, <2>3, Zenon
<1> QED BY <1>6, <1>7, <1>8, <1>9, Zenon DEF CellsInv

\* What is meant where the next cell is written.
LEMMA CellIsMeant ==
  ASSUME Width \in Nat, ~Colourless, CellsInv, next \in 1 .. Width, ~pendingWide, NEW q,
         q = IF Inking!UnderCursor THEN "ink" ELSE row[next].sgr
  PROVE  /\ Inking!Meant(next) = [text |-> row[next].text, pen |-> q]
         /\ row[next].text = "wide" => Inking!Meant(next + 1) = [text |-> "tail", pen |-> q]
<1>1. column = next - 1 /\ (next # 1 => row[next - 1].text # "wide") /\ where \in Nat
  BY DEF CellsInv
<1>2. Inking!UnderCursor <=> Inking!Inked(next)
  BY <1>1 DEF Inking!UnderCursor, Inking!Inked
<1>3. Inking!Ink(row[next].text).text = row[next].text
  BY DEF Inking!Ink
<1>4. Inking!Meant(next) = [text |-> row[next].text, pen |-> q]
  BY <1>1, <1>2, <1>3 DEF Inking!Meant
<1>5. ASSUME row[next].text = "wide"
      PROVE  Inking!Meant(next + 1) = [text |-> "tail", pen |-> q]
  <2>1. row[next + 1].text = Inking!Blank /\ row[next + 1].sgr = row[next].sgr
    BY <1>5 DEF CellsInv, RowShape
  <2>2. next + 1 > 1 /\ (next + 1) - 1 = next
    OBVIOUS
  <2> QED BY <1>2, <1>5, <2>1, <2>2 DEF Inking!Meant
<1> QED BY <1>4, <1>5

\* A cell is written as it is meant.
LEMMA CellWritten ==
  ASSUME Width \in Nat, ~Colourless, CellsInv, Inking!Draw
  PROVE  CellsInv'
<1> DEFINE c == row[next]
           q == IF Inking!UnderCursor THEN "ink" ELSE c.sgr
           wide == Inking!WidthOf(c.text)
<1>1. ~finished /\ column < Width /\ next <= Len(row) /\ ~(pendingWide /\ c.text = Inking!Blank)
  BY DEF Inking!Draw, Inking!More
<1>2. /\ next' = next + 1 /\ UNCHANGED <<row, where, inkAt, finished>>
      /\ pendingWide' = (wide > 1)
  BY DEF Inking!Draw
<1>3. next \in 1 .. Width /\ c \in Cell /\ next \in Nat
  BY <1>1 DEF CellsInv, RowShape
<1>4. ~pendingWide
  <2> SUFFICES ASSUME pendingWide PROVE FALSE
    OBVIOUS
  <2>1. next > 1 /\ row[next - 1].text = "wide"
    BY DEF CellsInv
  <2>2. next - 1 \in 1 .. Width /\ (next - 1) + 1 = next
    BY <1>3, <2>1
  <2>3. c.text = Inking!Blank
    BY <2>1, <2>2 DEF CellsInv, RowShape
  <2> QED BY <1>1, <2>3
<1>5. column = next - 1 /\ column \in Nat /\ column + 1 = next
  BY <1>3, <1>4 DEF CellsInv
<1>6. /\ Inking!Meant(next) = [text |-> c.text, pen |-> q]
      /\ c.text = "wide" => Inking!Meant(next + 1) = [text |-> "tail", pen |-> q]
  BY <1>3, <1>4, CellIsMeant
<1>7. Columns(column) \o Inking!Shown(c.text, q) = Columns(column + wide)
  <2>1. /\ Columns(column) \o <<Inking!Meant(column + 1)>> = Columns(column + 1)
        /\ Columns(column) \o <<Inking!Meant(column + 1), Inking!Meant(column + 2)>> = Columns(column + 2)
    BY <1>5, ColumnsGrow
  <2>2. column + 1 = next /\ column + 2 = next + 1
    BY <1>3, <1>5
  <2>3. CASE c.text = "wide"
    <3>1. wide = 2 /\ Inking!Shown(c.text, q) = <<Inking!Meant(next), Inking!Meant(next + 1)>>
      <4> HIDE DEF c, q
      <4> QED BY <1>6, <2>3 DEF Inking!WidthOf, Inking!Shown
    <3> HIDE DEF c, q, wide
    <3> QED BY <2>1, <2>2, <3>1
  <2>4. CASE c.text # "wide"
    <3>1. wide = 1 /\ Inking!Shown(c.text, q) = <<Inking!Meant(next)>>
      <4> HIDE DEF c, q
      <4> QED BY <1>6, <2>4 DEF Inking!WidthOf, Inking!Shown
    <3> HIDE DEF c, q, wide
    <3> QED BY <2>1, <2>2, <3>1
  <2> QED BY <2>3, <2>4
<1>8. Inking!Screen(line) = [pen |-> pen, columns |-> Columns(column)] /\ line \in Seq(Token) /\ pen \in Styles
  BY <1>1 DEF CellsInv
<1>9. c.sgr \in Styles /\ Inking!DefaultPen = "default" /\ "default" \in Styles
  BY <1>3 DEF Cell, Styles, Inking!DefaultPen
<1>10. /\ line' \in Seq(Token) /\ pen' \in Styles /\ column' = column + wide
       /\ Inking!Screen(line') = [pen |-> pen', columns |-> Columns(column) \o Inking!Shown(c.text, q)]
  <2> DEFINE put == Inking!Put(c.text)
             ink == Ink(c.text)
             open == Inking!Open(c.sgr)
             was == Columns(column)
  <2>0. Inking!Reset \in Token /\ put \in Token /\ ink \in Token /\ open \in Token
    BY <1>3, <1>9, TokensAre
  <2>1. CASE Inking!UnderCursor
    <3>1. /\ line' = line \o <<Inking!Reset, Inking!Ink(c.text)>> /\ pen' = "default" /\ column' = column + wide
      BY <2>1 DEF Inking!Draw, Inking!DrawCursor, Inking!DefaultPen
    <3>2. Inking!Ink(c.text) = ink /\ q = "ink"
      BY <2>1 DEF Inking!Ink, Ink
    <3> HIDE DEF c, put, ink, open, q, wide, was
    <3>3. line' = Append(Append(line, Inking!Reset), ink) /\ Append(line, Inking!Reset) \in Seq(Token) /\ line' \in Seq(Token)
      BY <1>8, <2>0, <3>1, <3>2, TokensFollow
    <3>4. Inking!Screen(Append(line, Inking!Reset)) = [pen |-> "default", columns |-> was]
      <4>1. Inking!Screen(Append(line, Inking!Reset)) = Inking!Act(Inking!Screen(line), Inking!Reset)
        BY <1>8, <2>0, ScreenAppends
      <4>2. Inking!Screen(line) = [pen |-> pen, columns |-> was]
        BY <1>8 DEF was
      <4> QED BY <4>1, <4>2, ResetActs, Zenon
    <3>5. Inking!Screen(line') = [pen |-> "default", columns |-> was \o Inking!Shown(c.text, "ink")]
      <4>1. Inking!Screen(line') = Inking!Act(Inking!Screen(Append(line, Inking!Reset)), Ink(c.text))
        BY <2>0, <3>3, ScreenAppends DEF ink
      <4>2. Inking!Act(Inking!Screen(Append(line, Inking!Reset)), Ink(c.text))
              = [pen |-> "default", columns |-> was \o Inking!Shown(c.text, "ink")]
        <5>1. Inking!Screen(Append(line, Inking!Reset)).columns = was
          BY <3>4
        <5> QED BY <5>1, InkActs, Zenon
      <4> QED BY <4>1, <4>2, Zenon
    <3> QED BY <1>9, <3>1, <3>2, <3>3, <3>5 DEF was
  <2>2. CASE ~Inking!UnderCursor
    <3>1. /\ line' = line \o (IF c.sgr = pen THEN <<>> ELSE IF c.sgr = "default" THEN <<Inking!Reset>> ELSE <<Inking!Reset, open>>) \o <<put>>
          /\ pen' = c.sgr /\ column' = column + wide
      BY <2>2 DEF Inking!Draw, Inking!DrawText, Inking!DefaultPen
    <3>2. q = c.sgr
      BY <2>2
    <3> HIDE DEF c, put, open, q, wide, was
    <3>3. PICK w \in Seq(Token) : line' = Append(w, put) /\ Inking!Screen(w) = [pen |-> c.sgr, columns |-> was]
      <4>0. Inking!Screen(line) = [pen |-> pen, columns |-> was]
        BY <1>8 DEF was
      <4>1. /\ Append(line, Inking!Reset) \in Seq(Token) /\ Append(Append(line, Inking!Reset), open) \in Seq(Token)
            /\ (line \o << >>) \o <<put>> = Append(line, put)
            /\ (line \o <<Inking!Reset>>) \o <<put>> = Append(Append(line, Inking!Reset), put)
            /\ (line \o <<Inking!Reset, open>>) \o <<put>> = Append(Append(Append(line, Inking!Reset), open), put)
        BY <1>8, <2>0, TokensFollow
      <4>2. Inking!Screen(Append(line, Inking!Reset)) = [pen |-> "default", columns |-> was]
        <5>1. Inking!Screen(Append(line, Inking!Reset)) = Inking!Act(Inking!Screen(line), Inking!Reset)
          BY <1>8, <2>0, ScreenAppends
        <5> QED BY <4>0, <5>1, ResetActs, Zenon
      <4>3. Inking!Screen(Append(Append(line, Inking!Reset), open)) = [pen |-> c.sgr, columns |-> was]
        <5>1. Inking!Screen(Append(Append(line, Inking!Reset), open)) = Inking!Act(Inking!Screen(Append(line, Inking!Reset)), Inking!Open(c.sgr))
          BY <4>1, <2>0, ScreenAppends DEF open
        <5>2. Inking!Act(Inking!Screen(Append(line, Inking!Reset)), Inking!Open(c.sgr)) = [pen |-> c.sgr, columns |-> was]
          BY <4>2, OpenActs
        <5> QED BY <5>1, <5>2, Zenon
      <4>4. CASE c.sgr = pen
        <5>1. line' = Append(line, put) /\ Inking!Screen(line) = [pen |-> c.sgr, columns |-> was]
          BY <3>1, <4>0, <4>1, <4>4
        <5> QED BY <1>8, <5>1, Zenon
      <4>5. CASE c.sgr # pen /\ c.sgr = "default"
        <5>1. line' = Append(Append(line, Inking!Reset), put) /\ Inking!Screen(Append(line, Inking!Reset)) = [pen |-> c.sgr, columns |-> was]
          BY <3>1, <4>1, <4>2, <4>5
        <5> QED BY <4>1, <5>1, Zenon
      <4>6. CASE c.sgr # pen /\ c.sgr # "default"
        <5>1. line' = Append(Append(Append(line, Inking!Reset), open), put)
          BY <3>1, <4>1, <4>6
        <5> QED BY <4>1, <4>3, <5>1, Zenon
      <4> QED BY <4>4, <4>5, <4>6
    <3>4. line' \in Seq(Token)
      BY <2>0, <3>3, AppendProperties
    <3>5. Inking!Screen(line') = [pen |-> c.sgr, columns |-> was \o Inking!Shown(c.text, c.sgr)]
      <4>1. Inking!Screen(line') = Inking!Act(Inking!Screen(w), Inking!Put(c.text))
        BY <2>0, <3>3, ScreenAppends DEF put
      <4>2. Inking!Act(Inking!Screen(w), Inking!Put(c.text)) = [pen |-> c.sgr, columns |-> was \o Inking!Shown(c.text, c.sgr)]
        BY <3>3, PutActs, Zenon
      <4> QED BY <4>1, <4>2, Zenon
    <3> QED BY <1>9, <3>1, <3>2, <3>4, <3>5 DEF was
  <2> QED BY <2>1, <2>2
<1>11. (Inking!Screen(line) = [pen |-> pen, columns |-> Columns(column)])'
  <2>1. Columns(column)' = Columns(column')
    BY <1>2 DEF Columns, Inking!Meant, Inking!Inked, Inking!Ink
  <2>2. (Inking!Screen(line))' = Inking!Screen(line')
    BY DEF Inking!Screen
  <2> HIDE DEF c, q, wide
  <2> QED BY <1>7, <1>10, <2>1, <2>2
<1>12. wide \in {1, 2} /\ (wide = 2 <=> c.text = "wide")
  BY DEF Inking!WidthOf
<1>13. c.text = "wide" => next < Width
  BY <1>3 DEF CellsInv, RowShape
<1>14. next' \in 1 .. Width + 1 /\ column' \in 0 .. Width
  <2> HIDE DEF c, q, wide
  <2> QED BY <1>2, <1>3, <1>5, <1>10, <1>12, <1>13
<1>15. RowShape(row, Width)' /\ (where \in Nat)'
  BY <1>2 DEF CellsInv, RowShape
<1>16. finished' = FALSE
  <2>1. finished' = finished
    BY <1>2
  <2>2. finished = FALSE
    BY <1>1, Zenon DEF CellsInv
  <2> QED BY <2>1, <2>2, Zenon
<1>17. (pendingWide \in BOOLEAN)' /\ (pendingWide' => c.text = "wide") /\ (~pendingWide' => c.text # "wide")
  <2>1. wide > 1 <=> c.text = "wide"
    <3> HIDE DEF c, wide
    <3> QED BY <1>12
  <2>2. (wide > 1) \in BOOLEAN
    OBVIOUS
  <2> HIDE DEF c, wide
  <2> QED BY <1>2, <2>1, <2>2, Zenon
<1>18. (pendingWide => next > 1 /\ next <= Width /\ row[next - 1].text = "wide" /\ column = next)'
  <2> SUFFICES ASSUME pendingWide' PROVE (next > 1 /\ next <= Width /\ row[next - 1].text = "wide" /\ column = next)'
    OBVIOUS
  <2>1. c.text = "wide"
    BY <1>17
  <2>2. wide = 2 /\ next < Width
    BY <1>12, <1>13, <2>1
  <2>3. next' = next + 1 /\ next' > 1 /\ next' <= Width /\ next' - 1 = next /\ column' = next'
    <3> HIDE DEF c, wide
    <3> QED BY <1>2, <1>3, <1>5, <1>10, <2>2
  <2> QED BY <1>2, <2>1, <2>3
<1>19. (~pendingWide => column = next - 1 /\ (next # 1 => row[next - 1].text # "wide"))'
  <2> SUFFICES ASSUME ~pendingWide' PROVE (column = next - 1 /\ (next # 1 => row[next - 1].text # "wide"))'
    OBVIOUS
  <2>1. c.text # "wide"
    BY <1>17
  <2>2. wide = 1
    BY <1>12, <2>1
  <2>3. next' - 1 = next /\ column' = next' - 1
    <3> HIDE DEF c, wide
    <3> QED BY <1>2, <1>3, <1>5, <1>10, <2>2
  <2> QED BY <1>2, <2>1, <2>3
<1> QED BY <1>10, <1>11, <1>14, <1>15, <1>16, <1>17, <1>18, <1>19, Zenon DEF CellsInv

\* The line ends where the row does.
LEMMA LineEnded ==
  ASSUME Width \in Nat, CellsInv, Inking!Finish
  PROVE  CellsInv'
<1>1. ~finished /\ ~Inking!More /\ finished' = TRUE
      /\ UNCHANGED <<row, where, inkAt, next, pen, column, pendingWide>>
  BY DEF Inking!Finish
<1>2. column = Width
  <2>1. ~(column < Width) \/ ~(next <= Width)
    BY <1>1 DEF Inking!More, CellsInv, RowShape
  <2>2. CASE pendingWide
    BY <2>1, <2>2 DEF CellsInv
  <2>3. CASE ~pendingWide
    BY <2>1, <2>3 DEF CellsInv
  <2> QED BY <2>2, <2>3
<1>3. line' = Append(line, Inking!Reset)
  <2>1. line' = Append(line, Inking!Reset) \o [n \in 1 .. Width - column |-> Inking!Put(Inking!Blank)]
    BY DEF Inking!Finish
  <2>2. [n \in 1 .. Width - column |-> Inking!Put(Inking!Blank)] = << >>
    BY <1>2
  <2>3. Append(line, Inking!Reset) \in Seq(Token)
    BY TokensAre, AppendProperties DEF CellsInv
  <2> QED BY <2>1, <2>2, <2>3, ConcatEmptySeq
<1>4. line \in Seq(Token) /\ Inking!Reset \in Token /\ line' \in Seq(Token)
  BY <1>3, TokensAre, AppendProperties DEF CellsInv
<1>5. Inking!Screen(line') = [pen |-> "default", columns |-> Columns(Width)]
  <2>1. Inking!Screen(line') = Inking!Act(Inking!Screen(line), Inking!Reset)
    BY <1>3, <1>4, ScreenAppends
  <2>2. Inking!Screen(line) = [pen |-> pen, columns |-> Columns(Width)]
    BY <1>1, <1>2 DEF CellsInv
  <2>3. Inking!Act(Inking!Screen(line), Inking!Reset) = [pen |-> "default", columns |-> Columns(Width)]
    BY <2>2, ResetActs, Zenon
  <2> QED BY <2>1, <2>3, Zenon
<1>6. (Inking!Screen(line) = [pen |-> "default", columns |-> Columns(Width)])'
  <2>1. Columns(Width)' = Columns(Width)
    BY <1>1 DEF Columns, Inking!Meant, Inking!Inked, Inking!Ink
  <2>2. (Inking!Screen(line))' = Inking!Screen(line')
    BY DEF Inking!Screen
  <2> QED BY <1>5, <2>1, <2>2
<1>7. /\ RowShape(row, Width)' /\ (where \in Nat)' /\ (next \in 1 .. Width + 1)' /\ (column \in 0 .. Width)' /\ (pen \in Styles)'
  BY <1>1 DEF CellsInv, RowShape
<1>8. (pendingWide \in BOOLEAN)' /\ (finished \in BOOLEAN)' /\ finished'
  <2>1. pendingWide \in BOOLEAN /\ pendingWide' = pendingWide
    BY <1>1 DEF CellsInv
  <2> QED BY <1>1, <2>1, Zenon
<1>9. /\ (pendingWide => next > 1 /\ next <= Width /\ row[next - 1].text = "wide" /\ column = next)'
      /\ (~pendingWide => column = next - 1 /\ (next # 1 => row[next - 1].text # "wide"))'
  BY <1>1 DEF CellsInv
<1> QED BY <1>4, <1>6, <1>7, <1>8, <1>9, Zenon DEF CellsInv

LEMMA CellsHold ==
  ASSUME Width \in Nat, ~Colourless, CellsInv, [Inking!CellsNext]_cells
  PROVE  CellsInv'
<1>1. CASE Inking!CellsNext
  BY <1>1, SecondPassed, CellWritten, LineEnded, Zenon DEF Inking!CellsNext
<1>2. CASE UNCHANGED cells
  <2>1. UNCHANGED <<row, where, inkAt, next, line, pen, column, pendingWide, finished>>
    BY <1>2 DEF cells
  <2>2. Columns(column)' = Columns(column) /\ Columns(Width)' = Columns(Width) /\ (Inking!Screen(line))' = Inking!Screen(line)
    BY <2>1 DEF Columns, Inking!Meant, Inking!Inked, Inking!Ink, Inking!Screen
  <2> QED BY <2>1, <2>2 DEF CellsInv, RowShape
<1> QED BY <1>1, <1>2

\* A finished line shows every cell of its row.
LEMMA CellsSay ==
  ASSUME CellsInv
  PROVE  Inking!LineIsTheRow
BY Zenon DEF CellsInv, Inking!LineIsTheRow, Inking!DefaultPen, Columns

-----------------------------------------------------------------------------
(* The directory that an install reports.                                  *)

\* A registration is of the recorded directory and in every profile, and what has been
\* reported is registered.
FindInv ==
    /\ receipt.block # None => receipt.block = receipt.bin /\ receipt.files = Profile
    /\ said # None => run = Idle /\ receipt.block = said

LEMMA FindHolds ==
  ASSUME ~Moves, PathTypes, PathOwn, FindInv, [PathNext]_commandPath, ~killed'
  PROVE  FindInv'
<1> USE PathAssumption DEF PathTypes, FindInv
<1>1. /\ Idle.step = "idle" /\ NoReceipt.block = None /\ run.step \in Steps /\ receipt.bin \in Bin \cup {None}
      /\ run # Idle => said = None
  BY DEF NoReceipt, Idle, Run, Receipt
<1>2. ASSUME NEW option \in Bin \cup {None}, NEW add \in BOOLEAN, Install(option, add)
      PROVE  FindInv'
  BY <1>2 DEF Install
<1>3. CASE writeReceipt
  <2>1. run.step = "receipt" /\ run # Idle
    BY <1>1, <1>3 DEF writeReceipt
  <2>2. receipt'.bin = run.bin /\ receipt'.block = receipt.block /\ receipt'.files = receipt.files
    BY <1>3 DEF writeReceipt, Receipt
  <2>3. receipt.bin \in {None, run.bin}
    BY <2>1 DEF PathOwn
  <2>4. said' = None
    BY <1>1, <1>3, <2>1 DEF writeReceipt
  <2> QED BY <2>2, <2>3, <2>4
<1>4. CASE writeCommand \/ freeName \/ symlink \/ onPathAlready
  <2>1. run # Idle /\ UNCHANGED <<receipt, said>>
    BY <1>1, <1>4 DEF writeCommand, freeName, symlink, onPathAlready
  <2> QED BY <1>1, <2>1
<1>5. CASE addFails \/ Killed
  BY <1>5 DEF addFails, Killed
<1>6. ASSUME NEW f \in Profile, addCommandPath(f) \/ removeCommandPath(f) PROVE FindInv'
  <2>1. run # Idle /\ UNCHANGED <<receipt, said>>
    BY <1>1, <1>6 DEF addCommandPath, removeCommandPath
  <2> QED BY <1>1, <2>1
<1>7. CASE rememberPath
  <2>1. run.step = "profile" /\ run # Idle /\ run.files = Profile /\ said' = said
    BY <1>1, <1>7 DEF rememberPath
  <2>2. receipt'.bin = receipt.bin /\ receipt'.block = run.bin /\ receipt'.files = Profile
    BY <1>7, <2>1 DEF rememberPath, Receipt
  <2>3. receipt.bin = run.bin
    BY <2>1 DEF PathOwn, Recorded
  <2> QED BY <1>1, <2>1, <2>2, <2>3
<1>8. CASE report
  <2>1. run.step = "report" /\ run' = Idle /\ receipt' = receipt
    BY <1>8 DEF report
  <2>2. said' = None \/ (said' = run.bin /\ receipt.block # None)
    BY <1>8 DEF report
  <2>3. receipt.bin = run.bin
    BY <2>1 DEF PathOwn, Recorded
  <2> QED BY <2>1, <2>2, <2>3
<1>9. CASE NewTerminal
  BY <1>9 DEF NewTerminal
<1>10. CASE assertLauncherOwned
  BY <1>10 DEF assertLauncherOwned
<1>11. CASE Unlinks
  <2>1. run # Idle /\ said' = said /\ (receipt' = receipt \/ receipt' = NoReceipt)
    BY <1>1, <1>11 DEF Unlinks, removeCommand
  <2> QED BY <1>1, <2>1
<1>12. CASE Uninstalled
  BY <1>1, <1>12 DEF Uninstalled
<1>13. ASSUME NEW bin \in Bin, OtherProgram(bin) PROVE FindInv'
  BY <1>13 DEF OtherProgram
<1>14. CASE UNCHANGED commandPath
  BY <1>14 DEF commandPath
<1> QED BY <1>2, <1>3, <1>4, <1>5, <1>6, <1>7, <1>8, <1>9, <1>10, <1>11, <1>12, <1>13, <1>14 DEF PathNext

LEMMA Finds ==
  ASSUME PathInv, ~killed => FindInv
  PROVE  NewTerminalsFind
<1> SUFFICES ASSUME said # None, ~killed, NEW f \in Profile PROVE said \in profiles[f]
  BY DEF NewTerminalsFind
<1>1. run = Idle /\ receipt.block = said /\ receipt.files = Profile
  BY DEF FindInv
<1>2. run.step = "idle"
  BY <1>1 DEF Idle
<1>3. profiles[f] = {receipt.block}
  BY <1>1, <1>2 DEF PathInv, PathOwn, Blocks
<1> QED BY <1>1, <1>3

-----------------------------------------------------------------------------
(* The launcher.                                                           *)

Usable == \E w \in Candidates : node_usable(w)
Ways == Code \cup Signal

\* What a command is about to start is there, unless two updates have come since it
\* read the version; and a program has been started only where it is waited for.
LauncherInv ==
    /\ launched \in [Launchers -> {"shell", "read", "spawn", "waits", "ended"}]
    /\ child \in [Launchers -> {"none", "runs"} \cup Ways] /\ outcome \in [Launchers -> {"none"} \cup Ways]
    /\ version \in [Launchers -> Nat] /\ updates \in [Launchers -> Nat]
    /\ active.current \in Nat /\ active.current \in dirs
    /\ \A t \in Launchers :
          /\ launched[t] = "spawn" => /\ updates[t] = 0 => version[t] = active.current
                                      /\ updates[t] = 1 => version[t] = active.previous /\ version[t] \in dirs
          /\ launched[t] \in {"shell", "read", "spawn"} => child[t] = "none"
          /\ launched[t] = "ended" => outcome[t] \in Ways
    /\ EndsAsItsProgram

LEMMA WaysAre == Ways = {"0", "1", "SIGINT", "SIGTERM", "SIGHUP", "SIGKILL"}
BY DEF Ways, Code, Signal

\* What a command's end says, of one command.
Says(t) ==
    launched[t] = "ended" =>
        \/ outcome[t] = child[t]
        \/ outcome[t] \in Signal \ (IF child[t] = "none" THEN {} ELSE Forwarded)
        \/ child[t] = "none" /\ outcome[t] = "1" /\ (updates[t] >= 2 \/ ~Usable)

LEMMA SaysEach == EndsAsItsProgram <=> \A t \in Launchers : Says(t)
BY DEF EndsAsItsProgram, Says, Usable

LEMMA LauncherHolds ==
  ASSUME LauncherInv, [LauncherNext]_launcher
  PROVE  LauncherInv'
<1> USE DEF LauncherInv
<1>0. \A t \in Launchers : Says(t)
  BY SaysEach
<1>01. ASSUME found' = found PROVE Usable' <=> Usable
  BY <1>01 DEF Usable, Candidates, node_usable
<1>02. ASSUME \A t \in Launchers : Says(t)' PROVE EndsAsItsProgram'
  BY <1>02 DEF EndsAsItsProgram, Says, Usable
<1>1. ASSUME NEW t \in Launchers, launcherScript(t) PROVE LauncherInv'
  <2>1. launched[t] = "shell" /\ child[t] = "none" /\ UNCHANGED <<found, active, dirs, version, updates, child>>
    BY <1>1 DEF launcherScript
  <2>2. \/ launched' = [launched EXCEPT ![t] = "read"] /\ outcome' = outcome
        \/ ~Usable /\ launched' = [launched EXCEPT ![t] = "ended"] /\ outcome' = [outcome EXCEPT ![t] = "1"]
    BY <1>1 DEF launcherScript, Usable, Ends
  <2>3. Usable' <=> Usable
    BY <1>01, <2>1
  <2>4. \A u \in Launchers : Says(u)'
    <3> TAKE u \in Launchers
    <3>1. Says(u)
      BY <1>0
    <3> QED BY <2>1, <2>2, <2>3, <3>1 DEF Says
  <2> QED BY <1>02, <2>1, <2>2, <2>4, WaysAre
<1>2. ASSUME NEW t \in Launchers, readActive(t) PROVE LauncherInv'
  <2>1. /\ launched[t] = "read" /\ UNCHANGED <<found, active, dirs, child, outcome>>
        /\ version' = [version EXCEPT ![t] = active.current] /\ updates' = [updates EXCEPT ![t] = 0]
        /\ launched' = [launched EXCEPT ![t] = "spawn"]
    BY <1>2 DEF readActive
  <2>3. Usable' <=> Usable
    BY <1>01, <2>1
  <2>4. \A u \in Launchers : Says(u)'
    <3> TAKE u \in Launchers
    <3>1. Says(u)
      BY <1>0
    <3> QED BY <2>1, <2>3, <3>1 DEF Says
  <2> QED BY <1>02, <2>1, <2>4
<1>3. ASSUME NEW t \in Launchers, spawn(t) PROVE LauncherInv'
  <2>1. launched[t] = "spawn" /\ child[t] = "none" /\ UNCHANGED <<found, active, dirs, version, updates>>
    BY <1>3 DEF spawn
  <2>2. \/ launched' = [launched EXCEPT ![t] = "waits"] /\ child' = [child EXCEPT ![t] = "runs"] /\ outcome' = outcome
        \/ /\ version[t] \notin dirs /\ child' = child
           /\ launched' = [launched EXCEPT ![t] = "ended"] /\ outcome' = [outcome EXCEPT ![t] = "1"]
    BY <1>3 DEF spawn, Ends
  <2>3. Usable' <=> Usable
    BY <1>01, <2>1
  <2>5. version[t] \notin dirs => updates[t] >= 2
    BY <2>1
  <2>4. \A u \in Launchers : Says(u)'
    <3> TAKE u \in Launchers
    <3>1. Says(u)
      BY <1>0
    <3> QED BY <2>1, <2>2, <2>3, <2>5, <3>1 DEF Says
  <2> QED BY <1>02, <2>1, <2>2, <2>4, WaysAre
<1>4. ASSUME NEW t \in Launchers, NEW how \in Ways, ChildEnds(t, how) PROVE LauncherInv'
  <2>1. /\ child[t] = "runs" /\ child' = [child EXCEPT ![t] = how]
        /\ UNCHANGED <<found, active, dirs, launched, version, updates, outcome>>
    BY <1>4 DEF ChildEnds
  <2>3. Usable' <=> Usable
    BY <1>01, <2>1
  <2>4. \A u \in Launchers : Says(u)'
    <3> TAKE u \in Launchers
    <3>1. Says(u)
      BY <1>0
    <3>2. launched[t] = "ended" => outcome[t] # "runs"
      BY WaysAre
    <3> QED BY <2>1, <2>3, <3>1, <3>2, WaysAre DEF Says
  <2> QED BY <1>02, <2>1, <2>4, WaysAre
<1>5. ASSUME NEW t \in Launchers, ends(t) PROVE LauncherInv'
  <2>1. /\ launched[t] = "waits" /\ child[t] \notin {"none", "runs"}
        /\ launched' = [launched EXCEPT ![t] = "ended"] /\ outcome' = [outcome EXCEPT ![t] = child[t]]
        /\ UNCHANGED <<found, active, dirs, version, updates, child>>
    BY <1>5 DEF ends, Ends
  <2>3. Usable' <=> Usable
    BY <1>01, <2>1
  <2>4. \A u \in Launchers : Says(u)'
    <3> TAKE u \in Launchers
    <3>1. Says(u)
      BY <1>0
    <3> QED BY <2>1, <2>3, <3>1 DEF Says
  <2>5. child[t] \in Ways
    BY <2>1
  <2> QED BY <1>02, <2>1, <2>4, <2>5
<1>6. ASSUME NEW t \in Launchers, NEW signal \in Signal, LauncherKilled(t, signal) PROVE LauncherInv'
  <2>1. launched[t] \in {"read", "spawn", "waits"} /\ UNCHANGED <<found, active, dirs, version, updates>>
    BY <1>6 DEF LauncherKilled
  <2>2. \/ /\ launched[t] = "waits" /\ UNCHANGED <<launched, outcome>>
           /\ child' = child \/ (child[t] = "runs" /\ child' = [child EXCEPT ![t] = signal])
        \/ /\ ~(launched[t] = "waits" /\ signal \in Forwarded) /\ child' = child
           /\ launched' = [launched EXCEPT ![t] = "ended"] /\ outcome' = [outcome EXCEPT ![t] = signal]
    <3>1. CASE launched[t] = "waits" /\ signal \in Forwarded
      <4>1. child' \in {child, [child EXCEPT ![t] = IF @ = "runs" THEN signal ELSE @]} /\ UNCHANGED <<launched, outcome>>
        BY <1>6, <3>1 DEF LauncherKilled
      <4>2. child[t] # "runs" => [child EXCEPT ![t] = IF @ = "runs" THEN signal ELSE @] = child
        OBVIOUS
      <4>3. child[t] = "runs" => [child EXCEPT ![t] = IF @ = "runs" THEN signal ELSE @] = [child EXCEPT ![t] = signal]
        OBVIOUS
      <4> QED BY <3>1, <4>1, <4>2, <4>3
    <3>2. CASE ~(launched[t] = "waits" /\ signal \in Forwarded)
      BY <1>6, <3>2 DEF LauncherKilled, Ends
    <3> QED BY <3>1, <3>2
  <2>3. Usable' <=> Usable
    BY <1>01, <2>1
  <2>5. signal \in Ways /\ (launched[t] # "waits" => child[t] = "none")
    BY <2>1 DEF Ways
  <2>4. \A u \in Launchers : Says(u)'
    <3> TAKE u \in Launchers
    <3>1. Says(u)
      BY <1>0
    <3> QED BY <2>1, <2>2, <2>3, <2>5, <3>1 DEF Says
  <2> QED BY <1>02, <2>1, <2>2, <2>4, <2>5
<1>7. ASSUME NEW v \in dirs, Activate(v) PROVE LauncherInv'
  <2>1. /\ active' = [current |-> active.current + 1, previous |-> active.current]
        /\ dirs' = dirs \cup {active'.current} /\ updates' = [t \in Launchers |-> updates[t] + 1]
        /\ UNCHANGED <<found, launched, version, child, outcome>>
    BY <1>7 DEF Activate
  <2>2. active'.current = active.current + 1 /\ active'.previous = active.current
    BY <2>1
  <2>3. Usable' <=> Usable
    BY <1>01, <2>1
  <2>4. \A u \in Launchers : Says(u)'
    <3> TAKE u \in Launchers
    <3>1. Says(u)
      BY <1>0
    <3> QED BY <2>1, <2>3, <3>1 DEF Says
  <2>5. \A t \in Launchers : updates'[t] = updates[t] + 1
    BY <2>1
  <2> QED BY <1>02, <2>1, <2>2, <2>4, <2>5
<1>8. ASSUME NEW o \in dirs, NEW v \in dirs, Prune(o, v) PROVE LauncherInv'
  <2>1. v \notin {active.current, active.previous} /\ dirs' = dirs \ {v}
        /\ UNCHANGED <<found, active, launched, version, updates, child, outcome>>
    BY <1>8 DEF Prune, Retained
  <2>3. Usable' <=> Usable
    BY <1>01, <2>1
  <2>4. \A u \in Launchers : Says(u)'
    <3> TAKE u \in Launchers
    <3>1. Says(u)
      BY <1>0
    <3> QED BY <2>1, <2>3, <3>1 DEF Says
  <2> QED BY <1>02, <2>1, <2>4
<1>9. CASE UNCHANGED launcher
  <2>1. UNCHANGED <<found, active, dirs, launched, version, updates, child, outcome>>
    BY <1>9 DEF launcher
  <2>3. Usable' <=> Usable
    BY <1>01, <2>1
  <2>4. \A u \in Launchers : Says(u)'
    <3> TAKE u \in Launchers
    <3>1. Says(u)
      BY <1>0
    <3> QED BY <2>1, <2>3, <3>1 DEF Says
  <2> QED BY <1>02, <2>1, <2>4
<1>10. CASE LauncherNext
  <2>1. \A t \in Launchers : (launcherScript(t) \/ readActive(t) \/ spawn(t) \/ ends(t)) => LauncherInv'
    BY <1>1, <1>2, <1>3, <1>5
  <2>2. \A t \in Launchers : \A how \in Code \cup Signal : ChildEnds(t, how) => LauncherInv'
    BY <1>4, Zenon DEF Ways
  <2>3. \A t \in Launchers : \A signal \in Signal : LauncherKilled(t, signal) => LauncherInv'
    BY <1>6
  <2>4. \A o \in dirs : Activate(o) \/ (\E v \in dirs : Prune(o, v)) => LauncherInv'
    BY <1>7, <1>8
  <2> HIDE DEF LauncherInv
  <2> QED BY <1>10, <2>1, <2>2, <2>3, <2>4, Zenon DEF LauncherNext
<1> QED BY <1>9, <1>10

LEMMA LauncherStarts == ASSUME LauncherInit PROVE LauncherInv
<1>1. \A t \in Launchers : launched[t] = "shell"
  BY DEF LauncherInit
<1>2. EndsAsItsProgram
  BY <1>1 DEF EndsAsItsProgram
<1> QED BY <1>2 DEF LauncherInit, LauncherInv

-----------------------------------------------------------------------------
(* The check of a plugin.                                                  *)

\* A check that has not ended has no code, and what it draws it counts.
CheckInv ==
    /\ registered \in 0 .. Seats /\ drawn \in [Checking!Seat -> Seq(Checking!Result)]
    /\ \A s \in Checking!Seat : Len(drawn[s]) <= 3
    /\ phase # "ended" => exit = -1
    /\ Checking!CheckIsHonest

LEMMA CheckStarts == ASSUME Seats \in Nat, Checking!CheckInit PROVE CheckInv
<1>1. registered = 0 /\ exit = -1 /\ drawn = [s \in Checking!Seat |-> << >>]
  BY DEF Checking!CheckInit
<1> QED BY <1>1 DEF CheckInv, Checking!CheckIsHonest

LEMMA CheckHolds ==
  ASSUME Seats \in Nat, CheckInv, [Checking!CheckNext]_check
  PROVE  CheckInv'
<1> USE DEF CheckInv
<1>1. CASE UNCHANGED <<registered, drawn>> /\ exit' = -1
  BY <1>1 DEF Checking!CheckIsHonest
<1>2. CASE UNCHANGED <<registered, drawn>> /\ Checking!Fail
  BY <1>2 DEF Checking!CheckIsHonest, Checking!Fail, Checking!Returns
<1>3. CASE UNCHANGED <<registered, drawn, exit, named, phase>>
  BY <1>3 DEF Checking!CheckIsHonest
<1>4. CASE \/ Checking!runPluginCommand \/ Checking!resolveTarget \/ Checking!importEntry
           \/ Checking!settle \/ Checking!withPluginTimeout \/ Checking!dispose
  <2>1. UNCHANGED <<registered, drawn>> /\ (Checking!Fail \/ exit' = exit) /\ phase # "ended"
    BY <1>4 DEF Checking!runPluginCommand, Checking!resolveTarget, Checking!importEntry, Checking!settle,
                Checking!withPluginTimeout, Checking!dispose
  <2> QED BY <1>1, <1>2, <2>1
<1>5. CASE Checking!activate
  <2>1. registered' \in 0 .. Seats /\ drawn' = drawn /\ phase = "activate" /\ (Checking!Fail \/ exit' = exit)
    BY <1>5 DEF Checking!activate
  <2>2. exit' = -1 \/ (exit' = 1 /\ named' = TRUE /\ phase' = "ended")
    BY <2>1 DEF Checking!Fail, Checking!Returns
  <2> QED BY <2>1, <2>2 DEF Checking!CheckIsHonest
<1>6. CASE Checking!letsGo
  BY <1>3, <1>6 DEF Checking!letsGo
<1>7. CASE Checking!loopEmpties
  BY <1>7 DEF Checking!loopEmpties, Checking!Returns, Checking!CheckIsHonest
<1>8. ASSUME NEW s \in Checking!Seat, Checking!render(s) PROVE CheckInv'
  <2>1. /\ phase = "render" /\ ~Checking!Done(s) /\ UNCHANGED <<phase, registered, exit>>
    BY <1>8 DEF Checking!render
  <2>2. PICK result \in Checking!Result : drawn' = [drawn EXCEPT ![s] = Append(@, result)]
    BY <1>8 DEF Checking!render
  <2>3. drawn[s] \in Seq(Checking!Result) /\ Len(drawn[s]) < 3
    <3>1. drawn[s] \in Seq(Checking!Result) /\ Len(drawn[s]) <= 3
      OBVIOUS
    <3>2. Len(drawn[s]) \in Nat
      BY <3>1
    <3>3. Len(drawn[s]) # 3
      BY <2>1 DEF Checking!Done, Checking!WidthsDrawn
    <3>4. Len(drawn[s]) < 3
      <4> DEFINE n == Len(drawn[s])
      <4>1. n \in Nat /\ n <= 3 /\ n # 3
        BY <3>1, <3>2, <3>3
      <4> HIDE DEF n, CheckInv
      <4>2. n < 3
        BY <4>1
      <4> QED BY <4>2, Zenon DEF n
    <3> QED BY <3>1, <3>4, Zenon
  <2>4. \A r \in Checking!Seat : drawn'[r] = IF r = s THEN Append(drawn[s], result) ELSE drawn[r]
    BY <2>2
  <2>5. Append(drawn[s], result) \in Seq(Checking!Result) /\ Len(Append(drawn[s], result)) <= 3
    BY <2>3
  <2>6. drawn' \in [Checking!Seat -> Seq(Checking!Result)]
    BY <2>2, <2>5
  <2>7. \A r \in Checking!Seat : Len(drawn'[r]) <= 3
    BY <2>4, <2>5
  <2> QED BY <2>1, <2>6, <2>7 DEF Checking!CheckIsHonest
<1>9. CASE Checking!reportCheck
  <2>1. UNCHANGED <<registered, drawn>> /\ \A s \in 1 .. registered : Checking!Done(s)
    BY <1>9 DEF Checking!reportCheck
  <2>2. Checking!Fail \/ (Checking!problems = {} /\ exit' = 0 /\ phase' = "ended")
    BY <1>9 DEF Checking!reportCheck, Checking!Returns
  <2>3. ASSUME Checking!problems = {}, NEW s \in 1 .. registered
        PROVE  drawn[s] = [i \in 1 .. Checking!WidthsDrawn |-> "strings"]
    <3>1. s \in Checking!Seat
      BY DEF Checking!Seat
    <3>2. \A i \in DOMAIN drawn[s] : drawn[s][i] = "strings"
      BY <2>3 DEF Checking!problems
    <3>3. Len(drawn[s]) = 3
      BY <2>1, <3>2 DEF Checking!Done, Checking!WidthsDrawn
    <3>4. drawn[s] \in Seq(Checking!Result)
      BY <3>1
    <3> QED BY <3>2, <3>3, <3>4 DEF Checking!WidthsDrawn
  <2>4. CASE Checking!problems = {} /\ exit' = 0 /\ phase' = "ended"
    <3>1. \A s \in 1 .. registered' : drawn'[s] = [i \in 1 .. Checking!WidthsDrawn |-> "strings"]
      BY <2>1, <2>3, <2>4
    <3>0. exit' # 1
      BY <2>4
    <3>2. Checking!CheckIsHonest'
      BY <3>0, <3>1, Zenon DEF Checking!CheckIsHonest
    <3>3. UNCHANGED <<registered, drawn>> /\ phase' = "ended"
      BY <2>1, <2>4
    <3> QED BY <3>2, <3>3
  <2> QED BY <1>2, <2>1, <2>2, <2>4
<1>10. CASE UNCHANGED check
  BY <1>3, <1>10 DEF check
<1> QED BY <1>4, <1>5, <1>6, <1>7, <1>8, <1>9, <1>10 DEF Checking!CheckNext

-----------------------------------------------------------------------------
(* What a command of a terminal leaves when it ends.                       *)

Up == {"ready", "boot", "open", "leaves", "fails"}

\* Plugins, a connection and a timer are there only where something is still to be
\* done that takes them back.
AttachInv ==
    /\ kernel \in [Terminal -> {"none", "live", "disposed"}]
    /\ link \in [Terminal -> BOOLEAN] /\ clockwork \in [Terminal -> BOOLEAN]
    /\ DOMAIN doing = Terminal
    /\ \A t \in Terminal : /\ kernel[t] = "live" => doing[t] \in Up \cup {"transport"}
                           /\ link[t] => doing[t] \in Up
                           /\ clockwork[t] => doing[t] \in {"ready", "leaves"}

LEMMA AttachStarts == ASSUME Attaching!AttachInit PROVE AttachInv
BY DEF Attaching!AttachInit, AttachInv

\* A command of AttachNext that belongs to one terminal.
OneCommand(t) ==
    \/ Attaching!runCli(t) \/ Attaching!ensureHostDaemon(t) \/ Attaching!launch(t) \/ Attaching!waitForDaemon(t)
    \/ Attaching!attachFails(t) \/ Attaching!attachHost(t) \/ Attaching!createTerminalKernel(t)
    \/ Attaching!createHostBackend(t) \/ Attaching!Connects(t) \/ Attaching!ready(t) \/ Attaching!requestShutdown(t)
    \/ Attaching!bootstrap(t) \/ Attaching!shutdown(t) \/ Attaching!unwind(t) \/ Attaching!inspectHost(t)
    \/ Attaching!stopStaleHost(t) \/ Attaching!stopHost(t)

LEMMA AttachHolds ==
  ASSUME AttachInv, [Attaching!AttachNext]_attachment
  PROVE  AttachInv'
<1> USE DEF AttachInv, Up
<1>0. link' = [t \in Terminal |-> FALSE] => \A t \in Terminal : link'[t] = FALSE
  OBVIOUS
<1>1. ASSUME Attaching!HostDies \/ Attaching!Turn \/ UNCHANGED attachment PROVE AttachInv'
  <2>1. UNCHANGED <<kernel, clockwork, doing>> /\ (link' = link \/ link' = [t \in Terminal |-> FALSE])
    BY <1>1 DEF Attaching!HostDies, Attaching!HostStops, Attaching!Turn, attachment
  <2> QED BY <2>1
<1>2. ASSUME NEW t \in Terminal, NEW step, doing' = [doing EXCEPT ![t] = step], UNCHANGED <<kernel, clockwork>>,
             link' = link \/ link' = [u \in Terminal |-> FALSE],
             doing[t] \notin Up \cup {"transport"}
      PROVE  AttachInv'
  <2>1. \A u \in Terminal : u # t => doing'[u] = doing[u]
    BY <1>2
  <2>2. kernel[t] # "live" /\ ~link[t] /\ ~clockwork[t]
    BY <1>2
  <2> QED BY <1>2, <2>1, <2>2
<1>3. ASSUME NEW t \in Terminal, OneCommand(t) PROVE AttachInv'
  <2>1. CASE \/ Attaching!runCli(t) \/ Attaching!ensureHostDaemon(t) \/ Attaching!launch(t)
             \/ Attaching!waitForDaemon(t) \/ Attaching!attachFails(t) \/ Attaching!attachHost(t)
             \/ Attaching!inspectHost(t) \/ Attaching!stopStaleHost(t) \/ Attaching!stopHost(t)
    <3>1. /\ \E step : doing' = [doing EXCEPT ![t] = step]
          /\ UNCHANGED <<kernel, clockwork>> /\ doing[t] \notin Up \cup {"transport"}
          /\ link' = link \/ link' = [u \in Terminal |-> FALSE]
      BY <2>1 DEF Attaching!runCli, Attaching!runTerminal, Attaching!runHostCommand, Attaching!ensureHostDaemon,
                  Attaching!launch, Attaching!waitForDaemon, Attaching!attachFails, Attaching!attachHost,
                  Attaching!inspectHost, Attaching!stopStaleHost, Attaching!stopHost, Attaching!Goto, Attaching!Ends,
                  Attaching!HostStops, Attaching!HostsStay
    <3> QED BY <1>2, <3>1
  <2>2. CASE Attaching!createTerminalKernel(t)
    BY <2>2 DEF Attaching!createTerminalKernel, Attaching!Goto
  <2>3. CASE Attaching!createHostBackend(t)
    BY <2>3 DEF Attaching!createHostBackend, Attaching!Goto
  <2>4. CASE Attaching!Connects(t)
    BY <2>4 DEF Attaching!Connects
  <2>5. CASE Attaching!ready(t)
    BY <2>5 DEF Attaching!ready, Attaching!Goto
  <2>6. CASE Attaching!requestShutdown(t)
    BY <2>6 DEF Attaching!requestShutdown, Attaching!Goto
  <2>7. CASE Attaching!bootstrap(t)
    BY <2>7 DEF Attaching!bootstrap, Attaching!Goto
  <2>8. CASE Attaching!shutdown(t)
    BY <2>8 DEF Attaching!shutdown, Attaching!disposeKernel, Attaching!Goto, Attaching!Ends
  <2>9. CASE Attaching!unwind(t)
    BY <2>9 DEF Attaching!unwind, Attaching!disposeKernel, Attaching!Goto, Attaching!Ends
  <2> QED BY <1>3, <2>1, <2>2, <2>3, <2>4, <2>5, <2>6, <2>7, <2>8, <2>9 DEF OneCommand
<1> HIDE DEF AttachInv
<1> QED BY <1>1, <1>3, Zenon DEF Attaching!AttachNext, OneCommand

LEMMA EndsAreClean == ASSUME AttachInv PROVE Attaching!EndsClean
<1> SUFFICES ASSUME NEW t \in Terminal, doing[t] = "ended" PROVE kernel[t] # "live" /\ ~link[t] /\ ~clockwork[t]
  BY DEF Attaching!EndsClean
<1> QED BY DEF AttachInv, Up

-----------------------------------------------------------------------------
(* What is drawn and reported.                                             *)

\* What a part draws or reports is so: a line of a cell grid reads back as its row; the
\* directory that an install said is found by the next terminal, unless the installation
\* was killed on its way; the launcher ends as its program did; a plugin check that
\* succeeds has drawn every view at every width; and a command that dealt with the Host
\* leaves no plugins, connection or timer behind.  A grid draws colours, and a later
\* install stays in the directory of the first.
THEOREM ReportsAreSo ==
  ASSUME ~Moves, ~Colourless, Width \in Nat, Seats \in Nat
  PROVE  Spec => []ReportsWhatIsSo
<1> DEFINE Finding == ~killed => FindInv
           Inv == PathInv /\ Finding /\ LauncherInv /\ CheckInv /\ AttachInv /\ CellsInv
<1>1. Init => Inv
  <2> SUFFICES ASSUME Init PROVE Inv
    OBVIOUS
  <2>1. PathInit /\ LauncherInit /\ Checking!CheckInit /\ Attaching!AttachInit /\ Inking!CellsInit
    BY DEF Init
  <2>2. FindInv
    BY <2>1 DEF PathInit, NoReceipt, FindInv
  <2> QED BY <2>1, <2>2, PathStarts, LauncherStarts, CheckStarts, AttachStarts, CellsStart
<1>2. Inv /\ [Next]_vars => Inv'
  <2> SUFFICES ASSUME Inv, [Next]_vars PROVE Inv'
    OBVIOUS
  <2>1. PathInv'
    BY PartSteps, PathTypesHold, PathOwnHolds, KilledStays DEF PathInv
  <2>2. Finding'
    <3> SUFFICES ASSUME ~killed' PROVE FindInv'
      OBVIOUS
    <3>1. [PathNext]_commandPath
      BY PartSteps
    <3>2. ~killed
      BY <3>1, KilledStays
    <3>3. PathTypes /\ PathOwn /\ FindInv
      BY <3>2 DEF PathInv
    <3> QED BY <3>1, <3>3, FindHolds
  <2>3. LauncherInv' /\ CheckInv' /\ AttachInv' /\ CellsInv'
    BY PartSteps, LauncherHolds, CheckHolds, AttachHolds, CellsHold
  <2> QED BY <2>1, <2>2, <2>3
<1>3. Inv => ReportsWhatIsSo
  <2> SUFFICES ASSUME Inv PROVE ReportsWhatIsSo
    OBVIOUS
  <2>1. Inking!LineIsTheRow
    BY CellsSay
  <2>2. NewTerminalsFind
    BY Finds
  <2>3. EndsAsItsProgram /\ Checking!CheckIsHonest /\ Attaching!EndsClean
    BY EndsAreClean DEF LauncherInv, CheckInv
  <2> QED BY <2>1, <2>2, <2>3 DEF ReportsWhatIsSo
<1> QED BY <1>1, <1>2, <1>3, PTL DEF Spec
=============================================================================
