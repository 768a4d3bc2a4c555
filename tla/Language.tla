-------------------------------- MODULE Language --------------------------------
(***************************************************************************)
(* The interface language: client.json, which all windows of a user share, *)
(* the override of one launch, the language each window speaks, and the    *)
(* picker that asks for it.                                                *)
(***************************************************************************)
EXTENDS Integers, Sequences, FiniteSets

CONSTANTS Window, Choices   \* the windows; how many choices they make together

VARIABLES
    file,      \* what client.json says: nothing, no JSON, or a spelling
    temporary, \* window -> its temporary file: none, half of it, or a spelling
    saved,     \* the choice that was saved last, "none" before the first
    at,        \* window -> "off", "boot", "idle", "writes", "renames", "ended"
    override,  \* window -> HULALA_LANG
    code, source, problem,  \* window -> the language, whence, and why not another
    heir,      \* window -> the choice that was the saved one when it started
    prompted,
    cursor,    \* window -> the row of its picker, 0 without one
    choice,    \* window -> the choice being saved
    chosen
language == <<file, temporary, saved, at, override, code, source, problem, heir, prompted, cursor, choice, chosen>>

Options == <<"en", "zh-CN">>
Code == {Options[i] : i \in DOMAIN Options}
Spelling == Code \cup {"english", "tlh"}   \* and one that no shipped language has
parseLanguage(value) == IF value = "english" THEN "en" ELSE IF value \in Code THEN value ELSE "none"
guessLanguage == Code

LanguageInit ==
    /\ file \in {"none", "damaged"} \cup Spelling /\ saved = "none"
    /\ temporary = [w \in Window |-> "none"] /\ at = [w \in Window |-> "off"]
    /\ override \in [Window -> {"none", "zh-CN", "tlh"}]
    /\ code = [w \in Window |-> "en"] /\ source = [w \in Window |-> "unset"]
    /\ problem = [w \in Window |-> "none"] /\ heir = [w \in Window |-> "none"]
    /\ prompted = [w \in Window |-> FALSE] /\ cursor = [w \in Window |-> 0]
    /\ choice = [w \in Window |-> "none"] /\ chosen = 0

\* The saved language, or why there is none.
readClientLanguage ==
    IF file = "none" THEN [language |-> "none", problem |-> "none"]
    ELSE IF parseLanguage(file) = "none" THEN [language |-> "none", problem |-> "config"]
    ELSE [language |-> parseLanguage(file), problem |-> "none"]

Resolved(c, from, why) == [code |-> c, source |-> from, problem |-> why]
resolveLanguage(w) ==
    LET own == parseLanguage(override[w])
        read == readClientLanguage
    IN IF override[w] # "none"
       THEN IF own = "none" THEN Resolved("en", "unset", "environment") ELSE Resolved(own, "environment", "none")
       ELSE IF read.language = "none" THEN Resolved("en", "unset", read.problem)
       ELSE Resolved(read.language, "config", "none")

Start(w) ==
    /\ at[w] = "off" /\ at' = [at EXCEPT ![w] = "boot"]
    /\ code' = [code EXCEPT ![w] = resolveLanguage(w).code]
    /\ source' = [source EXCEPT ![w] = resolveLanguage(w).source]
    /\ problem' = [problem EXCEPT ![w] = resolveLanguage(w).problem]
    /\ heir' = [heir EXCEPT ![w] = saved]
    /\ UNCHANGED <<file, temporary, saved, override, prompted, cursor, choice, chosen>>

Row(language_) == CHOOSE i \in DOMAIN Options : Options[i] = language_
pick(w, start) == cursor' = [cursor EXCEPT ![w] = Row(start)]

\* The first frame of a window whose language is unset asks, once.
FirstFrame(w) ==
    /\ at[w] = "boot" /\ at' = [at EXCEPT ![w] = "idle"]
    /\ IF source[w] = "unset"
       THEN /\ prompted' = [prompted EXCEPT ![w] = TRUE]
            /\ \E guess \in guessLanguage : pick(w, guess)
       ELSE UNCHANGED <<prompted, cursor>>
    /\ UNCHANGED <<file, temporary, saved, override, code, source, problem, heir, choice, chosen>>

\* set: the directory, the temporary file, the rename; then the window speaks it.
Set(w, c) ==
    /\ chosen < Choices /\ chosen' = chosen + 1
    /\ at' = [at EXCEPT ![w] = "writes"] /\ choice' = [choice EXCEPT ![w] = c]
    /\ UNCHANGED <<file, temporary, saved, override, code, source, problem, heir, prompted>>

Move(w) ==
    /\ at[w] = "idle" /\ cursor[w] # 0
    /\ cursor' \in {[cursor EXCEPT ![w] = i] : i \in DOMAIN Options}
    /\ UNCHANGED <<file, temporary, saved, at, override, code, source, problem, heir, prompted, choice, chosen>>
Choose(w) ==
    /\ at[w] = "idle" /\ cursor[w] # 0 /\ cursor' = [cursor EXCEPT ![w] = 0]
    /\ Set(w, Options[cursor[w]])
Digit(w, i) ==
    /\ at[w] = "idle" /\ cursor[w] # 0 /\ cursor' = [cursor EXCEPT ![w] = 0]
    /\ Set(w, Options[i])
Cancel(w) ==
    /\ at[w] = "idle" /\ cursor[w] # 0 /\ cursor' = [cursor EXCEPT ![w] = 0]
    /\ UNCHANGED <<file, temporary, saved, at, override, code, source, problem, heir, prompted, choice, chosen>>
\* /language, and /language with a name; one that names no language changes nothing.
CommandPicks(w) ==
    /\ at[w] = "idle" /\ cursor[w] = 0 /\ pick(w, code[w])
    /\ UNCHANGED <<file, temporary, saved, at, override, code, source, problem, heir, prompted, choice, chosen>>
CommandNames(w, argument) ==
    /\ at[w] = "idle" /\ cursor[w] = 0 /\ parseLanguage(argument) # "none"
    /\ Set(w, parseLanguage(argument)) /\ UNCHANGED cursor

\* Mutant: the file itself is truncated and written.
writeInPlace(w) ==
    /\ at[w] = "writes"
    /\ IF file # "damaged" THEN file' = "damaged" /\ UNCHANGED <<temporary, at>>
       ELSE /\ file' = choice[w] /\ temporary' = [temporary EXCEPT ![w] = choice[w]]
            /\ at' = [at EXCEPT ![w] = "renames"]
    /\ UNCHANGED <<saved, override, code, source, problem, heir, prompted, cursor, choice, chosen>>
\* The temporary file is created, and then written.
writeTemporary(w) ==
    /\ at[w] = "writes"
    /\ IF temporary[w] = "none" THEN temporary' = [temporary EXCEPT ![w] = "half"] /\ UNCHANGED at
       ELSE /\ temporary' = [temporary EXCEPT ![w] = choice[w]]
            /\ at' = [at EXCEPT ![w] = "renames"]
    /\ UNCHANGED <<file, saved, override, code, source, problem, heir, prompted, cursor, choice, chosen>>

Speaks(w, from) ==
    /\ code' = [code EXCEPT ![w] = choice[w]] /\ problem' = [problem EXCEPT ![w] = "none"]
    /\ source' = [source EXCEPT ![w] = from]
    /\ temporary' = [temporary EXCEPT ![w] = "none"]
    /\ at' = [at EXCEPT ![w] = "idle"] /\ choice' = [choice EXCEPT ![w] = "none"]
rename(w) ==
    /\ at[w] = "renames" /\ file' = temporary[w] /\ saved' = choice[w]
    /\ Speaks(w, "config")
    /\ UNCHANGED <<override, heir, prompted, cursor, chosen>>
\* Any call of the write fails: the window speaks the language all the same.
writeFails(w) ==
    /\ at[w] \in {"writes", "renames"} /\ Speaks(w, "unset")
    /\ UNCHANGED <<file, saved, override, heir, prompted, cursor, chosen>>

\* A window ends, or dies between two of these steps.
Ends(w) ==
    /\ at[w] \notin {"off", "ended"} /\ at' = [at EXCEPT ![w] = "ended"] /\ cursor' = [cursor EXCEPT ![w] = 0]
    /\ UNCHANGED <<file, temporary, saved, override, code, source, problem, heir, prompted, choice, chosen>>

LanguageNext == \E w \in Window :
    \/ Start(w) \/ FirstFrame(w) \/ Move(w) \/ Choose(w) \/ Cancel(w) \/ CommandPicks(w)
    \/ writeTemporary(w) \/ rename(w) \/ writeFails(w) \/ Ends(w)
    \/ \E i \in DOMAIN Options : Digit(w, i)
    \/ \E argument \in Spelling : CommandNames(w, argument)

-----------------------------------------------------------------------------
\* A choice that was saved is the file's until another one is, whatever windows
\* write or die meanwhile; a window that starts after it speaks it and does not
\* ask, unless its own launch names a language.
SavedIsSpoken ==
    /\ saved # "none" => file = saved
    /\ \A w \in Window : heir[w] # "none" /\ override[w] = "none" =>
          /\ ~prompted[w]
          /\ at[w] = "boot" => code[w] = heir[w]
=============================================================================
