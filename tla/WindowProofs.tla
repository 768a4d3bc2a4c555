----------------------------- MODULE WindowProofs -----------------------------
(***************************************************************************)
(* Theorems about Window, for every set of processes, commands and         *)
(* terminal widths: the programs in the columns, the holds on the global   *)
(* keys, and the home of the keyboard.                                     *)
(*                                                                         *)
(* The operators of Frame are composed as the functions of the plugins     *)
(* are.  A lemma for each says what it leaves alone and what it            *)
(* establishes, so that the proof of an action never looks into them.      *)
(*                                                                         *)
(* Behind them, theorems about MCPanels, the parts of a window that keep a *)
(* state of their own: lists and cards, the Session list and its rail,     *)
(* /login, autosave, and the files of the editor.  Each part has its own   *)
(* invariant, and a step of one leaves the others alone.                   *)
(***************************************************************************)
EXTENDS Window, MCPanels, FiniteSetTheorems, WellFoundedInduction, TLAPS

-----------------------------------------------------------------------------
(* The type of a window                                                    *)

Dialog == EditorModals \cup {"approval"}
Column == Kind \cup {"none"}

Win == [ columns : Nat, dragged : Nat,
         railWanted : BOOLEAN, railShown : BOOLEAN,
         conversationWanted : BOOLEAN, conversationShown : BOOLEAN,
         paneOn : BOOLEAN, seat : Column, visible : Column, last : Column,
         runtime : [Kind -> Proc \cup {NoProc}],
         railFocused : BOOLEAN, paneFocused : BOOLEAN,
         focus : {"composer", "rail", "panel"} \cup Proc \cup {NoProc},
         child : [Proc -> {"free", "alive", "exited", "killed"}],
         kind : [Proc -> Kind],
         slot : Request \cup {"composer"},
         up : SUBSET Dialog, open : Int ]

\* What the layout reads and keeps, and what it has no part in.
Frames(v) == <<v.columns, v.dragged, v.railWanted, v.paneOn, v.seat, v.visible, v.last, v.paneFocused>>
Core(v) == <<v.runtime, v.child, v.kind, v.slot, v.up, v.open>>

\* v is laid out.
Fits(v) ==
    railFits(v.columns, paneShown(v), railWidthNow(v.columns, paneShown(v), v.dragged))
Current(v) ==
    /\ v.railShown = (v.railWanted /\ Fits(v))
    /\ v.conversationShown = (v.conversationWanted \/ (~v.railShown /\ ~paneShown(v)))

LEMMA FitsIsBoolean == \A v \in Win : Fits(v) \in BOOLEAN /\ paneShown(v) \in BOOLEAN
BY DEF Fits, railFits, paneShown, Win

\* Laying out twice is laying out once.
LEMMA CurrentIsLaidOut == ASSUME NEW v \in Win, Current(v) PROVE v = Lay(v)
BY FitsIsBoolean DEF Current, Lay, Fits, Win

LEMMA LayKeeps ==
  ASSUME NEW v \in Win
  PROVE  /\ Lay(v) \in Win /\ Current(Lay(v))
         /\ Frames(Lay(v)) = Frames(v) /\ Core(Lay(v)) = Core(v)
         /\ Lay(v).railFocused = v.railFocused /\ Lay(v).focus = v.focus
         /\ Lay(v).conversationWanted = v.conversationWanted
<1> DEFINE railOut == v.railWanted /\ Fits(v)
           textOut == v.conversationWanted \/ (~railOut /\ ~paneShown(v))
           laid == [v EXCEPT !.railShown = railOut, !.conversationShown = textOut]
<1>1. railOut \in BOOLEAN /\ textOut \in BOOLEAN
  BY FitsIsBoolean DEF Win
<1>2. Lay(v) = laid
  BY DEF Lay, Fits
<1> HIDE DEF railOut, textOut
<1>3. /\ laid \in Win /\ laid.railShown = railOut /\ laid.conversationShown = textOut
      /\ Frames(laid) = Frames(v) /\ Core(laid) = Core(v)
      /\ laid.railFocused = v.railFocused /\ laid.focus = v.focus
      /\ laid.conversationWanted = v.conversationWanted
  BY <1>1 DEF Win, Frames, Core
<1> HIDE DEF laid
<1>4. paneShown(laid) = paneShown(v) /\ Fits(laid) = Fits(v) /\ laid.railWanted = v.railWanted
  BY <1>3 DEF Frames, paneShown, Fits
<1>5. Current(laid)
  BY <1>3, <1>4 DEF Current, railOut, textOut
<1> QED BY <1>2, <1>3, <1>5

-----------------------------------------------------------------------------
(* plugins/layout.ts: what each function leaves alone                      *)

\* r is v laid out anew: the keyboard leaves a rail that is not painted, and stays
\* where it was otherwise.
Rebuilt(v, r) ==
    /\ r \in Win /\ Current(r) /\ Frames(r) = Frames(v) /\ Core(r) = Core(v)
    /\ IF v.railFocused
       THEN r.railFocused = r.railShown /\ r.focus = (IF r.railShown THEN "rail" ELSE "composer")
       ELSE ~r.railFocused /\ r.focus = v.focus

LEMMA RebuildRebuilds == ASSUME NEW v \in Win PROVE Rebuilt(v, rebuild(v))
<1> DEFINE laid == Lay(v)
           lost == [laid EXCEPT !.railFocused = FALSE, !.focus = "composer"]
           regained == [lost EXCEPT !.conversationWanted = TRUE]
           again == Lay(regained)
           ruled == [laid EXCEPT !.focus = "rail"]
<1>1. /\ laid \in Win /\ Current(laid) /\ Frames(laid) = Frames(v) /\ Core(laid) = Core(v)
      /\ laid.railFocused = v.railFocused /\ laid.focus = v.focus
  BY LayKeeps
<1>2. rebuild(v) = IF ~laid.railFocused THEN laid
                   ELSE IF laid.railShown THEN ruled
                   ELSE IF laid.conversationShown THEN lost ELSE again
  BY DEF rebuild
<1> HIDE DEF laid
<1>3. CASE ~laid.railFocused
  BY <1>1, <1>2, <1>3 DEF Rebuilt
<1>4. CASE laid.railFocused /\ laid.railShown
  <2>1. /\ ruled \in Win /\ Frames(ruled) = Frames(laid) /\ Core(ruled) = Core(laid)
        /\ ruled.railShown = laid.railShown /\ ruled.conversationShown = laid.conversationShown
        /\ ruled.conversationWanted = laid.conversationWanted /\ ruled.railWanted = laid.railWanted
        /\ ruled.focus = "rail" /\ ruled.railFocused = laid.railFocused
    BY <1>1 DEF Win, Frames, Core
  <2> HIDE DEF ruled
  <2>2. Fits(ruled) = Fits(laid) /\ paneShown(ruled) = paneShown(laid)
    BY <2>1 DEF Frames, paneShown, Fits
  <2> QED BY <1>1, <1>2, <1>4, <2>1, <2>2 DEF Rebuilt, Current
<1>5. ASSUME laid.railFocused, ~laid.railShown PROVE Rebuilt(v, rebuild(v))
  <2>1. /\ lost \in Win /\ Frames(lost) = Frames(laid) /\ Core(lost) = Core(laid)
        /\ lost.railShown = laid.railShown /\ lost.conversationShown = laid.conversationShown
        /\ lost.conversationWanted = laid.conversationWanted /\ lost.railWanted = laid.railWanted
        /\ lost.focus = "composer" /\ lost.railFocused = FALSE
    BY <1>1 DEF Win, Frames, Core
  <2>2. /\ regained \in Win /\ Frames(regained) = Frames(laid) /\ Core(regained) = Core(laid)
        /\ regained.focus = "composer" /\ regained.railFocused = FALSE
    BY <1>1 DEF Win, Frames, Core
  <2> HIDE DEF lost, regained
  <2>3. /\ again \in Win /\ Current(again) /\ Frames(again) = Frames(laid) /\ Core(again) = Core(laid)
        /\ again.focus = "composer" /\ again.railFocused = FALSE
    BY <2>2, LayKeeps
  <2>4. Fits(lost) = Fits(laid) /\ paneShown(lost) = paneShown(laid)
    BY <2>1 DEF Frames, paneShown, Fits
  <2>5. again.railShown = laid.railShown
    <3>1. Fits(again) = Fits(laid) /\ again.railWanted = laid.railWanted
      BY <2>3 DEF Frames, paneShown, Fits
    <3> QED BY <1>1, <2>3, <3>1 DEF Current
  <2> HIDE DEF again
  <2> QED BY <1>1, <1>2, <1>5, <2>1, <2>3, <2>4, <2>5 DEF Rebuilt, Current
<1> QED BY <1>1, <1>3, <1>4, <1>5 DEF Win

-----------------------------------------------------------------------------
(* The home of the keyboard                                                *)

\* A column is painted when it is the visible one: it has the seat, and runs.
Seated(v) ==
    /\ v.paneOn <=> v.visible # "none"
    /\ v.paneOn => v.seat = v.visible /\ v.runtime[v.visible] # NoProc
    /\ v.seat # "none" => v.runtime[v.seat] # NoProc

\* One of the composer's place, the rail and the painted column has the keyboard, and
\* a panel in the composer's place takes it from both columns.
InOneHome(v) ==
    /\ ~(v.railFocused /\ v.paneFocused)
    /\ v.paneFocused => v.paneOn /\ v.focus = v.runtime[v.visible]
    /\ ~v.railFocused /\ ~v.paneFocused =>
          v.focus = (IF v.slot = "composer" THEN "composer" ELSE "panel")
    /\ v.slot # "composer" => ~v.railFocused /\ ~v.paneFocused

RailPainted(v) == v.railFocused => v.railShown /\ v.focus = "rail"

Homed(v) == v \in Win /\ Current(v) /\ Seated(v) /\ InOneHome(v) /\ RailPainted(v)

\* r is v after the layout did something.
Size(v) == <<v.columns, v.dragged>>
Moves(v, r) == Homed(r) /\ Core(r) = Core(v) /\ Size(r) = Size(v)

\* What is laid out depends on the frame alone.
LEMMA SameFrame ==
  ASSUME NEW v, NEW r, Frames(r) = Frames(v)
  PROVE  /\ Fits(r) = Fits(v) /\ paneShown(r) = paneShown(v) /\ Size(r) = Size(v)
         /\ r.railWanted = v.railWanted /\ r.paneFocused = v.paneFocused
         /\ Core(r) = Core(v) => Seated(r) = Seated(v)
BY DEF Frames, Core, Fits, paneShown, Size, Seated

LEMMA SameRail ==
  ASSUME NEW v, NEW r, Frames(r) = Frames(v), Current(v), Current(r)
  PROVE  r.railShown = v.railShown
BY SameFrame DEF Current

LEMMA RebuildHomes ==
  ASSUME NEW v \in Win, Seated(v), InOneHome(v)
  PROVE  Moves(v, rebuild(v)) /\ Frames(rebuild(v)) = Frames(v)
<1> DEFINE r == rebuild(v)
<1>1. Rebuilt(v, r)
  BY RebuildRebuilds
<1> HIDE DEF r
<1>2. r \in Win /\ Current(r) /\ Frames(r) = Frames(v) /\ Core(r) = Core(v)
  BY <1>1 DEF Rebuilt
<1>3. Seated(r) /\ Size(r) = Size(v) /\ r.paneFocused = v.paneFocused
  BY <1>2, SameFrame
<1>4. r.slot = v.slot /\ r.runtime = v.runtime /\ r.visible = v.visible /\ r.paneOn = v.paneOn
  BY <1>2 DEF Frames, Core
<1>5. InOneHome(r) /\ RailPainted(r)
  BY <1>1, <1>2, <1>3, <1>4 DEF Rebuilt, InOneHome, RailPainted, Win
<1> QED BY <1>2, <1>3, <1>5 DEF Moves, Homed, r

LEMMA ConversationSet ==
  ASSUME NEW v, Homed(v), NEW wanted \in BOOLEAN, NEW r,
         r = setConversationVisible(v, wanted) \/ r = showConversation(v)
  PROVE  Moves(v, r) /\ Frames(r) = Frames(v)
         /\ r.railFocused = v.railFocused /\ r.focus = v.focus
<1>1. \A b \in BOOLEAN :
        LET u == rebuild([v EXCEPT !.conversationWanted = b])
        IN  Moves(v, u) /\ Frames(u) = Frames(v) /\ u.railFocused = v.railFocused /\ u.focus = v.focus
  <2> SUFFICES ASSUME NEW b \in BOOLEAN
      PROVE LET u == rebuild([v EXCEPT !.conversationWanted = b])
            IN  Moves(v, u) /\ Frames(u) = Frames(v) /\ u.railFocused = v.railFocused /\ u.focus = v.focus
    OBVIOUS
  <2> DEFINE t == [v EXCEPT !.conversationWanted = b]
             u == rebuild(t)
  <2>1. /\ t \in Win /\ Frames(t) = Frames(v) /\ Core(t) = Core(v)
        /\ t.railFocused = v.railFocused /\ t.focus = v.focus
    BY DEF Homed, Win, Frames, Core
  <2> HIDE DEF t
  <2>2. Seated(t) /\ InOneHome(t)
    <3>1. Seated(t) /\ t.paneFocused = v.paneFocused
      BY <2>1, SameFrame DEF Homed
    <3>2. t.slot = v.slot /\ t.runtime = v.runtime /\ t.visible = v.visible /\ t.paneOn = v.paneOn
      BY <2>1 DEF Frames, Core
    <3> QED BY <2>1, <3>1, <3>2 DEF Homed, InOneHome
  <2>3. Moves(t, u) /\ Frames(u) = Frames(t)
    BY <2>1, <2>2, RebuildHomes
  <2>4. Rebuilt(t, u)
    BY <2>1, RebuildRebuilds
  <2> HIDE DEF u
  <2>5. u.railShown = v.railShown
    BY <2>1, <2>3, SameRail DEF Moves, Homed
  <2>6. u.railFocused = v.railFocused /\ u.focus = v.focus
    BY <2>1, <2>4, <2>5 DEF Homed, RailPainted, Rebuilt, Win
  <2>7. Moves(v, u) /\ Frames(u) = Frames(v)
    BY <2>1, <2>3, SameFrame DEF Moves
  <2> QED BY <2>6, <2>7 DEF t, u
<1>2. Moves(v, v)
  BY DEF Moves
<1> QED BY <1>1, <1>2 DEF setConversationVisible, showConversation

-----------------------------------------------------------------------------
(* plugins/panes.ts and plugins/rail.ts: who has the keyboard afterwards   *)

\* showConversation() moves no keyboard to the rail.
LEMMA TextShown ==
  ASSUME NEW v \in Win, ~v.railFocused
  PROVE  LET r == showConversation(v)
         IN  /\ r \in Win /\ Frames(r) = Frames(v) /\ Core(r) = Core(v)
             /\ ~r.railFocused /\ r.focus = v.focus /\ (Current(v) => Current(r))
<1> DEFINE wide == [v EXCEPT !.conversationWanted = TRUE]
           r == showConversation(v)
<1>1. /\ wide \in Win /\ Frames(wide) = Frames(v) /\ Core(wide) = Core(v) /\ ~wide.railFocused
      /\ wide.focus = v.focus
  BY DEF Win, Frames, Core
<1> HIDE DEF wide
<1>2. Rebuilt(wide, rebuild(wide))
  BY <1>1, RebuildRebuilds
<1>3. r \in {v, rebuild(wide)}
  BY DEF showConversation, setConversationVisible, wide
<1> HIDE DEF r
<1>4. /\ r \in Win /\ Frames(r) = Frames(v) /\ Core(r) = Core(v)
      /\ ~r.railFocused /\ r.focus = v.focus /\ (Current(v) => Current(r))
  BY <1>1, <1>2, <1>3 DEF Rebuilt
<1> QED BY <1>4 DEF r

LEMMA PaneBlurred ==
  ASSUME NEW v, Homed(v)
  PROVE  LET r == blurPane(v)
         IN  /\ Moves(v, r) /\ ~r.paneFocused
             /\ v.paneFocused => ~r.railFocused
             /\ ~v.paneFocused => r = v
             /\ r.railShown = v.railShown /\ r.visible = v.visible /\ r.paneOn = v.paneOn
             /\ r.seat = v.seat /\ r.last = v.last
<1> DEFINE off == [v EXCEPT !.paneFocused = FALSE]
           textOut == showConversation(off)
           r == [textOut EXCEPT !.focus = "composer"]
<1>1. CASE ~v.paneFocused
  BY <1>1 DEF blurPane, Moves
<1>2. ASSUME v.paneFocused PROVE LET r_ == blurPane(v)
         IN  /\ Moves(v, r_) /\ ~r_.paneFocused /\ ~r_.railFocused
             /\ r_.railShown = v.railShown /\ r_.visible = v.visible /\ r_.paneOn = v.paneOn
             /\ r_.seat = v.seat /\ r_.last = v.last
  <2>1. /\ off \in Win /\ Core(off) = Core(v) /\ ~off.paneFocused /\ ~off.railFocused
        /\ Size(off) = Size(v) /\ off.railShown = v.railShown /\ off.railWanted = v.railWanted
        /\ off.conversationShown = v.conversationShown
        /\ off.conversationWanted = v.conversationWanted
        /\ off.visible = v.visible /\ off.paneOn = v.paneOn /\ off.seat = v.seat /\ off.last = v.last
    BY <1>2 DEF Homed, InOneHome, Win, Core, Size
  <2> HIDE DEF off
  <2>2. Fits(off) = Fits(v) /\ paneShown(off) = paneShown(v)
    BY <2>1 DEF Fits, paneShown, Size
  <2>3. Current(off)
    BY <2>1, <2>2 DEF Homed, Current
  <2>4. /\ textOut \in Win /\ Current(textOut) /\ Frames(textOut) = Frames(off) /\ Core(textOut) = Core(off)
        /\ ~textOut.railFocused
    BY <2>1, <2>3, TextShown
  <2> HIDE DEF textOut
  <2>5. /\ r \in Win /\ Frames(r) = Frames(textOut) /\ Core(r) = Core(textOut) /\ ~r.railFocused
        /\ r.railShown = textOut.railShown /\ r.conversationShown = textOut.conversationShown
        /\ r.conversationWanted = textOut.conversationWanted /\ r.focus = "composer"
    BY <2>4 DEF Win, Frames, Core
  <2> HIDE DEF r
  <2>6. Current(r)
    BY <2>4, <2>5, SameFrame DEF Current
  <2>7. r.railShown = v.railShown
    <3>1. textOut.railShown = off.railShown
      BY <2>3, <2>4, SameRail
    <3> QED BY <2>1, <2>5, <3>1
  <2>8. Frames(r) = Frames(off) /\ Core(r) = Core(v)
    BY <2>1, <2>4, <2>5
  <2>9. /\ r.visible = v.visible /\ r.paneOn = v.paneOn /\ r.seat = v.seat /\ r.last = v.last
        /\ ~r.paneFocused /\ Size(r) = Size(v) /\ r.slot = v.slot /\ r.runtime = v.runtime
    BY <2>1, <2>8 DEF Frames, Size, Core
  <2>10. Seated(r)
    BY <2>9 DEF Homed, Seated
  <2>11. InOneHome(r) /\ RailPainted(r)
    BY <1>2, <2>5, <2>9 DEF Homed, InOneHome, RailPainted
  <2>12. blurPane(v) = r
    BY <1>2 DEF blurPane, r, textOut, off
  <2> QED BY <2>5, <2>6, <2>7, <2>8, <2>9, <2>10, <2>11, <2>12 DEF Moves, Homed
<1> QED BY <1>1, <1>2

LEMMA RailBlurred ==
  ASSUME NEW v, Homed(v)
  PROVE  LET r == blurRail(v)
         IN  /\ Moves(v, r) /\ ~r.railFocused /\ r.paneFocused = v.paneFocused
             /\ ~v.railFocused => r = v
<1> DEFINE off == [v EXCEPT !.railFocused = FALSE]
           textOut == showConversation(off)
           r == [textOut EXCEPT !.focus = "composer"]
<1>1. CASE ~v.railFocused
  BY <1>1 DEF blurRail, Moves
<1>2. ASSUME v.railFocused PROVE LET r_ == blurRail(v)
         IN Moves(v, r_) /\ ~r_.railFocused /\ r_.paneFocused = v.paneFocused
  <2>1. /\ off \in Win /\ Core(off) = Core(v) /\ Frames(off) = Frames(v) /\ ~off.railFocused
        /\ off.railShown = v.railShown /\ off.conversationShown = v.conversationShown
        /\ off.conversationWanted = v.conversationWanted /\ ~off.paneFocused
    BY <1>2 DEF Homed, InOneHome, Win, Core, Frames
  <2> HIDE DEF off
  <2>2. Current(off)
    BY <2>1, SameFrame DEF Homed, Current
  <2>3. /\ textOut \in Win /\ Current(textOut) /\ Frames(textOut) = Frames(off) /\ Core(textOut) = Core(off)
        /\ ~textOut.railFocused
    BY <2>1, <2>2, TextShown
  <2> HIDE DEF textOut
  <2>4. /\ r \in Win /\ Frames(r) = Frames(textOut) /\ Core(r) = Core(textOut) /\ ~r.railFocused
        /\ r.railShown = textOut.railShown /\ r.conversationShown = textOut.conversationShown
        /\ r.conversationWanted = textOut.conversationWanted /\ r.focus = "composer"
    BY <2>3 DEF Win, Frames, Core
  <2> HIDE DEF r
  <2>5. Current(r)
    BY <2>3, <2>4, SameFrame DEF Current
  <2>6. Frames(r) = Frames(v) /\ Core(r) = Core(v)
    BY <2>1, <2>3, <2>4
  <2>7. Seated(r) /\ Size(r) = Size(v) /\ r.paneFocused = v.paneFocused /\ r.slot = v.slot
    BY <2>6, SameFrame DEF Homed, Core
  <2>8. InOneHome(r) /\ RailPainted(r)
    BY <1>2, <2>4, <2>7 DEF Homed, InOneHome, RailPainted
  <2>9. blurRail(v) = r
    BY <1>2 DEF blurRail, r, textOut, off
  <2> QED BY <2>4, <2>5, <2>6, <2>7, <2>8, <2>9 DEF Moves, Homed
<1> QED BY <1>1, <1>2

\* The one width at which focus() of rail.ts and the layout do not agree about the rail
\* is 86, with a rail dragged wider than its minimum: focus() asks with the drawn width,
\* 18, and the layout with the width itself, 19.
AsksAsLaidOut(v) == v.columns # 86 \/ v.dragged < 19

LEMMA DrawnFits ==
  ASSUME NEW columns \in Nat, NEW withPane \in BOOLEAN, NEW wanted \in Nat,
         columns # 86 \/ wanted < 19
  PROVE  LET width == railWidthNow(columns, withPane, wanted)
         IN  railFits(columns, withPane, railDrawnWidth(width)) => railFits(columns, withPane, width)
<1> DEFINE limit == railWidthLimit(columns, withPane)
           width == railWidthNow(columns, withPane, wanted)
           share == railWidthFor(columns)
           drawnAt == railDrawnWidth(width)
<1>1. limit \in Int /\ limit >= 18 /\ (withPane => limit = 18 \/ limit =< columns - 72)
  <2>1. columns \div 2 \in Int /\ chrome(withPane) \in Int /\ (withPane => chrome(withPane) = 38)
    BY DEF chrome, SPLIT_MIN_SIZE
  <2> DEFINE half == columns \div 2
             room == columns - 34 - chrome(withPane)
  <2>2. half \in Int /\ room \in Int /\ (withPane => room = columns - 72)
    BY <2>1
  <2>3. limit = Greatest(18, Least(half, room))
    BY DEF railWidthLimit, RAIL_CONVERSATION_MIN, RAIL_MIN_SIZE
  <2> HIDE DEF half, room, limit
  <2> QED BY <2>2, <2>3 DEF Greatest, Least
<1>2. share \in Int /\ (columns = 86 => share = 18)
  <2> DEFINE part == (15 * columns + 50) \div 100
  <2>1. part \in Int /\ (columns = 86 => part = 13)
    OBVIOUS
  <2>2. share = Least(24, Greatest(18, part))
    BY DEF railWidthFor, RAIL_MAX_SIZE, RAIL_MIN_SIZE
  <2> HIDE DEF part, share
  <2> QED BY <2>1, <2>2 DEF Greatest, Least
<1>3. width = Least(limit + 1, Greatest(18, IF wanted = 0 THEN share ELSE wanted))
  BY DEF railWidthNow, RAIL_MIN_SIZE
<1> HIDE DEF limit, share, width
<1>4. width \in Int /\ width =< limit + 1 /\ (columns = 86 => width =< 18)
  BY <1>1, <1>2, <1>3 DEF Least, Greatest
<1>5. drawnAt \in Int /\ drawnAt >= 18
  BY <1>4 DEF railDrawnWidth, Greatest, RAIL_MIN_SIZE
<1> HIDE DEF drawnAt
<1>6. ASSUME withPane, railFits(columns, withPane, drawnAt) PROVE railFits(columns, withPane, width)
  <2>1. columns >= drawnAt + 68
    BY <1>5, <1>6 DEF railFits, SPLIT_GAP, RAIL_CONVERSATION_MIN, SPLIT_MIN_SIZE, RAIL_MIN_SIZE
  <2>2. columns >= 86
    BY <1>5, <2>1
  <2>3. columns >= width + 68
    <3>1. CASE limit =< columns - 72
      BY <1>1, <1>4, <3>1
    <3>2. CASE limit = 18 /\ columns >= 87
      BY <1>4, <3>2
    <3>3. CASE columns = 86
      BY <1>4, <3>3
    <3> QED BY <1>1, <1>6, <2>2, <3>1, <3>2, <3>3
  <2> QED BY <1>4, <2>2, <2>3 DEF railFits, SPLIT_GAP, RAIL_CONVERSATION_MIN, SPLIT_MIN_SIZE, RAIL_MIN_SIZE
<1>7. ASSUME ~withPane PROVE railFits(columns, withPane, drawnAt) => railFits(columns, withPane, width)
  BY <1>7 DEF railFits
<1> QED BY <1>6, <1>7 DEF width, drawnAt

-----------------------------------------------------------------------------
(* What the functions of the columns leave alone in any window             *)

Same(v, r) == r \in Win /\ Core(r) = Core(v)

LEMMA SameAgain == \A u, v, r : Same(u, v) /\ Same(v, r) => Same(u, r)
BY DEF Same

LEMMA RebuildSame ==
  ASSUME NEW v \in Win, NEW t, Same(v, t)
  PROVE  Same(v, rebuild(t)) /\ Frames(rebuild(t)) = Frames(t)
BY RebuildRebuilds DEF Same, Rebuilt

LEMMA FlagsSame ==
  ASSUME NEW v \in Win, NEW t, Same(v, t)
  PROVE  /\ Same(v, v)
         /\ \A b \in BOOLEAN :
               /\ Same(v, [t EXCEPT !.railWanted = b]) /\ Same(v, [t EXCEPT !.conversationWanted = b])
               /\ Same(v, [t EXCEPT !.railFocused = b]) /\ Same(v, [t EXCEPT !.paneFocused = b])
               /\ Same(v, [t EXCEPT !.paneOn = b])
         /\ \A column \in Column :
               /\ Same(v, [t EXCEPT !.seat = column]) /\ Same(v, [t EXCEPT !.visible = column])
               /\ Same(v, [t EXCEPT !.last = column])
         /\ \A focus \in {"composer", "rail"} \cup Proc \cup {NoProc} :
               Same(v, [t EXCEPT !.focus = focus])
         /\ \A n \in Nat : Same(v, [t EXCEPT !.dragged = n]) /\ Same(v, [t EXCEPT !.columns = n])
<1>0. v \in Win /\ t \in Win /\ Core(t) = Core(v)
  BY DEF Same
<1>1. ASSUME NEW b \in BOOLEAN
      PROVE  /\ Same(v, [t EXCEPT !.railWanted = b]) /\ Same(v, [t EXCEPT !.conversationWanted = b])
             /\ Same(v, [t EXCEPT !.railFocused = b]) /\ Same(v, [t EXCEPT !.paneFocused = b])
             /\ Same(v, [t EXCEPT !.paneOn = b])
  BY <1>0, SMTT(30) DEF Same, Win, Core
<1>2. ASSUME NEW column \in Column
      PROVE  /\ Same(v, [t EXCEPT !.seat = column]) /\ Same(v, [t EXCEPT !.visible = column])
             /\ Same(v, [t EXCEPT !.last = column])
  BY <1>0 DEF Same, Win, Core
<1>3. ASSUME NEW focus \in {"composer", "rail"} \cup Proc \cup {NoProc}
      PROVE  Same(v, [t EXCEPT !.focus = focus])
  BY <1>0 DEF Same, Win, Core
<1>4. ASSUME NEW n \in Nat
      PROVE  Same(v, [t EXCEPT !.dragged = n]) /\ Same(v, [t EXCEPT !.columns = n])
  BY <1>0 DEF Same, Win, Core
<1>5. Same(v, v)
  BY DEF Same
<1> QED BY <1>1, <1>2, <1>3, <1>4, <1>5

LEMMA LayoutSame ==
  ASSUME NEW v \in Win, NEW t, Same(v, t)
  PROVE  /\ \A b \in BOOLEAN :
               /\ Same(v, setRailVisible(t, b)) /\ Same(v, setConversationVisible(t, b))
               /\ Same(v, setPane(t, b))
         /\ Same(v, showConversation(t))
         /\ \A column \in Kind : Same(v, vacate(t, column))
<1>1. ASSUME NEW b \in BOOLEAN
      PROVE  /\ Same(v, setRailVisible(t, b)) /\ Same(v, setConversationVisible(t, b))
             /\ Same(v, setPane(t, b))
  <2>1. /\ Same(v, [t EXCEPT !.railWanted = b]) /\ Same(v, [t EXCEPT !.conversationWanted = b])
        /\ Same(v, [t EXCEPT !.paneOn = b])
    BY FlagsSame
  <2>2. /\ Same(v, rebuild([t EXCEPT !.railWanted = b]))
        /\ Same(v, rebuild([t EXCEPT !.conversationWanted = b]))
        /\ Same(v, rebuild([t EXCEPT !.paneOn = b]))
    BY <2>1, RebuildSame
  <2> QED BY <2>2 DEF setRailVisible, setConversationVisible, setPane
<1>2. Same(v, showConversation(t))
  BY <1>1 DEF showConversation
<1>3. ASSUME NEW column \in Kind PROVE Same(v, vacate(t, column))
  <2>1. Same(v, [t EXCEPT !.seat = "none"])
    BY FlagsSame DEF Column
  <2>2. Same(v, rebuild([t EXCEPT !.seat = "none"]))
    BY <2>1, RebuildSame
  <2> QED BY <2>2 DEF vacate
<1> QED BY <1>1, <1>2, <1>3

LEMMA BlurSame ==
  ASSUME NEW v \in Win, NEW t, Same(v, t)
  PROVE  Same(v, blurPane(t)) /\ Same(v, blurRail(t))
<1> DEFINE pane == showConversation([t EXCEPT !.paneFocused = FALSE])
           railOut == showConversation([t EXCEPT !.railFocused = FALSE])
<1>1. Same(v, [t EXCEPT !.paneFocused = FALSE]) /\ Same(v, [t EXCEPT !.railFocused = FALSE])
  BY FlagsSame
<1>2. Same(v, pane) /\ Same(v, railOut)
  BY <1>1, LayoutSame
<1> HIDE DEF pane, railOut
<1>3. Same(v, [pane EXCEPT !.focus = "composer"]) /\ Same(v, [railOut EXCEPT !.focus = "composer"])
  BY <1>2, FlagsSame
<1> QED BY <1>3 DEF blurPane, blurRail, pane, railOut

LEMMA CloseSame == ASSUME NEW v \in Win, NEW t, Same(v, t) PROVE Same(v, close(t))
<1> DEFINE noted == [t EXCEPT !.last = IF t.visible = "none" THEN @ ELSE t.visible]
           left == blurPane(noted)
           bare == [left EXCEPT !.visible = "none"]
           hidden == setPane(bare, FALSE)
<1>1. Same(v, noted)
  BY DEF Same, Win, Core
<1> HIDE DEF noted
<1>2. Same(v, left)
  BY <1>1, BlurSame
<1> HIDE DEF left
<1>3. Same(v, bare)
  BY <1>2, FlagsSame DEF Column
<1> HIDE DEF bare
<1>4. Same(v, hidden)
  BY <1>3, LayoutSame
<1> HIDE DEF hidden
<1>5. Same(v, [hidden EXCEPT !.focus = "composer"])
  BY <1>4, FlagsSame
<1>6. close(t) \in {t, hidden, [hidden EXCEPT !.focus = "composer"]}
  BY DEF close, hidden, bare, left, noted
<1> QED BY <1>4, <1>5, <1>6

LEMMA FocusSame ==
  ASSUME NEW v \in Win, NEW t, Same(v, t)
  PROVE  /\ Same(v, focusRail(t)) /\ Same(v, toggleRail(t))
         /\ \A column \in Kind : Same(v, focusPane(t, column))
<1>1. Same(v, focusRail(t))
  <2> DEFINE on == setRailVisible([t EXCEPT !.railFocused = TRUE], TRUE)
  <2>1. Same(v, [t EXCEPT !.railFocused = TRUE])
    BY FlagsSame
  <2>2. Same(v, on)
    BY <2>1, LayoutSame
  <2> HIDE DEF on
  <2>3. Same(v, [on EXCEPT !.focus = "rail"])
    BY <2>2, FlagsSame
  <2> QED BY <2>3 DEF focusRail, on
<1>2. Same(v, toggleRail(t))
  <2> DEFINE put == setRailVisible([t EXCEPT !.railFocused = FALSE], FALSE)
             away == showConversation(put)
  <2>1. Same(v, [t EXCEPT !.railFocused = FALSE])
    BY FlagsSame
  <2>2. Same(v, put)
    BY <2>1, LayoutSame
  <2> HIDE DEF put
  <2>3. Same(v, away)
    BY <2>2, LayoutSame
  <2> HIDE DEF away
  <2>4. Same(v, [away EXCEPT !.focus = "composer"])
    BY <2>3, FlagsSame
  <2> QED BY <1>1, <2>3, <2>4 DEF toggleRail, away, put
<1>3. ASSUME NEW column \in Kind PROVE Same(v, focusPane(t, column))
  <2> DEFINE noted == [t EXCEPT !.visible = column, !.last = column, !.paneFocused = TRUE]
             empty == vacate(noted, column)
             seated == rebuild([empty EXCEPT !.seat = column])
             shown == setPane(seated, TRUE)
  <2>1. Same(v, noted)
    BY ZenonT(60) DEF Same, Win, Core, Column
  <2> HIDE DEF noted
  <2>2. Same(v, empty)
    BY <2>1, LayoutSame
  <2> HIDE DEF empty
  <2>3. Same(v, [empty EXCEPT !.seat = column])
    BY <2>2, FlagsSame DEF Column
  <2>4. Same(v, seated)
    BY <2>3, RebuildSame
  <2> HIDE DEF seated
  <2>5. Same(v, shown)
    BY <2>4, LayoutSame
  <2> HIDE DEF shown
  <2>6. t.runtime[column] \in Proc \cup {NoProc}
    BY DEF Same, Win
  <2>7. Same(v, [shown EXCEPT !.focus = t.runtime[column]])
    BY <2>5, <2>6, FlagsSame
  <2> QED BY <2>7 DEF focusPane, shown, seated, empty, noted
<1> QED BY <1>1, <1>2, <1>3

LEMMA DraggedIsNat ==
  ASSUME NEW v \in Win, NEW delta \in {-2, 2} PROVE DraggedTo(v, delta) \in Nat
<1> DEFINE limit == railWidthLimit(v.columns, v.paneOn)
           share == railWidthFor(v.columns)
           width == railWidthNow(v.columns, v.paneOn, v.dragged)
           drawnAt == railDrawnWidth(width)
<1>0. v.columns \in Nat /\ v.dragged \in Nat
  BY DEF Win
<1>1. limit \in Int /\ limit >= 18
  BY <1>0 DEF railWidthLimit, RAIL_CONVERSATION_MIN, RAIL_MIN_SIZE, SPLIT_MIN_SIZE, chrome,
              Greatest, Least
<1>2. share \in Int
  BY <1>0 DEF railWidthFor, RAIL_MAX_SIZE, RAIL_MIN_SIZE, Greatest, Least
<1>3. width = Least(limit + 1, Greatest(18, IF v.dragged = 0 THEN share ELSE v.dragged))
  BY DEF railWidthNow, RAIL_MIN_SIZE
<1> HIDE DEF limit, share, width
<1>4. width \in Int
  BY <1>0, <1>1, <1>2, <1>3 DEF Least, Greatest
<1>5. drawnAt \in Int
  BY <1>4 DEF railDrawnWidth, Greatest, RAIL_MIN_SIZE
<1> HIDE DEF drawnAt
<1> QED BY <1>1, <1>5 DEF DraggedTo, drawnAt, width, limit, Least, Greatest, RAIL_MIN_SIZE

LEMMA DragSame ==
  ASSUME NEW v \in Win, NEW delta \in {-2, 2} PROVE Same(v, moveRailDivider(v, delta))
<1> DEFINE width == DraggedTo(v, delta)
<1>1. width \in Nat
  BY DraggedIsNat
<1> HIDE DEF width
<1>0. Same(v, v)
  BY DEF Same
<1>2. Same(v, v) /\ Same(v, [v EXCEPT !.dragged = width])
  BY <1>0, <1>1, FlagsSame
<1>3. Same(v, rebuild([v EXCEPT !.dragged = width]))
  BY <1>2, RebuildSame
<1> QED BY <1>2, <1>3 DEF moveRailDivider, width

-----------------------------------------------------------------------------
(* plugins/panes.ts: the processes                                         *)

LEMMA DialogsAreFinite == \A S \in SUBSET Dialog : IsFiniteSet(S) /\ Cardinality(S) \in Nat
<1>1. IsFiniteSet({}) /\ IsFiniteSet({"first"})
  BY FS_EmptySet, FS_Singleton
<1>2. IsFiniteSet({"first"} \cup {"second"})
  BY <1>1, FS_AddElement
<1>3. IsFiniteSet(({"first"} \cup {"second"}) \cup {"conflict"})
  BY <1>2, FS_AddElement
<1>4. IsFiniteSet((({"first"} \cup {"second"}) \cup {"conflict"}) \cup {"approval"})
  BY <1>3, FS_AddElement
<1>5. Dialog = (({"first"} \cup {"second"}) \cup {"conflict"}) \cup {"approval"}
  BY DEF Dialog, EditorModals, Leaver
<1> QED BY <1>4, <1>5, FS_Subset, FS_CardinalityType

\* drop(): the process of the column is disposed of, and an editor's dialogs with it.
LEMMA DropDrops ==
  ASSUME NEW v \in Win, NEW column \in Kind
  PROVE  LET r == drop(v, column)
             p == v.runtime[column]
         IN  /\ r \in Win /\ r.slot = v.slot /\ r.kind = v.kind
             /\ r.runtime = [v.runtime EXCEPT ![column] = NoProc]
             /\ r.child = IF p = NoProc THEN v.child
                          ELSE [v.child EXCEPT ![p] = IF @ = "alive" THEN "killed" ELSE @]
             /\ IF column = "editor" /\ p # NoProc
                THEN /\ r.up = v.up \ EditorModals
                     /\ r.open = v.open - Cardinality(v.up \cap EditorModals)
                ELSE r.up = v.up /\ r.open = v.open
<1> DEFINE p == v.runtime[column]
           bare == [v EXCEPT !.runtime[column] = NoProc]
           gone == vacate(bare, column)
           heard == IF column = "editor" THEN cancelEditorModals(gone) ELSE gone
           settled == disposeSession(heard, p)
           r == drop(v, column)
<1>0. p \in Proc \cup {NoProc} /\ v.runtime \in [Kind -> Proc \cup {NoProc}]
  BY DEF Win
<1>1. CASE p = NoProc
  <2>1. [v.runtime EXCEPT ![column] = NoProc] = v.runtime
    BY <1>0, <1>1
  <2> QED BY <1>1, <2>1 DEF drop
<1>2. CASE p # NoProc
  <2>1. /\ bare \in Win /\ bare.slot = v.slot /\ bare.kind = v.kind /\ bare.child = v.child
        /\ bare.runtime = [v.runtime EXCEPT ![column] = NoProc]
        /\ bare.up = v.up /\ bare.open = v.open
    BY DEF Win
  <2> HIDE DEF bare
  <2>2. Same(bare, gone)
    <3>1. Same(bare, bare)
      BY <2>1 DEF Same
    <3> QED BY <2>1, <3>1, LayoutSame
  <2> HIDE DEF gone
  <2>3. gone \in Win /\ gone.slot = v.slot /\ gone.kind = v.kind /\ gone.child = v.child
        /\ gone.runtime = [v.runtime EXCEPT ![column] = NoProc]
        /\ gone.up = v.up /\ gone.open = v.open
    BY <2>1, <2>2 DEF Same, Core
  <2>4. /\ heard \in Win /\ heard.slot = v.slot /\ heard.kind = v.kind /\ heard.child = v.child
        /\ heard.runtime = [v.runtime EXCEPT ![column] = NoProc]
        /\ IF column = "editor"
           THEN heard.up = v.up \ EditorModals /\ heard.open = v.open - Cardinality(v.up \cap EditorModals)
           ELSE heard.up = v.up /\ heard.open = v.open
    <3>1. CASE column = "editor"
      <4> DEFINE rest == gone.up \ EditorModals
                 left == gone.open - Cardinality(gone.up \cap EditorModals)
      <4>1. Cardinality(gone.up \cap EditorModals) \in Nat
        BY <2>3, DialogsAreFinite DEF Win, Dialog
      <4>2. rest \in SUBSET Dialog /\ left \in Int
        BY <2>3, <4>1 DEF Win
      <4>3. heard = [gone EXCEPT !.up = rest, !.open = left]
        BY <3>1 DEF cancelEditorModals, Settle
      <4>4. rest = v.up \ EditorModals /\ left = v.open - Cardinality(v.up \cap EditorModals)
        BY <2>3
      <4> HIDE DEF rest, left, heard
      <4>5. heard \in Win
        BY <2>3, <4>2, <4>3 DEF Win
      <4>6. /\ heard.up = rest /\ heard.open = left /\ heard.slot = gone.slot
            /\ heard.kind = gone.kind /\ heard.child = gone.child /\ heard.runtime = gone.runtime
        BY <2>3, <4>3 DEF Win
      <4> QED BY <2>3, <3>1, <4>4, <4>5, <4>6
    <3> QED BY <2>3, <3>1
  <2> HIDE DEF heard
  <2>5. /\ settled \in Win /\ settled.slot = v.slot /\ settled.kind = v.kind
        /\ settled.child = [v.child EXCEPT ![p] = IF @ = "alive" THEN "killed" ELSE @]
        /\ settled.runtime = heard.runtime /\ settled.up = heard.up /\ settled.open = heard.open
    BY <1>0, <1>2, <2>4 DEF disposeSession, Win
  <2> HIDE DEF settled
  <2>6. Same(settled, settled)
    BY <2>5 DEF Same
  <2>7. Same(settled, r)
    BY <1>2, <2>5, <2>6, CloseSame DEF drop, settled, heard, gone, bare
  <2> HIDE DEF r
  <2>8. /\ r \in Win /\ r.slot = settled.slot /\ r.kind = settled.kind /\ r.child = settled.child
        /\ r.runtime = settled.runtime /\ r.up = settled.up /\ r.open = settled.open
    BY <2>7 DEF Same, Core
  <2> QED BY <1>2, <2>4, <2>5, <2>8 DEF r
<1> QED BY <1>1, <1>2

\* disposePanes(): no column has a process, and no process of theirs goes on.
LEMMA DisposeDisposes ==
  ASSUME NEW v \in Win, \A p \in Proc : v.child[p] = "alive" => v.runtime[v.kind[p]] = p
  PROVE  LET r == disposePanes(v)
         IN  /\ r \in Win /\ r.slot = v.slot /\ r.up = v.up /\ r.open = v.open /\ r.kind = v.kind
             /\ r.runtime = [kind \in Kind |-> NoProc]
             /\ \A p \in Proc : r.child[p] # "alive"
<1> DEFINE blind == [v EXCEPT !.paneFocused = FALSE, !.visible = "none"]
           half == vacate(blind, "terminal")
           bare == vacate(half, "editor")
           editor == v.runtime["editor"]
           shell == v.runtime["terminal"]
           one == IF editor = NoProc THEN bare ELSE disposeSession(bare, editor)
           two == IF shell = NoProc THEN one ELSE disposeSession(one, shell)
           r == [two EXCEPT !.runtime = [kind \in Kind |-> NoProc]]
<1>1. disposePanes(v) = r
  BY DEF disposePanes
<1>2. Same(v, blind)
  BY ZenonT(60) DEF Same, Win, Core, Column
<1> HIDE DEF blind
<1>3. Same(v, half)
  BY <1>2, LayoutSame DEF Kind
<1> HIDE DEF half
<1>4. Same(v, bare)
  BY <1>3, LayoutSame DEF Kind
<1> HIDE DEF bare
<1>5. editor \in Proc \cup {NoProc} /\ shell \in Proc \cup {NoProc}
  BY DEF Win, Kind
<1> DEFINE gone == {editor, shell} \ {NoProc}
<1>6. /\ one \in Win /\ one.slot = v.slot /\ one.up = v.up /\ one.open = v.open
      /\ one.kind = v.kind
      /\ \A p \in Proc : /\ p = editor => one.child[p] # "alive"
                         /\ one.child[p] = "alive" => v.child[p] = "alive"
  <2>1. bare \in Win /\ bare.slot = v.slot /\ bare.up = v.up /\ bare.open = v.open
        /\ bare.kind = v.kind /\ bare.child = v.child
    BY <1>4 DEF Same, Core
  <2>2. CASE editor = NoProc
    BY <2>1, <2>2, WindowAssumption
  <2>3. CASE editor # NoProc
    BY <1>5, <2>1, <2>3 DEF disposeSession, Win
  <2> QED BY <2>2, <2>3
<1> HIDE DEF one
<1>7. /\ two \in Win /\ two.slot = v.slot /\ two.up = v.up /\ two.open = v.open
      /\ two.kind = v.kind
      /\ \A p \in Proc : /\ p \in gone => two.child[p] # "alive"
                         /\ two.child[p] = "alive" => v.child[p] = "alive"
  <2>1. CASE shell = NoProc
    BY <1>6, <2>1
  <2>2. CASE shell # NoProc
    BY <1>5, <1>6, <2>2 DEF disposeSession, Win
  <2> QED BY <2>1, <2>2
<1> HIDE DEF two
<1>8. \A p \in Proc : v.child[p] = "alive" => p \in gone
  <2>1. ASSUME NEW p \in Proc, v.child[p] = "alive" PROVE p \in gone
    BY <2>1, WindowAssumption DEF Win, Kind
  <2> QED BY <2>1
<1>9. /\ r \in Win /\ r.slot = two.slot /\ r.up = two.up /\ r.open = two.open /\ r.kind = two.kind
      /\ r.child = two.child /\ r.runtime = [kind \in Kind |-> NoProc]
  BY <1>7 DEF Win
<1> HIDE DEF r, gone
<1> QED BY <1>1, <1>7, <1>8, <1>9

-----------------------------------------------------------------------------
(* The processes of a window                                               *)

\* A column's process is the one started for it, and it is there until its exit event; every
\* process that runs has its column.
Procs(v) ==
    /\ \A kind \in Kind :
         LET p == v.runtime[kind]
         IN  p # NoProc => v.child[p] \in {"alive", "exited"} /\ v.kind[p] = kind
    /\ \A p \in Proc : v.child[p] = "alive" => v.runtime[v.kind[p]] = p

Programs(v) == <<v.runtime, v.child, v.kind>>

Without(v) == \A kind \in Kind : v.runtime[kind] = NoProc

\* What a step does to the processes.
Unmoved(r) == r \in Win /\ Programs(r) = Programs(w) /\ closing' = closing
Stays(r) == Same(w, r) /\ closing' = closing
Starts(r) ==
    /\ r \in Win /\ closing = "no" /\ closing' = "no"
    /\ r.slot = w.slot /\ r.up = w.up /\ r.open = w.open
    /\ \E kind \in Kind, p \in Free :
         /\ w.runtime[kind] = NoProc
         /\ r.runtime = [w.runtime EXCEPT ![kind] = p]
         /\ r.child = [w.child EXCEPT ![p] = "alive"]
         /\ r.kind = [w.kind EXCEPT ![p] = kind]
Ends(r) == r \in Win /\ closing' # "no" /\ Without(r) /\ \A p \in Proc : r.child[p] # "alive"

\* What holds of the programs, whatever is painted and whoever has the keyboard.
ProgramInv ==
    /\ w \in Win /\ Procs(w)
    /\ leaving \in [Leaver -> {"no", "asked", "discarding"}]
    /\ closing \in {"no", "closing", "closed"}
    /\ closing # "no" => Without(w)

LEMMA UnmovedKeeps == ASSUME ProgramInv, Unmoved(w') PROVE Procs(w') /\ (closing' # "no" => Without(w'))
BY DEF ProgramInv, Unmoved, Programs, Procs, Without

LEMMA StartsKeeps == ASSUME ProgramInv, Starts(w') PROVE Procs(w') /\ (closing' # "no" => Without(w'))
<1>1. PICK kind \in Kind, p \in Free :
         /\ w.runtime[kind] = NoProc
         /\ w'.runtime = [w.runtime EXCEPT ![kind] = p]
         /\ w'.child = [w.child EXCEPT ![p] = "alive"]
         /\ w'.kind = [w.kind EXCEPT ![p] = kind]
  BY DEF Starts
<1>2. p \in Proc /\ w.child[p] = "free" /\ p # NoProc
  BY WindowAssumption DEF Free
<1>3. /\ w.runtime \in [Kind -> Proc \cup {NoProc}] /\ w.kind \in [Proc -> Kind]
      /\ w.child \in [Proc -> {"free", "alive", "exited", "killed"}]
  BY DEF ProgramInv, Win
<1>4. ASSUME NEW k \in Kind, w'.runtime[k] # NoProc
      PROVE w'.child[w'.runtime[k]] \in {"alive", "exited"} /\ w'.kind[w'.runtime[k]] = k
  <2>1. CASE k = kind
    BY <1>1, <1>2, <1>3, <2>1
  <2>2. CASE k # kind
    <3>1. w'.runtime[k] = w.runtime[k] /\ w.runtime[k] \in Proc
      BY <1>1, <1>3, <1>4, <2>2
    <3>2. w.child[w.runtime[k]] \in {"alive", "exited"} /\ w.kind[w.runtime[k]] = k
      BY <1>4, <3>1 DEF ProgramInv, Procs
    <3> QED BY <1>1, <1>2, <1>3, <3>1, <3>2
  <2> QED BY <2>1, <2>2
<1>5. ASSUME NEW q \in Proc, w'.child[q] = "alive" PROVE w'.runtime[w'.kind[q]] = q
  <2>1. CASE q = p
    BY <1>1, <1>2, <1>3, <2>1
  <2>2. CASE q # p
    <3>1. w.child[q] = "alive" /\ w'.kind[q] = w.kind[q]
      BY <1>1, <1>2, <1>3, <1>5, <2>2
    <3>2. w.runtime[w.kind[q]] = q /\ w.kind[q] \in Kind
      BY <1>3, <3>1 DEF ProgramInv, Procs
    <3> QED BY <1>1, <1>2, <1>3, <3>1, <3>2, WindowAssumption
  <2> QED BY <2>1, <2>2
<1> QED BY <1>4, <1>5 DEF Procs, Starts

LEMMA EndsKeeps == ASSUME Ends(w') PROVE Procs(w') /\ (closing' # "no" => Without(w'))
BY DEF Ends, Procs, Without

\* drop() of a column, and what the caller does to the process that had it.
LEMMA DropKeeps ==
  ASSUME NEW v \in Win, Procs(v), NEW column \in Kind
  PROVE  LET r == drop(v, column)
         IN  /\ Procs(r) /\ r.runtime[column] = NoProc
             /\ \A kind \in Kind : r.runtime[kind] \in {v.runtime[kind], NoProc}
             /\ \A kind \in Kind : kind # column => r.runtime[kind] = v.runtime[kind]
             /\ \A p \in Proc : r.child[p] = "alive" => v.child[p] = "alive"
<1> DEFINE r == drop(v, column)
           p == v.runtime[column]
<1>1. /\ r \in Win /\ r.kind = v.kind
      /\ r.runtime = [v.runtime EXCEPT ![column] = NoProc]
      /\ r.child = IF p = NoProc THEN v.child
                   ELSE [v.child EXCEPT ![p] = IF @ = "alive" THEN "killed" ELSE @]
  BY DropDrops
<1> HIDE DEF r
<1>2. /\ v.runtime \in [Kind -> Proc \cup {NoProc}] /\ v.kind \in [Proc -> Kind]
      /\ v.child \in [Proc -> {"free", "alive", "exited", "killed"}]
  BY DEF Win
<1>3. ASSUME NEW k \in Kind, r.runtime[k] # NoProc
      PROVE r.child[r.runtime[k]] \in {"alive", "exited"} /\ r.kind[r.runtime[k]] = k
  <2>1. k # column /\ r.runtime[k] = v.runtime[k] /\ v.runtime[k] \in Proc
    BY <1>1, <1>2, <1>3
  <2>2. v.child[v.runtime[k]] \in {"alive", "exited"} /\ v.kind[v.runtime[k]] = k
    BY <1>3, <2>1 DEF Procs
  <2>3. p # NoProc => v.kind[p] = column
    BY DEF Procs
  <2>4. p # v.runtime[k]
    BY <2>1, <2>2, <2>3, WindowAssumption
  <2> QED BY <1>1, <1>2, <2>1, <2>2, <2>4
<1>4. ASSUME NEW q \in Proc, r.child[q] = "alive" PROVE v.child[q] = "alive" /\ r.runtime[r.kind[q]] = q
  <2>1. v.child[q] = "alive" /\ q # p
    <3>1. CASE p = NoProc
      BY <1>1, <1>4, <3>1, WindowAssumption
    <3>2. CASE p # NoProc
      <4>1. r.child = [v.child EXCEPT ![p] = IF @ = "alive" THEN "killed" ELSE @]
        BY <1>1, <3>2
      <4> HIDE DEF p
      <4> QED BY <1>2, <1>4, <4>1
    <3> QED BY <3>1, <3>2
  <2>2. v.runtime[v.kind[q]] = q /\ v.kind[q] \in Kind
    BY <1>2, <2>1 DEF Procs
  <2> QED BY <1>1, <1>2, <2>1, <2>2
<1>5. Procs(r)
  BY <1>3, <1>4 DEF Procs
<1> QED BY <1>1, <1>2, <1>4, <1>5 DEF r

LEMMA StaysUnmoved == Stays(w') => Unmoved(w')
BY DEF Stays, Same, Core, Unmoved, Programs

LEMMA SameStays == ASSUME NEW v, Same(w, v), Only(v) PROVE Stays(w')
BY DEF Only, Stays

LEMMA FocusColumnDoes ==
  ASSUME ProgramInv, closing = "no", NEW v, Same(w, v), NEW kind \in Kind, FocusColumn(v, kind)
  PROVE  Stays(w') \/ Starts(w')
<1>1. CASE Only(focusPane(v, kind))
  <2>1. Same(w, focusPane(v, kind))
    BY FocusSame DEF ProgramInv
  <2> QED BY <1>1, <2>1, SameStays
<1>2. CASE Only(v)
  BY <1>2, SameStays
<1>3. ASSUME v.runtime[kind] = NoProc, NEW p \in Free, Only(focusPane(mount(v, kind, p), kind))
      PROVE  Starts(w')
  <2> DEFINE t == mount(v, kind, p)
             r == focusPane(t, kind)
  <2>1. /\ t \in Win /\ t.runtime = [v.runtime EXCEPT ![kind] = p]
        /\ t.child = [v.child EXCEPT ![p] = "alive"] /\ t.kind = [v.kind EXCEPT ![p] = kind]
        /\ t.slot = v.slot /\ t.up = v.up /\ t.open = v.open
    BY DEF mount, Same, Win, Free
  <2> HIDE DEF t
  <2>2. Same(t, t)
    BY <2>1 DEF Same
  <2>3. Same(t, r)
    BY <2>1, <2>2, FocusSame
  <2> HIDE DEF r
  <2>4. /\ v.runtime = w.runtime /\ v.child = w.child /\ v.kind = w.kind
        /\ v.slot = w.slot /\ v.up = w.up /\ v.open = w.open
    BY DEF Same, Core
  <2>5. /\ r \in Win /\ r.runtime = [w.runtime EXCEPT ![kind] = p]
        /\ r.child = [w.child EXCEPT ![p] = "alive"] /\ r.kind = [w.kind EXCEPT ![p] = kind]
        /\ r.slot = w.slot /\ r.up = w.up /\ r.open = w.open /\ w.runtime[kind] = NoProc
    BY <1>3, <2>1, <2>3, <2>4 DEF Same, Core
  <2>6. w' = r /\ closing' = "no"
    BY <1>3 DEF Only, r, t
  <2> QED BY <2>5, <2>6 DEF Starts
<1> QED BY <1>1, <1>2, <1>3 DEF FocusColumn

LEMMA BeginLeaveDoes ==
  ASSUME ProgramInv, NEW v, Same(w, v), NEW quit, BeginLeave(v, quit) PROVE Stays(w')
BY DEF BeginLeave, Stays

LEMMA ToggleDoes ==
  ASSUME ProgramInv, closing = "no", NEW v, Same(w, v), NEW kind \in Kind, Toggle(v, kind)
  PROVE  Stays(w') \/ Starts(w')
<1>1. CASE FocusColumn(v, kind)
  BY <1>1, FocusColumnDoes
<1>2. CASE Only(close(v))
  BY <1>2, CloseSame, SameStays DEF ProgramInv
<1>3. CASE Only(v)
  BY <1>3, SameStays
<1>4. CASE BeginLeave(v, FALSE)
  BY <1>4, BeginLeaveDoes
<1> QED BY <1>1, <1>2, <1>3, <1>4 DEF Toggle

LEMMA ShutdownDoes == ASSUME ProgramInv, Shutdown(w) PROVE Ends(w')
<1>1. \A p \in Proc : w.child[p] = "alive" => w.runtime[w.kind[p]] = p
  BY DEF ProgramInv, Procs
<1> DEFINE r == disposePanes(w)
<1>2. r \in Win /\ r.runtime = [kind \in Kind |-> NoProc] /\ \A p \in Proc : r.child[p] # "alive"
  BY <1>1, DisposeDisposes DEF ProgramInv
<1>3. w' = r /\ closing' = "closing"
  BY DEF Shutdown
<1> HIDE DEF r
<1> QED BY <1>2, <1>3 DEF Ends, Without

LEMMA ToggleConversationDoes ==
  ASSUME ProgramInv, closing = "no", ToggleConversation PROVE Stays(w') \/ Starts(w')
<1> DEFINE hidden == setConversationVisible(w, FALSE)
           regained == setConversationVisible(w, TRUE)
<1>0. Same(w, w) /\ w \in Win
  BY DEF Same, ProgramInv
<1>1. Same(w, hidden) /\ Same(w, regained)
  BY <1>0, LayoutSame
<1>2. w.visible # "none" => w.visible \in Kind
  BY <1>0 DEF Win, Column
<1>3. \/ Only(hidden) \/ (w.visible # "none" /\ FocusColumn(hidden, w.visible))
      \/ Only(focusRail(hidden)) \/ Only(blurPane(regained)) \/ Only(blurRail(regained))
      \/ Only([regained EXCEPT !.focus = "composer"])
  BY DEF ToggleConversation
<1> HIDE DEF hidden, regained
<1>4. CASE w.visible # "none" /\ FocusColumn(hidden, w.visible)
  BY <1>1, <1>2, <1>4, FocusColumnDoes
<1>5. /\ Same(w, focusRail(hidden)) /\ Same(w, blurPane(regained)) /\ Same(w, blurRail(regained))
      /\ Same(w, [regained EXCEPT !.focus = "composer"])
  BY <1>0, <1>1, FocusSame, BlurSame, FlagsSame
<1> QED BY <1>1, <1>3, <1>4, <1>5, SameStays

LEMMA KeyDoes == ASSUME ProgramInv, Key PROVE Stays(w') \/ Starts(w') \/ Ends(w')
<1>0. closing = "no" /\ w \in Win /\ Same(w, w)
  BY DEF Key, ProgramInv, Same
<1>1. Same(w, blurPane(w)) /\ Same(w, blurRail(w))
  BY <1>0, BlurSame
<1>2. CASE Quit
  <2>1. CASE Shutdown(w)
    BY <2>1, ShutdownDoes
  <2>2. CASE BeginLeave(w, TRUE)
    BY <1>0, <2>2, BeginLeaveDoes
  <2> QED BY <1>2, <2>1, <2>2 DEF Quit
<1>3. CASE ToggleConversation
  BY <1>0, <1>3, ToggleConversationDoes
<1>4. CASE MoveDivider
  BY <1>0, <1>4, DragSame, SameStays DEF MoveDivider
<1>5. CASE RailKey
  <2>1. Same(w, toggleRail(w))
    BY <1>0, FocusSame
  <2> QED BY <1>0, <1>1, <1>5, <2>1, ToggleDoes, SameStays DEF RailKey
<1>6. CASE PaneKey
  <2>1. Same(w, toggleRail(w)) /\ Same(w, toggleRail(blurPane(w)))
    BY <1>0, <1>1, FocusSame
  <2> QED BY <1>0, <1>1, <1>6, <2>1, ToggleDoes, SameStays DEF PaneKey
<1>7. CASE ComposerKey
  <2>1. Same(w, toggleRail(w)) /\ Same(w, focusRail(w))
    BY <1>0, FocusSame
  <2> DEFINE column == switchable(w)
  <2>2. column # "none" => column \in Kind
    BY <1>0 DEF switchable, Win, Column, Kind
  <2>3. \/ Only(focusRail(w)) \/ (column # "none" /\ FocusColumn(w, column))
        \/ (\E kind \in Kind : Toggle(w, kind)) \/ Only(toggleRail(w))
    BY <1>7 DEF ComposerKey
  <2> HIDE DEF column
  <2>4. CASE column # "none" /\ FocusColumn(w, column)
    BY <1>0, <2>2, <2>4, FocusColumnDoes
  <2>5. CASE \E kind \in Kind : Toggle(w, kind)
    BY <1>0, <2>5, ToggleDoes
  <2> QED BY <2>1, <2>3, <2>4, <2>5, SameStays
<1> QED BY <1>2, <1>3, <1>4, <1>5, <1>6, <1>7 DEF Key

LEMMA ResizeStays == ASSUME w \in Win, Resize PROVE Stays(w')
<1>1. PICK columns \in Widths : Only(Resized([w EXCEPT !.columns = columns]))
  BY DEF Resize
<1> DEFINE wide == [w EXCEPT !.columns = columns]
<1>2. Same(w, wide)
  <2>1. Same(w, w) /\ columns \in Nat
    BY WindowAssumption DEF Same
  <2>2. \A n \in Nat : Same(w, [w EXCEPT !.columns = n])
    BY <2>1, FlagsSame
  <2> QED BY <2>1, <2>2
<1>3. Only(Resized(wide))
  BY <1>1
<1> HIDE DEF wide
<1>4. Same(w, Resized(wide))
  BY <1>2, RebuildSame DEF Resized
<1> QED BY <1>3, <1>4, SameStays

\* The dialogs and the panel change no process.
LEMMA DialogUnmoved ==
  ASSUME w \in Win, UNCHANGED closing
  PROVE  /\ \A dialog \in Dialog : w' \in {Open(w, dialog), Settle(w, {dialog})} => Unmoved(w')
         /\ \A r \in Request :
               w' \in { [w EXCEPT !.open = @ + 1, !.slot = r, !.focus = "panel"],
                        [w EXCEPT !.open = @ - 1, !.slot = "composer", !.focus = "composer"] }
               => Unmoved(w')
<1>1. ASSUME NEW dialog \in Dialog, w' = Open(w, dialog) PROVE Unmoved(w')
  <2> DEFINE more == w.up \cup {dialog}
             count == w.open + 1
  <2>1. more \in SUBSET Dialog /\ count \in Int
    BY DEF Win
  <2>2. w' = [w EXCEPT !.up = more, !.open = count]
    BY <1>1 DEF Open
  <2> HIDE DEF more, count
  <2> QED BY <2>1, <2>2 DEF Win, Unmoved, Programs
<1>2. ASSUME NEW dialog \in Dialog, w' = Settle(w, {dialog}) PROVE Unmoved(w')
  <2> DEFINE rest == w.up \ {dialog}
             left == w.open - Cardinality(w.up \cap {dialog})
  <2>1. Cardinality(w.up \cap {dialog}) \in Nat
    BY DialogsAreFinite DEF Win
  <2>2. rest \in SUBSET Dialog /\ left \in Int
    BY <2>1 DEF Win
  <2>3. w' = [w EXCEPT !.up = rest, !.open = left]
    BY <1>2 DEF Settle
  <2> HIDE DEF rest, left
  <2> QED BY <2>2, <2>3 DEF Win, Unmoved, Programs
<1>3. ASSUME NEW r \in Request,
             w' \in { [w EXCEPT !.open = @ + 1, !.slot = r, !.focus = "panel"],
                      [w EXCEPT !.open = @ - 1, !.slot = "composer", !.focus = "composer"] }
      PROVE  Unmoved(w')
  <2>1. ASSUME NEW count \in Int, NEW slot \in Request \cup {"composer"},
               NEW focus \in {"panel", "composer"},
               w' = [w EXCEPT !.open = count, !.slot = slot, !.focus = focus]
        PROVE  Unmoved(w')
    BY <2>1 DEF Win, Unmoved, Programs
  <2> DEFINE more == w.open + 1
             less == w.open - 1
  <2>2. more \in Int /\ less \in Int
    BY DEF Win
  <2>3. \/ w' = [w EXCEPT !.open = more, !.slot = r, !.focus = "panel"]
        \/ w' = [w EXCEPT !.open = less, !.slot = "composer", !.focus = "composer"]
    BY <1>3
  <2> HIDE DEF more, less
  <2> QED BY <2>1, <2>2, <2>3
<1> QED BY <1>1, <1>2, <1>3

LEMMA ExitDoes ==
  ASSUME ProgramInv, NEW p \in Proc, Exit(p)
  PROVE  w' \in Win /\ Procs(w') /\ w'.runtime = w.runtime /\ closing' = closing
<1>1. /\ w' \in Win /\ w'.runtime = w.runtime /\ w'.kind = w.kind
      /\ w'.child = [w.child EXCEPT ![p] = "exited"]
  BY DEF Exit, Only, ProgramInv, Win
<1>2. w.child \in [Proc -> {"free", "alive", "exited", "killed"}] /\ w.runtime \in [Kind -> Proc \cup {NoProc}]
  BY DEF ProgramInv, Win
<1>3. ASSUME NEW kind \in Kind, w'.runtime[kind] # NoProc
      PROVE  w'.child[w'.runtime[kind]] \in {"alive", "exited"} /\ w'.kind[w'.runtime[kind]] = kind
  <2>1. w.runtime[kind] \in Proc
    BY <1>1, <1>2, <1>3
  <2>2. w.child[w.runtime[kind]] \in {"alive", "exited"} /\ w.kind[w.runtime[kind]] = kind
    BY <1>1, <1>3 DEF ProgramInv, Procs
  <2> QED BY <1>1, <1>2, <2>1, <2>2
<1>4. ASSUME NEW q \in Proc, w'.child[q] = "alive" PROVE w'.runtime[w'.kind[q]] = q
  BY <1>1, <1>2, <1>4 DEF ProgramInv, Procs
<1> QED BY <1>1, <1>3, <1>4 DEF Procs, Exit, Only

LEMMA ExitEventDoes ==
  ASSUME ProgramInv, NEW p \in Proc, ExitEvent(p)
  PROVE  /\ w' \in Win /\ Procs(w') /\ closing' = closing
         /\ \A kind \in Kind : w'.runtime[kind] \in {w.runtime[kind], NoProc}
         /\ \A kind \in Kind : w'.runtime[kind] # w.runtime[kind] => w.child[w.runtime[kind]] = "exited"
<1> DEFINE column == w.kind[p]
           r == IF Disposed(p) THEN w ELSE drop(w, column)
<1>1. column \in Kind /\ w \in Win /\ Procs(w)
  BY DEF ProgramInv, Win
<1>2. /\ r \in Win /\ Procs(r) /\ \A kind \in Kind : r.runtime[kind] # p
      /\ \A kind \in Kind : r.runtime[kind] \in {w.runtime[kind], NoProc}
      /\ \A kind \in Kind : r.runtime[kind] # w.runtime[kind] => w.runtime[kind] = p
  <2>1. CASE Disposed(p)
    <3>1. \A kind \in Kind : w.runtime[kind] = p => w.kind[p] = kind
      BY <1>1, WindowAssumption DEF Procs
    <3> QED BY <1>1, <2>1, <3>1 DEF Disposed
  <2>2. CASE ~Disposed(p)
    <3>1. r = drop(w, column) /\ w.runtime[column] = p
      BY <2>2 DEF Disposed
    <3>2. /\ r \in Win /\ Procs(r) /\ r.runtime[column] = NoProc
          /\ \A kind \in Kind : r.runtime[kind] \in {w.runtime[kind], NoProc}
          /\ \A kind \in Kind : kind # column => r.runtime[kind] = w.runtime[kind]
      <4> DEFINE d == drop(w, column)
      <4>1. d \in Win
        BY <1>1, DropDrops
      <4>2. /\ Procs(d) /\ d.runtime[column] = NoProc
            /\ \A kind \in Kind : d.runtime[kind] \in {w.runtime[kind], NoProc}
            /\ \A kind \in Kind : kind # column => d.runtime[kind] = w.runtime[kind]
        BY <1>1, DropKeeps
      <4> HIDE DEF d
      <4>3. r = d
        BY <3>1 DEF d
      <4> HIDE DEF r
      <4> QED BY <4>1, <4>2, <4>3
    <3>3. ASSUME NEW kind \in Kind PROVE r.runtime[kind] # p
      <4>1. CASE kind = column
        BY <3>2, <4>1, WindowAssumption
      <4>2. ASSUME kind # column, r.runtime[kind] = p PROVE FALSE
        <5>1. w.runtime[kind] = p /\ p # NoProc
          BY <3>2, <4>2, WindowAssumption
        <5> QED BY <1>1, <4>2, <5>1 DEF Procs
      <4> QED BY <4>1, <4>2
    <3> HIDE DEF r
    <3> QED BY <3>1, <3>2, <3>3
  <2> QED BY <2>1, <2>2
<1>3. w' = [r EXCEPT !.child[p] = "free", !.kind[p] = "terminal"] /\ closing' = closing
  BY DEF ExitEvent, Only
<1> HIDE DEF r
<1>4. /\ w' \in Win /\ w'.runtime = r.runtime
      /\ w'.child = [r.child EXCEPT ![p] = "free"] /\ w'.kind = [r.kind EXCEPT ![p] = "terminal"]
  BY <1>2, <1>3 DEF Win, Kind
<1>5. /\ r.runtime \in [Kind -> Proc \cup {NoProc}] /\ r.kind \in [Proc -> Kind]
      /\ r.child \in [Proc -> {"free", "alive", "exited", "killed"}]
  BY <1>2 DEF Win
<1>6. Procs(w')
  <2>1. ASSUME NEW kind \in Kind, w'.runtime[kind] # NoProc
        PROVE  w'.child[w'.runtime[kind]] \in {"alive", "exited"} /\ w'.kind[w'.runtime[kind]] = kind
    BY <1>2, <1>4, <1>5, <2>1 DEF Procs
  <2>2. ASSUME NEW q \in Proc, w'.child[q] = "alive" PROVE w'.runtime[w'.kind[q]] = q
    BY <1>2, <1>4, <1>5, <2>2 DEF Procs
  <2> QED BY <2>1, <2>2 DEF Procs
<1>7. ASSUME NEW kind \in Kind, w'.runtime[kind] # w.runtime[kind]
      PROVE  w.child[w.runtime[kind]] = "exited"
  <2>1. w.runtime[kind] = p
    BY <1>2, <1>4, <1>7
  <2>2. w.child[p] \in {"alive", "exited"}
    BY <1>1, <2>1, WindowAssumption DEF Procs
  <2> QED BY <2>1, <2>2 DEF ExitEvent
<1> QED BY <1>2, <1>3, <1>4, <1>6, <1>7

LEMMA ResetDrops ==
  ASSUME NEW v \in Win, Procs(v)
  PROVE  LET r == reset(v) IN r \in Win /\ Procs(r) /\ Without(r) /\ r.slot = v.slot
<1> DEFINE shut == close(v)
           one == drop(shut, "terminal")
<1>1. Same(v, v)
  BY DEF Same
<1>2. Same(v, shut)
  BY <1>1, CloseSame
<1> HIDE DEF shut
<1>3. shut \in Win /\ Procs(shut) /\ shut.slot = v.slot
  BY <1>2 DEF Same, Core, Procs
<1>4. one \in Win /\ Procs(one) /\ one.slot = v.slot /\ one.runtime["terminal"] = NoProc
  BY <1>3, DropDrops, DropKeeps DEF Kind
<1> HIDE DEF one
<1> DEFINE r == drop(one, "editor")
<1>5. /\ r \in Win /\ Procs(r) /\ r.slot = v.slot /\ r.runtime["editor"] = NoProc
      /\ r.runtime["terminal"] = one.runtime["terminal"]
  BY <1>4, DropDrops, DropKeeps DEF Kind
<1>6. reset(v) = r
  BY DEF reset, r, one, shut
<1> HIDE DEF r
<1> QED BY <1>4, <1>5, <1>6 DEF Without, Kind

\* A step ends a program that exited, or with its Session, or with the window.
Spared ==
    \A kind \in Kind :
        LET p == w.runtime[kind]
        IN  p # NoProc /\ w.runtime'[kind] # p =>
              w.child[p] = "exited" \/ SwitchSession \/ closing' # "no"

LEMMA ProgramStep ==
  ASSUME ProgramInv, Next
  PROVE  w' \in Win /\ Procs(w') /\ (closing' # "no" => Without(w')) /\ Spared
<1>0. w \in Win /\ Same(w, w) /\ Procs(w)
  BY DEF ProgramInv, Same
<1>a. ASSUME Unmoved(w') PROVE w' \in Win /\ Procs(w') /\ (closing' # "no" => Without(w')) /\ Spared
  <2>1. Spared
    BY <1>a DEF Unmoved, Programs, Spared
  <2> QED BY <1>a, <2>1, UnmovedKeeps DEF Unmoved
<1>b. ASSUME Starts(w') PROVE w' \in Win /\ Procs(w') /\ (closing' # "no" => Without(w')) /\ Spared
  <2>1. Spared
    BY <1>b, <1>0 DEF Starts, Spared, Win
  <2> QED BY <1>b, <2>1, StartsKeeps DEF Starts
<1>c. ASSUME Ends(w') PROVE w' \in Win /\ Procs(w') /\ (closing' # "no" => Without(w')) /\ Spared
  BY <1>c, EndsKeeps DEF Ends, Spared
<1>1. CASE Key
  BY <1>1, <1>a, <1>b, <1>c, KeyDoes, StaysUnmoved
<1>2. CASE Dispose
  <2> DEFINE bare == disposePanes(w)
             off == setPane(bare, FALSE)
             r == cancelEditorModals(off)
             rest == off.up \ EditorModals
             left == off.open - Cardinality(off.up \cap EditorModals)
  <2>1. bare \in Win /\ Without(bare) /\ \A p \in Proc : bare.child[p] # "alive"
    BY <1>0, DisposeDisposes DEF Procs, Without
  <2> HIDE DEF bare
  <2>2. Same(bare, off)
    <3>1. Same(bare, bare)
      BY <2>1 DEF Same
    <3> QED BY <2>1, <3>1, LayoutSame
  <2> HIDE DEF off
  <2>3. off \in Win /\ off.runtime = bare.runtime /\ off.child = bare.child
    BY <2>2 DEF Same, Core
  <2>4. rest \in SUBSET Dialog /\ left \in Int
    <3>1. Cardinality(off.up \cap EditorModals) \in Nat
      BY <2>3, DialogsAreFinite DEF Win, Dialog
    <3> QED BY <2>3, <3>1 DEF Win
  <2>5. r = [off EXCEPT !.up = rest, !.open = left]
    BY DEF cancelEditorModals, Settle
  <2> HIDE DEF rest, left, r
  <2>6. r \in Win /\ r.runtime = off.runtime /\ r.child = off.child
    BY <2>3, <2>4, <2>5 DEF Win
  <2>7. Ends(r)
    BY <1>2, <2>1, <2>3, <2>6 DEF Ends, Without, Dispose
  <2>8. w' = r
    BY <1>2 DEF Dispose, r, off, bare
  <2> QED BY <1>c, <2>7, <2>8
<1>3. ASSUME NEW l \in Leaver, Left(l) \/ Refused(l) \/ NotDiscarded(l) \/ Decide(l)
      PROVE  w' \in Win /\ Procs(w') /\ (closing' # "no" => Without(w')) /\ Spared
  <2>1. CASE Shutdown(w)
    BY <2>1, <1>c, ShutdownDoes
  <2>2. CASE UNCHANGED <<w, closing>>
    BY <1>0, <1>a, <2>2 DEF Unmoved, Programs
  <2>3. CASE UNCHANGED closing /\ w' \in {Open(w, l), Settle(w, {l})}
    <3>1. l \in Dialog
      BY DEF Dialog, EditorModals
    <3>2. Unmoved(w')
      BY <1>0, <2>3, <3>1, DialogUnmoved
    <3> QED BY <1>a, <3>2
  <2> QED BY <1>3, <2>1, <2>2, <2>3 DEF Left, Refused, NotDiscarded, Decide
<1>4. ASSUME NEW r \in Request, Ask(r) \/ ShowPanel(r) \/ Answer(r) \/ Unanswered(r)
      PROVE  Unmoved(w')
  <2>1. CASE UNCHANGED <<w, closing>>
    BY <1>0, <2>1 DEF Unmoved, Programs
  <2>2. CASE UNCHANGED closing /\ w' \in { [w EXCEPT !.open = @ + 1, !.slot = r, !.focus = "panel"],
                        [w EXCEPT !.open = @ - 1, !.slot = "composer", !.focus = "composer"] }
    BY <1>0, <2>2, DialogUnmoved
  <2> QED BY <1>4, <2>1, <2>2 DEF Ask, ShowPanel, Answer, Unanswered
<1>5. CASE AskApproval \/ SettleApproval \/ AskConflict \/ SettleConflict
  <2>1. PICK dialog \in {"approval", "conflict"} :
           UNCHANGED closing /\ w' \in {Open(w, dialog), Settle(w, {dialog})}
    BY <1>5 DEF AskApproval, SettleApproval, AskConflict, SettleConflict, Only
  <2>2. dialog \in Dialog
    BY DEF Dialog, EditorModals
  <2>3. Unmoved(w')
    BY <1>0, <2>1, <2>2, DialogUnmoved
  <2> QED BY <1>a, <2>3
<1>6. ASSUME NEW p \in Proc, Exit(p) \/ ExitEvent(p)
      PROVE  w' \in Win /\ Procs(w') /\ (closing' # "no" => Without(w')) /\ Spared
  <2>1. CASE Exit(p)
    BY <2>1, ExitDoes DEF Spared, Without, ProgramInv
  <2>2. CASE ExitEvent(p)
    BY <2>2, ExitEventDoes DEF Spared, Without, ProgramInv
  <2> QED BY <1>6, <2>1, <2>2
<1>7. CASE SwitchSession
  <2>1. Spared
    BY <1>7 DEF Spared
  <2> QED BY <1>0, <1>7, <2>1, ResetDrops DEF SwitchSession, Only
<1>8. CASE SessionOpened
  <2>1. Same(w, blurRail(w))
    BY <1>0, BlurSame
  <2>2. Unmoved(w')
    BY <1>8, <2>1, SameStays, StaysUnmoved DEF SessionOpened
  <2> QED BY <1>a, <2>2
<1>9. CASE Resize
  BY <1>0, <1>9, <1>a, ResizeStays, StaysUnmoved
<1> QED BY <1>a, <1>1, <1>2, <1>3, <1>4, <1>5, <1>6, <1>7, <1>8, <1>9 DEF Next

\* A key begins at most one leave(), whose dialog is not on the screen.
Begins ==
    /\ UNCHANGED request
    /\ \/ UNCHANGED leaving
       \/ \E l \in Leaver : Idle(l) /\ leaving' = [leaving EXCEPT ![l] = "asked"]

LEMMA KeyBegins == Key => Begins /\ closing' \in {closing, "closing"}
<1>1. ASSUME NEW kind, NEW v, FocusColumn(v, kind) PROVE UNCHANGED <<leaving, request, closing>>
  BY <1>1 DEF FocusColumn, Only
<1>2. ASSUME NEW quit, NEW v, BeginLeave(v, quit) PROVE Begins /\ UNCHANGED closing
  BY <1>2 DEF BeginLeave, Begins
<1>3. ASSUME NEW kind, NEW v, Toggle(v, kind) PROVE Begins /\ UNCHANGED closing
  BY <1>1, <1>2, <1>3 DEF Toggle, Only, Begins
<1>4. CASE Quit
  BY <1>2, <1>4 DEF Quit, Shutdown, Begins
<1>5. CASE ToggleConversation
  BY <1>1, <1>5 DEF ToggleConversation, Only, Begins
<1>6. CASE MoveDivider
  BY <1>6 DEF MoveDivider, Only, Begins
<1>7. CASE RailKey \/ PaneKey \/ ComposerKey
  BY <1>1, <1>3, <1>7 DEF RailKey, PaneKey, ComposerKey, Only, Begins
<1> QED BY <1>4, <1>5, <1>6, <1>7 DEF Key

LEMMA LeavesStep ==
  ASSUME ProgramInv, Next
  PROVE  /\ leaving' \in [Leaver -> {"no", "asked", "discarding"}]
         /\ closing' \in {"no", "closing", "closed"}
<1>0. leaving \in [Leaver -> {"no", "asked", "discarding"}] /\ closing \in {"no", "closing", "closed"}
  BY DEF ProgramInv
<1>1. CASE Key
  BY <1>0, <1>1, KeyBegins DEF Begins
<1>2. CASE Dispose
  BY <1>0, <1>2 DEF Dispose
<1>3. ASSUME NEW l \in Leaver, Left(l) \/ Refused(l) \/ NotDiscarded(l) \/ Decide(l)
      PROVE  leaving' \in [Leaver -> {"no", "asked", "discarding"}]
             /\ closing' \in {"no", "closing", "closed"}
  BY <1>0, <1>3 DEF Left, Refused, NotDiscarded, Decide, Shutdown
<1>4. CASE \E r \in Request : Ask(r) \/ ShowPanel(r) \/ Answer(r) \/ Unanswered(r)
  BY <1>0, <1>4 DEF Ask, ShowPanel, Answer, Unanswered
<1>5. CASE \/ AskApproval \/ SettleApproval \/ AskConflict \/ SettleConflict
           \/ (\E p \in Proc : Exit(p) \/ ExitEvent(p)) \/ SwitchSession \/ SessionOpened \/ Resize
  BY <1>0, <1>5 DEF AskApproval, SettleApproval, AskConflict, SettleConflict, Exit, ExitEvent,
                    SwitchSession, SessionOpened, Resize, Only
<1> QED BY <1>1, <1>2, <1>3, <1>4, <1>5 DEF Next

\* The window as it starts.
LEMMA Starting ==
  ASSUME Init
  PROVE  /\ w \in Win /\ Current(w) /\ w.columns \in Widths /\ w.dragged = 0
         /\ w.runtime = [kind \in Kind |-> NoProc] /\ w.child = [p \in Proc |-> "free"]
         /\ w.railFocused = FALSE /\ w.paneFocused = FALSE /\ w.paneOn = FALSE
         /\ w.seat = "none" /\ w.visible = "none" /\ w.focus = "composer"
         /\ w.slot = "composer" /\ w.up = {} /\ w.open = 0
<1>1. PICK columns \in Widths :
         w = Lay([columns |-> columns, dragged |-> 0,
                  railWanted |-> TRUE, railShown |-> FALSE,
                  conversationWanted |-> TRUE, conversationShown |-> TRUE,
                  paneOn |-> FALSE, seat |-> "none", visible |-> "none", last |-> "none",
                  runtime |-> [kind \in Kind |-> NoProc],
                  railFocused |-> FALSE, paneFocused |-> FALSE, focus |-> "composer",
                  child |-> [p \in Proc |-> "free"], kind |-> [p \in Proc |-> "terminal"],
                  slot |-> "composer", up |-> {}, open |-> 0])
  BY DEF Init
<1> DEFINE v == [columns |-> columns, dragged |-> 0,
                  railWanted |-> TRUE, railShown |-> FALSE,
                  conversationWanted |-> TRUE, conversationShown |-> TRUE,
                  paneOn |-> FALSE, seat |-> "none", visible |-> "none", last |-> "none",
                  runtime |-> [kind \in Kind |-> NoProc],
                  railFocused |-> FALSE, paneFocused |-> FALSE, focus |-> "composer",
                  child |-> [p \in Proc |-> "free"], kind |-> [p \in Proc |-> "terminal"],
                  slot |-> "composer", up |-> {}, open |-> 0]
<1>2. columns \in Nat
  BY WindowAssumption
<1>3. v \in Win
  BY <1>2 DEF Win, Column, Kind
<1>4. /\ v.columns = columns /\ v.dragged = 0 /\ v.paneOn = FALSE /\ v.seat = "none"
      /\ v.visible = "none" /\ v.paneFocused = FALSE /\ v.railFocused = FALSE
      /\ v.focus = "composer" /\ v.runtime = [kind \in Kind |-> NoProc]
      /\ v.child = [p \in Proc |-> "free"] /\ v.slot = "composer" /\ v.up = {} /\ v.open = 0
  OBVIOUS
<1>5. w = Lay(v)
  BY <1>1
<1> HIDE DEF v
<1>6. /\ w \in Win /\ Current(w) /\ Frames(w) = Frames(v) /\ Core(w) = Core(v)
      /\ w.railFocused = v.railFocused /\ w.focus = v.focus
  BY <1>3, <1>5, LayKeeps
<1>7. /\ w.columns = v.columns /\ w.dragged = v.dragged /\ w.paneOn = v.paneOn /\ w.seat = v.seat
      /\ w.visible = v.visible /\ w.paneFocused = v.paneFocused
  BY <1>6 DEF Frames
<1>8. /\ w.runtime = v.runtime /\ w.child = v.child /\ w.slot = v.slot /\ w.up = v.up /\ w.open = v.open
  BY <1>6 DEF Core
<1>9. w \in Win /\ Current(w) /\ w.columns \in Widths /\ w.dragged = 0
  BY <1>4, <1>6, <1>7
<1>10. w.runtime = [kind \in Kind |-> NoProc] /\ w.child = [p \in Proc |-> "free"]
  BY <1>4, <1>8
<1>11. /\ w.railFocused = FALSE /\ w.paneFocused = FALSE /\ w.paneOn = FALSE
       /\ w.seat = "none" /\ w.visible = "none" /\ w.focus = "composer"
  BY <1>4, <1>6, <1>7
<1>12. w.slot = "composer" /\ w.up = {} /\ w.open = 0
  BY <1>4, <1>8
<1> QED BY <1>9, <1>10, <1>11, <1>12

\* The processes and the columns know each other, whatever is pressed or painted: the
\* inductive invariant of the next two theorems.
THEOREM ProgramInvariant == Spec => []ProgramInv
<1>1. Init => ProgramInv
  <2> SUFFICES ASSUME Init PROVE ProgramInv
    OBVIOUS
  <2>1. w \in Win /\ w.runtime = [kind \in Kind |-> NoProc] /\ w.child = [p \in Proc |-> "free"]
    BY Starting
  <2>2. Procs(w)
    BY <2>1 DEF Procs
  <2>3. closing = "no" /\ leaving \in [Leaver -> {"no", "asked", "discarding"}]
    BY DEF Init
  <2> QED BY <2>1, <2>2, <2>3 DEF ProgramInv
<1>2. ProgramInv /\ [Next]_vars => ProgramInv'
  <2> SUFFICES ASSUME ProgramInv, [Next]_vars PROVE ProgramInv'
    OBVIOUS
  <2>1. CASE Next
    <3>1. w' \in Win /\ Procs(w') /\ (closing' # "no" => Without(w'))
      BY <2>1, ProgramStep
    <3>2. Procs(w)' = Procs(w') /\ Without(w)' = Without(w')
      BY DEF Procs, Without
    <3> QED BY <2>1, <3>1, <3>2, LeavesStep DEF ProgramInv
  <2>2. CASE UNCHANGED vars
    BY <2>2 DEF vars, ProgramInv, Procs, Without
  <2> QED BY <2>1, <2>2
<1> QED BY <1>1, <1>2, PTL DEF Spec

\* No program runs that the window does not know, and none after it is closed: whatever was
\* started in a column, by whichever key, and however the window was left (panes.ts).
THEOREM NothingIsLeftRunning == Spec => []NoneLeftBehind
<1>1. ProgramInv => NoneLeftBehind
  BY WindowAssumption DEF ProgramInv, NoneLeftBehind, Procs, Without, Win
<1> QED BY <1>1, ProgramInvariant, PTL

\* A live process leaves its column only when it ended by itself, with the Session or with
\* the window.
THEOREM ProgramsAreKept == Spec => ProgramKept
<1>1. ProgramInv /\ [Next]_vars => [Spared]_vars
  BY ProgramStep
<1>2. [Spared]_vars =>
         [\A kind \in Kind :
            LET p == w.runtime[kind]
            IN  p # NoProc /\ w.runtime'[kind] # p =>
                  w.child[p] = "exited" \/ SwitchSession \/ closing' # "no"]_vars
  BY DEF Spared
<1> QED BY <1>1, <1>2, ProgramInvariant, PTL DEF Spec, ProgramKept

-----------------------------------------------------------------------------
(* The holds on the global keys                                            *)

\* Every hold is a dialog or the panel, and an editor's dialog has its editor.
Held(v) ==
    /\ v.open = Cardinality(v.up) + (IF v.slot = "composer" THEN 0 ELSE 1)
    /\ v.up \cap EditorModals # {} => v.runtime["editor"] # NoProc

LEMMA SameHeld == ASSUME NEW v, NEW r, Same(v, r), Held(v) PROVE Held(r)
BY DEF Same, Core, Held

LEMMA OpenHeld ==
  ASSUME NEW v \in Win, Held(v), NEW dialog \in Dialog \ v.up,
         dialog \in EditorModals => v.runtime["editor"] # NoProc
  PROVE  LET r == Open(v, dialog)
         IN  Held(r) /\ r.up = v.up \cup {dialog} /\ r.slot = v.slot
<1> DEFINE r == Open(v, dialog)
<1>1. /\ r.up = v.up \cup {dialog} /\ r.open = v.open + 1 /\ r.slot = v.slot
      /\ r.runtime = v.runtime
  BY DEF Open, Win
<1>2. Cardinality(v.up \cup {dialog}) = Cardinality(v.up) + 1
  BY DialogsAreFinite, FS_AddElement DEF Win
<1>3. Cardinality(v.up) \in Nat
  BY DialogsAreFinite DEF Win
<1> HIDE DEF r
<1> QED BY <1>1, <1>2, <1>3 DEF Held, r

LEMMA SettleHeld ==
  ASSUME NEW v \in Win, Held(v), NEW dialog \in Dialog
  PROVE  LET r == Settle(v, {dialog})
         IN  Held(r) /\ r.up = v.up \ {dialog} /\ r.slot = v.slot
<1> DEFINE r == Settle(v, {dialog})
<1>1. /\ r.up = v.up \ {dialog} /\ r.open = v.open - Cardinality(v.up \cap {dialog})
      /\ r.slot = v.slot /\ r.runtime = v.runtime
  BY DEF Settle, Win
<1>2. Cardinality(v.up \ {dialog}) = Cardinality(v.up) - Cardinality(v.up \cap {dialog})
  BY DialogsAreFinite, FS_Difference DEF Win
<1>3. Cardinality(v.up) \in Nat /\ Cardinality(v.up \cap {dialog}) \in Nat
  BY DialogsAreFinite DEF Win
<1> HIDE DEF r
<1>4. r.open = Cardinality(r.up) + (IF r.slot = "composer" THEN 0 ELSE 1)
  BY <1>1, <1>2, <1>3 DEF Held
<1>5. r.up \cap EditorModals # {} => v.up \cap EditorModals # {}
  BY <1>1
<1>6. Held(r)
  BY <1>1, <1>4, <1>5 DEF Held
<1> QED BY <1>1, <1>6 DEF r

LEMMA DropHeld ==
  ASSUME NEW v \in Win, Held(v), NEW column \in Kind
  PROVE  LET r == drop(v, column)
         IN  Held(r) /\ r.up \subseteq v.up /\ r.slot = v.slot
<1> DEFINE r == drop(v, column)
           p == v.runtime[column]
<1>1. /\ r \in Win /\ r.slot = v.slot /\ r.runtime = [v.runtime EXCEPT ![column] = NoProc]
      /\ IF column = "editor" /\ p # NoProc
         THEN /\ r.up = v.up \ EditorModals
              /\ r.open = v.open - Cardinality(v.up \cap EditorModals)
         ELSE r.up = v.up /\ r.open = v.open
  BY DropDrops
<1> HIDE DEF r
<1>2. v.runtime \in [Kind -> Proc \cup {NoProc}]
  BY DEF Win
<1>3. CASE column = "editor" /\ p # NoProc
  <2>1. Cardinality(v.up \ EditorModals) = Cardinality(v.up) - Cardinality(v.up \cap EditorModals)
    BY DialogsAreFinite, FS_Difference DEF Win
  <2>2. Cardinality(v.up) \in Nat /\ Cardinality(v.up \cap EditorModals) \in Nat
    BY DialogsAreFinite DEF Win
  <2>3. r.up = v.up \ EditorModals /\ r.open = v.open - Cardinality(v.up \cap EditorModals)
    BY <1>1, <1>3
  <2>4. r.open = Cardinality(r.up) + (IF r.slot = "composer" THEN 0 ELSE 1)
    BY <1>1, <2>1, <2>2, <2>3 DEF Held
  <2>5. r.up \cap EditorModals = {}
    BY <2>3
  <2>6. Held(r)
    BY <2>4, <2>5 DEF Held
  <2> QED BY <1>1, <2>3, <2>6 DEF r
<1>4. CASE column = "editor" /\ p = NoProc
  BY <1>1, <1>2, <1>4 DEF Held, r
<1>5. CASE column # "editor"
  BY <1>1, <1>2, <1>5 DEF Held, r, Kind
<1> QED BY <1>3, <1>4, <1>5

LEMMA ResetHeld ==
  ASSUME NEW v \in Win, Held(v)
  PROVE  LET r == reset(v) IN Held(r) /\ r.up \subseteq v.up /\ r.slot = v.slot
<1> DEFINE shut == close(v)
           one == drop(shut, "terminal")
           r == drop(one, "editor")
<1>1. Same(v, v)
  BY DEF Same
<1>2. Same(v, shut)
  BY <1>1, CloseSame
<1> HIDE DEF shut
<1>3. shut \in Win /\ Held(shut) /\ shut.up = v.up /\ shut.slot = v.slot
  BY <1>2, SameHeld DEF Same, Core
<1>4. one \in Win /\ Held(one) /\ one.up \subseteq v.up /\ one.slot = v.slot
  BY <1>3, DropDrops, DropHeld DEF Kind
<1> HIDE DEF one
<1>5. Held(r) /\ r.up \subseteq v.up /\ r.slot = v.slot
  BY <1>4, DropHeld DEF Kind
<1> QED BY <1>5 DEF reset, r, one, shut

\* A patient user has one command that waits for the Host, and the composer under it.
Waits ==
    \A r \in Request : request[r] = "waiting" =>
        w.slot = "composer" /\ \A q \in Request : request[q] = "waiting" => q = r

HoldInv ==
    /\ request \in [Request -> {"none", "waiting", "shown"}]
    /\ closing = "no" => Held(w) /\ Waits /\ \A l \in Leaver : leaving[l] # "no" => l \notin w.up

\* A window that is closing does not open again.
LEMMA ClosedForGood == Next /\ closing' = "no" => closing = "no"
<1> SUFFICES ASSUME Next, closing' = "no" PROVE closing = "no"
  OBVIOUS
<1>1. CASE Key
  BY <1>1 DEF Key
<1>2. CASE Dispose
  BY <1>2 DEF Dispose
<1>3. CASE \E l \in Leaver : Left(l) \/ Refused(l) \/ NotDiscarded(l) \/ Decide(l)
  BY <1>3 DEF Left, Refused, NotDiscarded, Decide, Shutdown
<1>4. CASE \E r \in Request : Ask(r) \/ ShowPanel(r) \/ Answer(r) \/ Unanswered(r)
  BY <1>4 DEF Ask, ShowPanel, Answer, Unanswered
<1>5. CASE \/ AskApproval \/ SettleApproval \/ AskConflict \/ SettleConflict
           \/ (\E p \in Proc : Exit(p) \/ ExitEvent(p)) \/ SwitchSession \/ SessionOpened \/ Resize
  BY <1>5 DEF AskApproval, SettleApproval, AskConflict, SettleConflict, Exit, ExitEvent,
              SwitchSession, SessionOpened, Resize, Only
<1> QED BY <1>1, <1>2, <1>3, <1>4, <1>5 DEF Next

LEMMA HoldStep ==
  ASSUME Patient, ProgramInv, HoldInv, Next, closing' = "no"
  PROVE  /\ Held(w') /\ \A l \in Leaver : leaving'[l] # "no" => l \notin w'.up
         /\ \A r \in Request : request'[r] = "waiting" =>
               w'.slot = "composer" /\ \A q \in Request : request'[q] = "waiting" => q = r
<1> DEFINE Good == /\ Held(w') /\ \A l \in Leaver : leaving'[l] # "no" => l \notin w'.up
                   /\ \A r \in Request : request'[r] = "waiting" =>
                         w'.slot = "composer" /\ \A q \in Request : request'[q] = "waiting" => q = r
<1>0. closing = "no"
  BY ClosedForGood
<1>a. /\ w \in Win /\ Held(w) /\ Waits /\ \A l \in Leaver : leaving[l] # "no" => l \notin w.up
      /\ request \in [Request -> {"none", "waiting", "shown"}]
      /\ leaving \in [Leaver -> {"no", "asked", "discarding"}]
  BY <1>0 DEF HoldInv, ProgramInv
<1>b. ASSUME Held(w'), w'.up \subseteq w.up, w'.slot = w.slot, UNCHANGED <<leaving, request>> PROVE Good
  BY <1>a, <1>b DEF Waits
<1>c. ASSUME Stays(w'), UNCHANGED <<leaving, request>> PROVE Good
  BY <1>a, <1>b, <1>c, SameHeld DEF Stays, Same, Core
<1>1. CASE Key
  <2>1. Stays(w') \/ Starts(w')
    BY <1>1, KeyDoes DEF Ends
  <2>2. Held(w') /\ w'.up = w.up /\ w'.slot = w.slot
    <3>1. CASE Stays(w')
      BY <1>a, <3>1, SameHeld DEF Stays, Same, Core
    <3>2. CASE Starts(w')
      BY <1>a, <3>2, WindowAssumption DEF Starts, Held, Free, Win, Kind
    <3> QED BY <2>1, <3>1, <3>2
  <2>3. Begins
    BY <1>1, KeyBegins
  <2> QED BY <1>a, <2>2, <2>3 DEF Begins, Idle, Waits
<1>2. ASSUME NEW l \in Leaver, Left(l) \/ Refused(l) \/ NotDiscarded(l) \/ Decide(l)
      PROVE  Good
  <2>0. l \in Dialog /\ l \in EditorModals
    BY DEF Dialog, EditorModals
  <2>1. CASE Left(l) \/ NotDiscarded(l)
    <3>1. UNCHANGED <<w, request>> /\ leaving' = [leaving EXCEPT ![l] = "no"]
      BY <1>0, <2>1 DEF Left, NotDiscarded, Shutdown
    <3> QED BY <1>a, <3>1 DEF Waits
  <2>2. CASE Refused(l)
    <3>1. w' = Open(w, l) /\ leaving' = [leaving EXCEPT ![l] = "no"] /\ UNCHANGED request
      BY <2>2 DEF Refused
    <3>2. Held(w') /\ w'.up = w.up \cup {l} /\ w'.slot = w.slot
      BY <1>a, <2>0, <2>2, <3>1, OpenHeld DEF Refused
    <3> QED BY <1>a, <3>1, <3>2 DEF Waits
  <2>3. CASE Decide(l)
    <3>1. /\ w' = Settle(w, {l}) /\ UNCHANGED request
          /\ \E next \in {"no", "discarding", "asked"} : leaving' = [leaving EXCEPT ![l] = next]
      BY <2>3 DEF Decide
    <3>2. Held(w') /\ w'.up = w.up \ {l} /\ w'.slot = w.slot
      BY <1>a, <2>0, <3>1, SettleHeld
    <3> QED BY <1>a, <3>1, <3>2 DEF Waits
  <2> QED BY <1>2, <2>1, <2>2, <2>3
<1>3. ASSUME NEW r \in Request, Ask(r) \/ ShowPanel(r) \/ Answer(r) \/ Unanswered(r)
      PROVE  Good
  <2>0. Cardinality(w.up) \in Nat /\ r # "composer"
    BY <1>a, DialogsAreFinite, WindowAssumption DEF Win
  <2>1. CASE Ask(r)
    <3>1. w.slot = "composer"
      BY <1>a, <2>0, <2>1 DEF Ask, Held
    <3> QED BY <1>a, <2>1, <3>1 DEF Ask, Waits
  <2>2. CASE Unanswered(r)
    BY <1>a, <2>2 DEF Unanswered, Waits
  <2>3. CASE ShowPanel(r)
    <3>1. w.slot = "composer" /\ \A q \in Request : request[q] = "waiting" => q = r
      BY <1>a, <2>3 DEF ShowPanel, Waits
    <3>2. w'.open = w.open + 1 /\ w'.slot = r /\ w'.up = w.up /\ w'.runtime = w.runtime
      BY <1>a, <2>3 DEF ShowPanel, Win
    <3>3. Held(w')
      BY <1>a, <2>0, <3>1, <3>2 DEF Held
    <3>4. \A q \in Request : request'[q] # "waiting"
      BY <1>a, <2>3, <3>1 DEF ShowPanel
    <3> QED BY <1>a, <2>3, <3>2, <3>3, <3>4 DEF ShowPanel
  <2>4. CASE Answer(r)
    <3>1. w'.open = w.open - 1 /\ w'.slot = "composer" /\ w'.up = w.up /\ w'.runtime = w.runtime
      BY <1>a, <2>4 DEF Answer, Win
    <3>2. Held(w')
      BY <1>a, <2>0, <2>4, <3>1 DEF Held, Answer
    <3>3. \A q \in Request : request'[q] # "waiting"
      BY <1>a, <2>0, <2>4 DEF Answer, Waits
    <3> QED BY <1>a, <2>4, <3>1, <3>2, <3>3 DEF Answer
  <2> QED BY <1>3, <2>1, <2>2, <2>3, <2>4
<1>4. CASE AskApproval \/ AskConflict
  <2>1. PICK dialog \in {"approval", "conflict"} :
           /\ dialog \notin w.up /\ Only(Open(w, dialog))
           /\ dialog \in EditorModals => w.runtime["editor"] # NoProc
    BY <1>4 DEF AskApproval, AskConflict, EditorModals, Leaver
  <2>2. dialog \in Dialog /\ dialog \notin Leaver
    BY DEF Dialog, EditorModals, Leaver
  <2>3. Held(w') /\ w'.up = w.up \cup {dialog} /\ w'.slot = w.slot
    BY <1>a, <2>1, <2>2, OpenHeld DEF Only
  <2> QED BY <1>a, <2>1, <2>2, <2>3 DEF Only, Waits
<1>5. CASE SettleApproval \/ SettleConflict
  <2>1. PICK dialog \in {"approval", "conflict"} : Only(Settle(w, {dialog}))
    BY <1>5 DEF SettleApproval, SettleConflict
  <2>2. dialog \in Dialog
    BY DEF Dialog, EditorModals
  <2>3. Held(w') /\ w'.up = w.up \ {dialog} /\ w'.slot = w.slot
    BY <1>a, <2>1, <2>2, SettleHeld DEF Only
  <2> QED BY <1>b, <2>1, <2>3 DEF Only
<1>6. ASSUME NEW p \in Proc, Exit(p) \/ ExitEvent(p) PROVE Good
  <2>0. w.kind[p] \in Kind
    BY <1>a DEF Win
  <2>1. CASE Exit(p)
    <3>1. w'.up = w.up /\ w'.slot = w.slot /\ w'.open = w.open /\ w'.runtime = w.runtime
      BY <1>a, <2>1 DEF Exit, Only, Win
    <3> QED BY <1>a, <1>b, <2>1, <3>1 DEF Exit, Only, Held
  <2>2. CASE ExitEvent(p)
    <3> DEFINE gone == drop(w, w.kind[p])
               r == IF Disposed(p) THEN w ELSE gone
    <3>1. gone \in Win /\ Held(gone) /\ gone.up \subseteq w.up /\ gone.slot = w.slot
      BY <1>a, <2>0, DropDrops, DropHeld
    <3>2. w' = [r EXCEPT !.child[p] = "free", !.kind[p] = "terminal"] /\ UNCHANGED <<leaving, request>>
      BY <2>2 DEF ExitEvent, Only
    <3> HIDE DEF gone
    <3>3. r \in Win /\ Held(r) /\ r.up \subseteq w.up /\ r.slot = w.slot
      BY <1>a, <3>1
    <3> HIDE DEF r
    <3>4. w'.up = r.up /\ w'.slot = r.slot /\ w'.open = r.open /\ w'.runtime = r.runtime
      BY <3>2, <3>3 DEF Win
    <3> QED BY <1>b, <3>2, <3>3, <3>4 DEF Held
  <2> QED BY <1>6, <2>1, <2>2
<1>7. CASE SwitchSession
  BY <1>a, <1>b, <1>7, ResetHeld DEF SwitchSession, Only
<1>8. CASE SessionOpened
  <2>1. Same(w, w)
    BY <1>a DEF Same
  <2>2. Stays(w')
    BY <1>a, <1>8, <2>1, BlurSame, SameStays DEF SessionOpened
  <2> QED BY <1>c, <1>8, <2>2 DEF SessionOpened, Only
<1>9. CASE Resize
  BY <1>c, <1>9, ResizeStays DEF Resize, Only, ProgramInv
<1>10. CASE Dispose
  BY <1>10 DEF Dispose
<1> QED BY <1>1, <1>2, <1>3, <1>4, <1>5, <1>6, <1>7, <1>8, <1>9, <1>10 DEF Next

LEMMA RequestsStep ==
  ASSUME HoldInv, Next PROVE request' \in [Request -> {"none", "waiting", "shown"}]
<1>0. request \in [Request -> {"none", "waiting", "shown"}]
  BY DEF HoldInv
<1>1. CASE Key
  BY <1>0, <1>1, KeyBegins DEF Begins
<1>2. CASE Dispose \/ \E l \in Leaver : Left(l) \/ Refused(l) \/ NotDiscarded(l) \/ Decide(l)
  BY <1>0, <1>2 DEF Dispose, Left, Refused, NotDiscarded, Decide
<1>3. CASE \E r \in Request : Ask(r) \/ ShowPanel(r) \/ Answer(r) \/ Unanswered(r)
  BY <1>0, <1>3 DEF Ask, ShowPanel, Answer, Unanswered
<1>4. CASE \/ AskApproval \/ SettleApproval \/ AskConflict \/ SettleConflict
           \/ (\E p \in Proc : Exit(p) \/ ExitEvent(p)) \/ SwitchSession \/ SessionOpened \/ Resize
  BY <1>0, <1>4 DEF AskApproval, SettleApproval, AskConflict, SettleConflict, Exit, ExitEvent,
                    SwitchSession, SessionOpened, Resize, Only
<1> QED BY <1>1, <1>2, <1>3, <1>4 DEF Next

\* Each hold is a dialog's or the panel's, one command at most waits for the Host, and no
\* leave() asks while its dialog is on the screen.
THEOREM HoldInvariant == ASSUME Patient PROVE Spec => []HoldInv
<1>1. Init => HoldInv
  <2> SUFFICES ASSUME Init PROVE HoldInv
    OBVIOUS
  <2>1. w.slot = "composer" /\ w.up = {} /\ w.open = 0
    BY Starting
  <2>2. Held(w)
    BY <2>1, FS_EmptySet DEF Held
  <2>3. request = [r \in Request |-> "none"] /\ leaving = [l \in Leaver |-> "no"]
    BY DEF Init
  <2> QED BY <2>1, <2>2, <2>3 DEF HoldInv, Waits
<1>2. ProgramInv /\ HoldInv /\ [Next]_vars => HoldInv'
  <2> SUFFICES ASSUME ProgramInv, HoldInv, [Next]_vars PROVE HoldInv'
    OBVIOUS
  <2>1. CASE Next
    <3>1. Held(w)' = Held(w')
      BY DEF Held
    <3>2. closing' = "no" =>
             Held(w') /\ Waits' /\ \A l \in Leaver : leaving'[l] # "no" => l \notin w'.up
      BY <2>1, HoldStep DEF Waits
    <3> QED BY <2>1, <3>1, <3>2, RequestsStep DEF HoldInv
  <2>2. CASE UNCHANGED vars
    BY <2>2 DEF vars, HoldInv, Held, Waits
  <2> QED BY <2>1, <2>2
<1> QED BY <1>1, <1>2, ProgramInvariant, PTL DEF Spec

\* Global keys come back: while the user presses no key under a command that waits for the
\* Host, every hold is that of a dialog on the screen or of the panel, and an editor's dialog
\* never outlives its editor (overlays.ts).
THEOREM HoldsAreAnswered == ASSUME Patient PROVE Spec => []HoldAnswered
<1>1. HoldInv => HoldAnswered
  BY DEF HoldInv, Held, HoldAnswered
<1> QED BY <1>1, HoldInvariant, PTL

-----------------------------------------------------------------------------
(* The keyboard has one home                                               *)

\* What is painted and who has the keyboard.
Shape(v) == <<v.railShown, v.conversationShown, v.conversationWanted, v.railFocused, v.focus>>

LEMMA ShapeHomed ==
  ASSUME NEW v, Homed(v), NEW r \in Win, Frames(r) = Frames(v), Shape(r) = Shape(v),
         r.runtime = v.runtime, r.slot = v.slot
  PROVE  Homed(r) /\ Size(r) = Size(v)
<1>1. Fits(r) = Fits(v) /\ paneShown(r) = paneShown(v) /\ Size(r) = Size(v)
      /\ r.railWanted = v.railWanted /\ r.paneFocused = v.paneFocused
  BY SameFrame
<1>2. r.visible = v.visible /\ r.paneOn = v.paneOn /\ r.seat = v.seat
  BY DEF Frames
<1>3. /\ r.railShown = v.railShown /\ r.conversationShown = v.conversationShown
      /\ r.conversationWanted = v.conversationWanted /\ r.railFocused = v.railFocused
      /\ r.focus = v.focus
  BY DEF Shape
<1>4. Current(r)
  BY <1>1, <1>3 DEF Homed, Current
<1>5. Seated(r) /\ InOneHome(r) /\ RailPainted(r)
  BY <1>1, <1>2, <1>3 DEF Homed, Seated, InOneHome, RailPainted
<1> QED BY <1>1, <1>4, <1>5 DEF Homed

\* The pane is about to be hidden, and its program may be gone already.
Closable(v) ==
    /\ v \in Win /\ v.paneOn /\ v.visible # "none"
    /\ v.seat # "none" => v.runtime[v.seat] # NoProc
    /\ ~(v.railFocused /\ v.paneFocused)
    /\ ~v.railFocused /\ ~v.paneFocused =>
          v.focus = (IF v.slot = "composer" THEN "composer" ELSE "panel")
    /\ v.slot # "composer" => ~v.railFocused /\ ~v.paneFocused

LEMMA HomedIsClosable == \A v : Homed(v) /\ v.paneOn => Closable(v)
BY DEF Homed, Seated, InOneHome, Closable

LEMMA Closed ==
  ASSUME NEW v, Closable(v)
  PROVE  LET r == close(v)
         IN  /\ Moves(v, r) /\ ~r.paneFocused
             /\ v.paneFocused \/ ~v.railFocused => ~r.railFocused
<1> DEFINE noted == [v EXCEPT !.last = IF v.visible = "none" THEN @ ELSE v.visible]
           off == [noted EXCEPT !.paneFocused = FALSE]
           textOut == showConversation(off)
           left == blurPane(noted)
           bare == [left EXCEPT !.visible = "none"]
           pre == [bare EXCEPT !.paneOn = FALSE]
           hidden == rebuild(pre)
<1>1. /\ noted \in Win /\ Core(noted) = Core(v) /\ Size(noted) = Size(v)
      /\ noted.paneOn = v.paneOn /\ noted.seat = v.seat /\ noted.focus = v.focus
      /\ noted.paneFocused = v.paneFocused /\ noted.railFocused = v.railFocused
  BY DEF Closable, Win, Core, Size
<1> HIDE DEF noted
<1>2. /\ left \in Win /\ Core(left) = Core(v) /\ Size(left) = Size(v)
      /\ left.paneOn /\ left.seat = v.seat /\ ~left.paneFocused
      /\ IF v.paneFocused THEN ~left.railFocused /\ left.focus = "composer"
         ELSE left.railFocused = v.railFocused /\ left.focus = v.focus
  <2>1. CASE ~v.paneFocused
    BY <1>1, <2>1 DEF blurPane, Closable
  <2>2. CASE v.paneFocused
    <3>1. /\ off \in Win /\ Core(off) = Core(v) /\ Size(off) = Size(v) /\ off.paneOn
          /\ off.seat = v.seat /\ ~off.paneFocused /\ ~off.railFocused
      BY <1>1, <2>2 DEF Closable, Win, Core, Size
    <3> HIDE DEF off
    <3>2. textOut \in Win /\ Frames(textOut) = Frames(off) /\ Core(textOut) = Core(off) /\ ~textOut.railFocused
      BY <3>1, TextShown
    <3> HIDE DEF textOut
    <3>3. left = [textOut EXCEPT !.focus = "composer"]
      BY <1>1, <2>2 DEF blurPane, textOut, off
    <3> HIDE DEF left
    <3>4. /\ left \in Win /\ Frames(left) = Frames(textOut) /\ Core(left) = Core(textOut)
          /\ ~left.railFocused /\ left.focus = "composer"
      BY <3>2, <3>3 DEF Win, Frames, Core
    <3>5. Frames(left) = Frames(off)
      BY <3>2, <3>4
    <3>6. Size(left) = Size(off) /\ left.paneOn = off.paneOn /\ left.seat = off.seat
          /\ left.paneFocused = off.paneFocused
      BY <3>5 DEF Frames, Size
    <3> QED BY <2>2, <3>1, <3>2, <3>4, <3>6
  <2> QED BY <2>1, <2>2 DEF Closable, Win
<1>3. close(v) = IF v.paneFocused THEN [hidden EXCEPT !.focus = "composer"] ELSE hidden
  <2>1. bare.paneOn
    BY <1>2 DEF Win
  <2> QED BY <2>1 DEF close, Closable, setPane, hidden, pre, bare, left, noted
<1> HIDE DEF left
<1>4. /\ pre \in Win /\ Core(pre) = Core(v) /\ Size(pre) = Size(v) /\ ~pre.paneOn
      /\ pre.visible = "none" /\ pre.seat = v.seat /\ ~pre.paneFocused
      /\ pre.railFocused = left.railFocused /\ pre.focus = left.focus
  <2>1. left \in Win
    BY <1>2
  <2>2. /\ pre \in Win /\ Core(pre) = Core(left) /\ Size(pre) = Size(left) /\ ~pre.paneOn
        /\ pre.visible = "none" /\ pre.seat = left.seat /\ pre.paneFocused = left.paneFocused
        /\ pre.railFocused = left.railFocused /\ pre.focus = left.focus
    BY <2>1, ZenonT(60) DEF Win, Core, Size, Column
  <2> HIDE DEF pre
  <2> QED BY <1>2, <2>2
<1> HIDE DEF pre
<1>5. pre.slot = v.slot /\ pre.runtime = v.runtime
  BY <1>4 DEF Core
<1>6. Seated(pre) /\ InOneHome(pre)
  BY <1>2, <1>4, <1>5 DEF Closable, Seated, InOneHome
<1>7. Moves(pre, hidden) /\ Frames(hidden) = Frames(pre) /\ Rebuilt(pre, hidden)
  BY <1>4, <1>6, RebuildHomes, RebuildRebuilds
<1> HIDE DEF hidden
<1>8. hidden.paneFocused = pre.paneFocused /\ (~pre.railFocused => ~hidden.railFocused)
  BY <1>7 DEF Rebuilt, Frames
<1>9. v.paneFocused => [hidden EXCEPT !.focus = "composer"] = hidden
  <2>1. v.paneFocused => hidden.focus = "composer" /\ hidden \in Win
    BY <1>2, <1>4, <1>7 DEF Rebuilt
  <2> QED BY <2>1 DEF Win
<1>10. Moves(v, hidden)
  BY <1>4, <1>7 DEF Moves
<1> QED BY <1>2, <1>3, <1>4, <1>8, <1>9, <1>10

LEMMA DropHomed ==
  ASSUME NEW v, Homed(v), NEW column \in Kind
  PROVE  LET r == drop(v, column)
         IN  /\ Homed(r) /\ Size(r) = Size(v)
             /\ ~v.railFocused /\ ~v.paneFocused => ~r.railFocused /\ ~r.paneFocused
<1> DEFINE p == v.runtime[column]
           bare == [v EXCEPT !.runtime[column] = NoProc]
           gone == vacate(bare, column)
           heard == IF column = "editor" THEN cancelEditorModals(gone) ELSE gone
           settled == disposeSession(heard, p)
           r == drop(v, column)
<1>0. v \in Win /\ Current(v) /\ Seated(v) /\ InOneHome(v) /\ RailPainted(v)
  BY DEF Homed
<1>1. CASE p = NoProc
  BY <1>1 DEF drop
<1>2. CASE p # NoProc
  <2>1. /\ bare \in Win /\ bare.runtime = [v.runtime EXCEPT ![column] = NoProc]
        /\ bare.slot = v.slot /\ Frames(bare) = <<v.columns, v.dragged, v.railWanted, v.paneOn, v.seat,
                                                  v.visible, v.last, v.paneFocused>>
        /\ Shape(bare) = Shape(v)
    BY <1>0 DEF Win, Frames, Shape
  <2> HIDE DEF bare
  <2>2. /\ gone \in Win /\ Current(gone) /\ RailPainted(gone) /\ Core(gone) = Core(bare)
        /\ Size(gone) = Size(v) /\ gone.visible = v.visible /\ gone.paneOn = v.paneOn
        /\ gone.paneFocused = v.paneFocused
        /\ gone.seat = (IF v.seat = column THEN "none" ELSE v.seat)
        /\ gone.railFocused => v.railFocused
        /\ IF v.railFocused /\ ~gone.railFocused THEN gone.focus = "composer"
           ELSE gone.focus = v.focus
    <3>1. /\ bare.columns = v.columns /\ bare.dragged = v.dragged /\ bare.railWanted = v.railWanted
          /\ bare.paneOn = v.paneOn /\ bare.seat = v.seat /\ bare.visible = v.visible
          /\ bare.paneFocused = v.paneFocused
      BY <2>1 DEF Frames
    <3>2. /\ bare.railShown = v.railShown /\ bare.conversationShown = v.conversationShown
          /\ bare.conversationWanted = v.conversationWanted /\ bare.railFocused = v.railFocused
          /\ bare.focus = v.focus
      BY <2>1 DEF Shape
    <3>3. CASE v.seat # column
      <4>1. gone = bare
        BY <3>1, <3>3 DEF vacate
      <4>2. Fits(bare) = Fits(v) /\ paneShown(bare) = paneShown(v)
        BY <3>1 DEF Fits, paneShown
      <4> QED BY <1>0, <2>1, <3>1, <3>2, <3>3, <4>1, <4>2 DEF Current, RailPainted, Size
    <3>4. CASE v.seat = column
      <4> DEFINE none == [bare EXCEPT !.seat = "none"]
      <4>1. /\ none \in Win /\ Core(none) = Core(bare) /\ Size(none) = Size(bare)
            /\ none.visible = bare.visible /\ none.paneOn = bare.paneOn
            /\ none.paneFocused = bare.paneFocused /\ none.seat = "none"
            /\ none.railFocused = bare.railFocused /\ none.focus = bare.focus
        BY <2>1 DEF Win, Core, Size, Column
      <4>2. gone = rebuild(none)
        BY <3>1, <3>4 DEF vacate
      <4> HIDE DEF none, gone
      <4>3. Rebuilt(none, gone)
        BY <4>1, <4>2, RebuildRebuilds
      <4>4. gone \in Win /\ Current(gone) /\ Frames(gone) = Frames(none) /\ Core(gone) = Core(bare)
        BY <4>1, <4>3 DEF Rebuilt
      <4>5. /\ Size(gone) = Size(none) /\ gone.visible = none.visible /\ gone.paneOn = none.paneOn
            /\ gone.paneFocused = none.paneFocused /\ gone.seat = none.seat
        BY <4>4 DEF Frames, Size
      <4>6. /\ RailPainted(gone)
            /\ gone.railFocused => v.railFocused
            /\ IF v.railFocused /\ ~gone.railFocused THEN gone.focus = "composer"
               ELSE gone.focus = v.focus
        BY <1>0, <3>2, <4>1, <4>3 DEF Rebuilt, RailPainted
      <4>7. Size(bare) = Size(v)
        BY <3>1 DEF Size
      <4> QED BY <3>1, <3>4, <4>1, <4>4, <4>5, <4>6, <4>7
    <3> QED BY <3>3, <3>4
  <2> HIDE DEF gone
  <2>3. gone.runtime = [v.runtime EXCEPT ![column] = NoProc] /\ gone.slot = v.slot
    BY <2>1, <2>2 DEF Core
  <2>4. /\ heard \in Win /\ Frames(heard) = Frames(gone) /\ Shape(heard) = Shape(gone)
        /\ heard.runtime = gone.runtime /\ heard.slot = gone.slot
    <3> DEFINE rest == gone.up \ EditorModals
               count == gone.open - Cardinality(gone.up \cap EditorModals)
    <3>1. Cardinality(gone.up \cap EditorModals) \in Nat
      BY <2>2, DialogsAreFinite DEF Win, Dialog
    <3>2. rest \in SUBSET Dialog /\ count \in Int
      BY <2>2, <3>1 DEF Win
    <3>3. heard \in {gone, [gone EXCEPT !.up = rest, !.open = count]}
      BY DEF cancelEditorModals, Settle
    <3> HIDE DEF rest, count, heard
    <3> QED BY <2>2, <3>2, <3>3, ZenonT(60) DEF Win, Frames, Shape
  <2> HIDE DEF heard
  <2>5. /\ settled \in Win /\ Frames(settled) = Frames(heard) /\ Shape(settled) = Shape(heard)
        /\ settled.runtime = heard.runtime /\ settled.slot = heard.slot
    BY <1>0, <1>2, <2>4 DEF disposeSession, Win, Frames, Shape
  <2> HIDE DEF settled
  <2>6. /\ Frames(settled) = Frames(gone) /\ Shape(settled) = Shape(gone)
        /\ settled.slot = v.slot /\ settled.runtime = [v.runtime EXCEPT ![column] = NoProc]
    BY <2>3, <2>4, <2>5
  <2>7. /\ Size(settled) = Size(gone) /\ settled.visible = gone.visible
        /\ settled.paneOn = gone.paneOn /\ settled.seat = gone.seat
        /\ settled.paneFocused = gone.paneFocused
    BY <2>6 DEF Frames, Size
  <2>8. settled.railFocused = gone.railFocused /\ settled.focus = gone.focus
        /\ settled.railShown = gone.railShown
    BY <2>6 DEF Shape
  <2>9. v.runtime \in [Kind -> Proc \cup {NoProc}]
    BY <1>0 DEF Win
  <2>10. CASE v.visible = column
    <3>1. Closable(settled)
      BY <1>0, <2>2, <2>5, <2>6, <2>7, <2>8, <2>9, <2>10 DEF Closable, Seated, InOneHome, Kind
    <3>2. r = close(settled)
      BY <1>2, <2>2, <2>7, <2>10 DEF drop, settled, heard, gone, bare
    <3> DEFINE c == close(settled)
    <3>3. /\ Moves(settled, c) /\ ~c.paneFocused
          /\ settled.paneFocused \/ ~settled.railFocused => ~c.railFocused
      BY <3>1, Closed
    <3> HIDE DEF c, r
    <3>4. r = c
      BY <3>2 DEF c
    <3>5. Homed(r) /\ Size(r) = Size(v)
      BY <2>2, <2>7, <3>3, <3>4 DEF Moves
    <3>6. ~v.railFocused /\ ~v.paneFocused => ~r.railFocused /\ ~r.paneFocused
      BY <2>2, <2>8, <3>3, <3>4
    <3> QED BY <3>5, <3>6 DEF r
  <2>11. CASE v.visible # column
    <3>1. Seated(settled)
      BY <1>0, <2>2, <2>6, <2>7, <2>9, <2>11 DEF Seated, Win, Column
    <3>2. InOneHome(settled)
      BY <1>0, <2>2, <2>6, <2>7, <2>8, <2>9, <2>11 DEF InOneHome, Seated, RailPainted, Win, Column
    <3>3. Current(settled)
      <4>1. Fits(settled) = Fits(gone) /\ paneShown(settled) = paneShown(gone)
            /\ settled.railWanted = gone.railWanted
        BY <2>6, SameFrame
      <4>2. settled.railShown = gone.railShown /\ settled.conversationShown = gone.conversationShown
            /\ settled.conversationWanted = gone.conversationWanted
        BY <2>6 DEF Shape
      <4> QED BY <2>2, <4>1, <4>2 DEF Current
    <3>4. RailPainted(settled)
      BY <2>2, <2>8 DEF RailPainted
    <3>5. r = settled
      BY <1>2, <2>2, <2>7, <2>11 DEF drop, settled, heard, gone, bare
    <3> HIDE DEF r
    <3> QED BY <2>2, <2>5, <2>7, <2>8, <3>1, <3>2, <3>3, <3>4, <3>5 DEF Homed, r
  <2> QED BY <2>10, <2>11
<1> QED BY <1>1, <1>2

LEMMA ResetHomed ==
  ASSUME NEW v, Homed(v)
  PROVE  LET r == reset(v)
         IN  /\ Homed(r) /\ Size(r) = Size(v)
             /\ ~v.railFocused /\ ~v.paneFocused => ~r.railFocused /\ ~r.paneFocused
<1> DEFINE shut == close(v)
           one == drop(shut, "terminal")
           r == drop(one, "editor")
<1>1. /\ Homed(shut) /\ Size(shut) = Size(v)
      /\ ~v.railFocused /\ ~v.paneFocused => ~shut.railFocused /\ ~shut.paneFocused
  <2>1. CASE ~v.paneOn
    BY <2>1 DEF close
  <2>2. CASE v.paneOn
    BY <2>2, HomedIsClosable, Closed DEF Moves
  <2> QED BY <2>1, <2>2
<1> HIDE DEF shut
<1>2. /\ Homed(one) /\ Size(one) = Size(v)
      /\ ~v.railFocused /\ ~v.paneFocused => ~one.railFocused /\ ~one.paneFocused
  BY <1>1, DropHomed DEF Kind
<1> HIDE DEF one
<1>3. /\ Homed(r) /\ Size(r) = Size(v)
      /\ ~v.railFocused /\ ~v.paneFocused => ~r.railFocused /\ ~r.paneFocused
  BY <1>2, DropHomed DEF Kind
<1> QED BY <1>3 DEF reset, r, one, shut

\* focus() of rail.ts: where it lets the rail in, the layout paints it.
LEMMA RailTakesFocus ==
  ASSUME NEW v, Homed(v), ~v.paneFocused, v.slot = "composer", AsksAsLaidOut(v)
  PROVE  Moves(v, focusRail(v))
<1> DEFINE on == [v EXCEPT !.railFocused = TRUE]
           wanted == [on EXCEPT !.railWanted = TRUE]
           laid == rebuild(wanted)
           shown == setRailVisible(on, TRUE)
           r == [shown EXCEPT !.focus = "rail"]
           fits == railFits(v.columns, v.paneOn,
                            railDrawnWidth(railWidthNow(v.columns, v.paneOn, v.dragged)))
<1>0. v \in Win /\ Current(v) /\ Seated(v)
  BY DEF Homed
<1>1. CASE ~fits
  BY <1>1 DEF focusRail, Moves
<1>2. CASE fits
  <2>1. Fits(v)
    <3>1. v.columns \in Nat /\ v.dragged \in Nat /\ v.paneOn \in BOOLEAN
      BY <1>0 DEF Win
    <3>2. paneShown(v) = v.paneOn
      BY <1>0 DEF paneShown, Seated, Win
    <3>3. railFits(v.columns, v.paneOn, railWidthNow(v.columns, v.paneOn, v.dragged))
      BY <1>2, <3>1, DrawnFits DEF AsksAsLaidOut
    <3> QED BY <3>2, <3>3 DEF Fits
  <2>2. /\ on \in Win /\ Frames(on) = Frames(v) /\ Core(on) = Core(v) /\ on.railFocused
        /\ on.railShown = v.railShown /\ on.conversationShown = v.conversationShown
        /\ on.conversationWanted = v.conversationWanted
    BY <1>0 DEF Win, Frames, Core
  <2>3. /\ shown \in Win /\ Current(shown) /\ Core(shown) = Core(v) /\ shown.railShown
        /\ shown.railFocused /\ Size(shown) = Size(v) /\ shown.paneOn = v.paneOn
        /\ shown.seat = v.seat /\ shown.visible = v.visible /\ shown.paneFocused = v.paneFocused
    <3>1. CASE v.railWanted
      <4>1. on.railWanted
        BY <1>0, <3>1 DEF Win
      <4>2. shown = on
        BY <4>1, <2>2 DEF setRailVisible, Win
      <4> HIDE DEF on, shown
      <4>3. Fits(on) = Fits(v) /\ paneShown(on) = paneShown(v) /\ on.railWanted = v.railWanted
            /\ Size(on) = Size(v)
        BY <2>2, SameFrame
      <4>4. Current(on) /\ on.railShown
        BY <1>0, <2>1, <2>2, <3>1, <4>3 DEF Current
      <4>5. on.paneOn = v.paneOn /\ on.seat = v.seat /\ on.visible = v.visible /\ on.paneFocused = v.paneFocused
        BY <2>2 DEF Frames
      <4> QED BY <2>2, <4>2, <4>3, <4>4, <4>5
    <3>2. CASE ~v.railWanted
      <4>1. on.railWanted = FALSE
        BY <1>0, <3>2 DEF Win
      <4>2. shown = laid
        BY <4>1 DEF setRailVisible
      <4>3. /\ wanted \in Win /\ Core(wanted) = Core(v) /\ wanted.railFocused /\ wanted.railWanted
            /\ Size(wanted) = Size(v) /\ wanted.paneOn = v.paneOn /\ wanted.seat = v.seat
            /\ wanted.visible = v.visible /\ wanted.paneFocused = v.paneFocused
        BY <1>0 DEF Win, Core, Size
      <4> HIDE DEF wanted, on, shown
      <4>4. Rebuilt(wanted, laid)
        BY <4>3, RebuildRebuilds
      <4> HIDE DEF laid
      <4>5. Fits(wanted)
        BY <2>1, <4>3 DEF Fits, paneShown, Size
      <4>6. laid \in Win /\ Current(laid) /\ Frames(laid) = Frames(wanted) /\ Core(laid) = Core(v)
        BY <4>3, <4>4 DEF Rebuilt
      <4>7. laid.railShown
        BY <4>3, <4>5, <4>6, SameFrame DEF Current
      <4>8. laid.railFocused
        BY <4>3, <4>4, <4>7 DEF Rebuilt
      <4>9. Size(laid) = Size(wanted) /\ laid.paneOn = wanted.paneOn /\ laid.seat = wanted.seat
            /\ laid.visible = wanted.visible /\ laid.paneFocused = wanted.paneFocused
        BY <4>6 DEF Frames, Size
      <4> QED BY <4>2, <4>3, <4>6, <4>7, <4>8, <4>9
    <3> QED BY <3>1, <3>2
  <2> HIDE DEF shown
  <2>4. /\ r \in Win /\ Core(r) = Core(shown) /\ Frames(r) = Frames(shown) /\ r.focus = "rail"
        /\ r.railFocused = shown.railFocused /\ r.railShown = shown.railShown
        /\ r.conversationShown = shown.conversationShown
        /\ r.conversationWanted = shown.conversationWanted
    BY <2>3 DEF Win, Core, Frames
  <2>5. r = focusRail(v)
    BY <1>2 DEF focusRail, r, shown, on
  <2> HIDE DEF r
  <2>6. /\ Size(r) = Size(shown) /\ r.paneOn = shown.paneOn /\ r.seat = shown.seat
        /\ r.visible = shown.visible /\ r.paneFocused = shown.paneFocused
    BY <2>4 DEF Frames, Size
  <2>7. r.runtime = v.runtime /\ r.slot = v.slot
    BY <2>3, <2>4 DEF Core
  <2>8. Current(r)
    BY <2>3, <2>4, SameFrame DEF Current
  <2>9. Seated(r) /\ InOneHome(r) /\ RailPainted(r)
    BY <1>0, <2>3, <2>4, <2>6, <2>7 DEF Seated, InOneHome, RailPainted
  <2> QED BY <2>3, <2>4, <2>5, <2>6, <2>8, <2>9 DEF Moves, Homed
<1> QED BY <1>1, <1>2

LEMMA RailToggled ==
  ASSUME NEW v, Homed(v), v.slot = "composer", AsksAsLaidOut(v), v.railShown \/ ~v.paneFocused
  PROVE  Moves(v, toggleRail(v))
<1> DEFINE off == [v EXCEPT !.railFocused = FALSE]
           unwanted == [off EXCEPT !.railWanted = FALSE]
           put == setRailVisible(off, FALSE)
           away == showConversation(put)
           r == IF v.railFocused THEN [away EXCEPT !.focus = "composer"] ELSE away
<1>0. v \in Win /\ Current(v) /\ Seated(v) /\ InOneHome(v)
  BY DEF Homed
<1>1. CASE ~v.railShown
  BY <1>1, RailTakesFocus DEF toggleRail
<1>2. CASE v.railShown
  <2>1. /\ unwanted \in Win /\ Core(unwanted) = Core(v) /\ ~unwanted.railFocused
        /\ Size(unwanted) = Size(v) /\ unwanted.paneOn = v.paneOn /\ unwanted.seat = v.seat
        /\ unwanted.visible = v.visible /\ unwanted.paneFocused = v.paneFocused
        /\ unwanted.focus = v.focus
    BY <1>0 DEF Win, Core, Size
  <2>2. put = rebuild(unwanted)
    <3>1. v.railWanted = TRUE
      BY <1>0, <1>2 DEF Current, Win
    <3>2. off.railWanted = TRUE
      BY <1>0, <3>1 DEF Win
    <3> QED BY <3>2 DEF setRailVisible
  <2> HIDE DEF unwanted, put, off
  <2>3. Rebuilt(unwanted, put)
    BY <2>1, <2>2, RebuildRebuilds
  <2>4. /\ put \in Win /\ Current(put) /\ Frames(put) = Frames(unwanted) /\ Core(put) = Core(v)
        /\ ~put.railFocused /\ put.focus = v.focus
    BY <2>1, <2>3 DEF Rebuilt
  <2>5. /\ away \in Win /\ Current(away) /\ Frames(away) = Frames(unwanted) /\ Core(away) = Core(v)
        /\ ~away.railFocused /\ away.focus = v.focus
    BY <2>4, TextShown
  <2> HIDE DEF away
  <2>6. /\ r \in Win /\ Frames(r) = Frames(away) /\ Core(r) = Core(away) /\ ~r.railFocused
        /\ r.focus = (IF v.railFocused THEN "composer" ELSE v.focus)
        /\ r.railShown = away.railShown /\ r.conversationShown = away.conversationShown
        /\ r.conversationWanted = away.conversationWanted
    <3>1. CASE v.railFocused
      BY <2>5, <3>1 DEF Win, Frames, Core
    <3>2. CASE ~v.railFocused
      BY <2>5, <3>2
    <3> QED BY <3>1, <3>2
  <2>7. r = toggleRail(v)
    BY <1>2 DEF toggleRail, r, away, put, off
  <2> HIDE DEF r
  <2>8. Current(r)
    BY <2>5, <2>6, SameFrame DEF Current
  <2>9. /\ Size(r) = Size(v) /\ r.paneOn = v.paneOn /\ r.seat = v.seat
        /\ r.visible = v.visible /\ r.paneFocused = v.paneFocused
    <3>1. Frames(r) = Frames(unwanted)
      BY <2>5, <2>6
    <3>2. /\ Size(r) = Size(unwanted) /\ r.paneOn = unwanted.paneOn /\ r.seat = unwanted.seat
          /\ r.visible = unwanted.visible /\ r.paneFocused = unwanted.paneFocused
      BY <3>1 DEF Frames, Size
    <3> QED BY <2>1, <3>2
  <2>10. r.runtime = v.runtime /\ r.slot = v.slot
    BY <2>5, <2>6 DEF Core
  <2>11. Seated(r) /\ InOneHome(r) /\ RailPainted(r)
    BY <1>0, <2>6, <2>9, <2>10 DEF Seated, InOneHome, RailPainted
  <2> QED BY <2>5, <2>6, <2>7, <2>8, <2>9, <2>11 DEF Moves, Homed
<1> QED BY <1>1, <1>2

LEMMA PaneTakesFocus ==
  ASSUME NEW v, Homed(v), ~v.railFocused, v.slot = "composer",
         NEW column \in Kind, v.runtime[column] # NoProc
  PROVE  Moves(v, focusPane(v, column))
<1> DEFINE noted == [v EXCEPT !.visible = column, !.last = column, !.paneFocused = TRUE]
           none == [noted EXCEPT !.seat = "none"]
           empty == vacate(noted, column)
           seat == [empty EXCEPT !.seat = column]
           seated == rebuild(seat)
           on == [seated EXCEPT !.paneOn = TRUE]
           shown == setPane(seated, TRUE)
           r == [shown EXCEPT !.focus = v.runtime[column]]
<1>0. v \in Win
  BY DEF Homed
<1>1. /\ noted \in Win /\ Core(noted) = Core(v) /\ Size(noted) = Size(v) /\ ~noted.railFocused
      /\ noted.paneFocused /\ noted.visible = column /\ noted.seat = v.seat
  BY <1>0 DEF Win, Core, Size, Column
<1> HIDE DEF noted
<1>2. /\ empty \in Win /\ Core(empty) = Core(v) /\ Size(empty) = Size(v) /\ ~empty.railFocused
      /\ empty.paneFocused /\ empty.visible = column
  <2>1. CASE noted.seat # column
    BY <1>1, <2>1 DEF vacate
  <2>2. CASE noted.seat = column
    <3>1. /\ none \in Win /\ Core(none) = Core(noted) /\ Size(none) = Size(noted)
          /\ ~none.railFocused /\ none.paneFocused /\ none.visible = column
      BY <1>1 DEF Win, Core, Size, Column
    <3>2. empty = rebuild(none)
      BY <2>2 DEF vacate
    <3> HIDE DEF none, empty
    <3>3. Rebuilt(none, empty)
      BY <3>1, <3>2, RebuildRebuilds
    <3>4. empty \in Win /\ Frames(empty) = Frames(none) /\ Core(empty) = Core(none) /\ ~empty.railFocused
      BY <3>1, <3>3 DEF Rebuilt
    <3>5. Size(empty) = Size(none) /\ empty.paneFocused = none.paneFocused /\ empty.visible = none.visible
      BY <3>4 DEF Frames, Size
    <3> QED BY <1>1, <3>1, <3>4, <3>5
  <2> QED BY <2>1, <2>2
<1> HIDE DEF empty
<1>3. /\ seat \in Win /\ Core(seat) = Core(v) /\ Size(seat) = Size(v) /\ ~seat.railFocused
      /\ seat.paneFocused /\ seat.visible = column /\ seat.seat = column
  <2>1. /\ seat \in Win /\ Core(seat) = Core(empty) /\ Size(seat) = Size(empty)
        /\ seat.railFocused = empty.railFocused /\ seat.paneFocused = empty.paneFocused
        /\ seat.visible = empty.visible /\ seat.seat = column
    BY <1>2 DEF Win, Core, Size, Column
  <2> HIDE DEF seat
  <2> QED BY <1>2, <2>1
<1> HIDE DEF seat
<1>4. Rebuilt(seat, seated)
  BY <1>3, RebuildRebuilds
<1> HIDE DEF seated
<1>5. /\ seated \in Win /\ Core(seated) = Core(v) /\ Size(seated) = Size(v) /\ ~seated.railFocused
      /\ seated.paneFocused /\ seated.visible = column /\ seated.seat = column /\ Current(seated)
  <2>1. /\ seated \in Win /\ Frames(seated) = Frames(seat) /\ Core(seated) = Core(seat)
        /\ ~seated.railFocused /\ Current(seated)
    BY <1>3, <1>4 DEF Rebuilt
  <2>2. Size(seated) = Size(seat) /\ seated.paneFocused = seat.paneFocused
        /\ seated.visible = seat.visible /\ seated.seat = seat.seat
    BY <2>1 DEF Frames, Size
  <2> QED BY <1>3, <2>1, <2>2
<1>6. /\ shown \in Win /\ Core(shown) = Core(v) /\ Size(shown) = Size(v) /\ ~shown.railFocused
      /\ shown.paneFocused /\ shown.visible = column /\ shown.seat = column /\ Current(shown)
      /\ shown.paneOn
  <2>1. CASE seated.paneOn
    <3>1. seated.paneOn = TRUE
      BY <1>5, <2>1 DEF Win
    <3> QED BY <1>5, <3>1 DEF setPane
  <2>2. CASE ~seated.paneOn
    <3>0. seated.paneOn = FALSE
      BY <1>5, <2>2 DEF Win
    <3>1. /\ on \in Win /\ Core(on) = Core(seated) /\ Size(on) = Size(seated) /\ ~on.railFocused
          /\ on.paneFocused /\ on.visible = column /\ on.seat = column /\ on.paneOn
      BY <1>5 DEF Win, Core, Size
    <3>2. shown = rebuild(on)
      BY <3>0 DEF setPane
    <3> HIDE DEF on, shown
    <3>3. Rebuilt(on, shown)
      BY <3>1, <3>2, RebuildRebuilds
    <3>4. /\ shown \in Win /\ Frames(shown) = Frames(on) /\ Core(shown) = Core(on)
          /\ ~shown.railFocused /\ Current(shown)
      BY <3>1, <3>3 DEF Rebuilt
    <3>5. Size(shown) = Size(on) /\ shown.paneFocused = on.paneFocused
          /\ shown.visible = on.visible /\ shown.seat = on.seat /\ shown.paneOn = on.paneOn
      BY <3>4 DEF Frames, Size
    <3> QED BY <1>5, <3>1, <3>4, <3>5
  <2> QED BY <2>1, <2>2
<1> HIDE DEF shown
<1>7. v.runtime[column] \in Proc \cup {NoProc}
  BY <1>0 DEF Win
<1>8. /\ r \in Win /\ Core(r) = Core(shown) /\ Frames(r) = Frames(shown) /\ ~r.railFocused
      /\ r.focus = v.runtime[column]
      /\ r.railShown = shown.railShown /\ r.conversationShown = shown.conversationShown
      /\ r.conversationWanted = shown.conversationWanted
  BY <1>6, <1>7 DEF Win, Core, Frames
<1>9. r = focusPane(v, column)
  BY DEF focusPane, r, shown, seated, seat, empty, noted
<1> HIDE DEF r
<1>10. /\ Size(r) = Size(shown) /\ r.paneFocused = shown.paneFocused /\ r.visible = shown.visible
       /\ r.seat = shown.seat /\ r.paneOn = shown.paneOn
  BY <1>8 DEF Frames, Size
<1>11. r.runtime = v.runtime /\ r.slot = v.slot
  BY <1>6, <1>8 DEF Core
<1>12. Current(r)
  BY <1>6, <1>8, SameFrame DEF Current
<1>13. Seated(r) /\ InOneHome(r) /\ RailPainted(r)
  <2>1. column # "none"
    BY DEF Kind
  <2> QED BY <1>6, <1>8, <1>10, <1>11, <2>1 DEF Seated, InOneHome, RailPainted
<1> QED BY <1>6, <1>8, <1>9, <1>10, <1>12, <1>13 DEF Moves, Homed

LEMMA Mounted ==
  ASSUME NEW v, Homed(v), NEW column \in Kind, v.runtime[column] = NoProc, NEW p \in Proc
  PROVE  LET r == mount(v, column, p)
         IN  /\ Homed(r) /\ Size(r) = Size(v) /\ r.slot = v.slot /\ r.runtime[column] # NoProc
             /\ r.railFocused = v.railFocused /\ r.paneFocused = v.paneFocused
<1> DEFINE r == mount(v, column, p)
<1>0. v \in Win /\ Current(v) /\ Seated(v) /\ InOneHome(v) /\ RailPainted(v) /\ p # NoProc
  BY WindowAssumption DEF Homed
<1>1. /\ r \in Win /\ Frames(r) = Frames(v) /\ Shape(r) = Shape(v) /\ r.slot = v.slot
      /\ r.runtime = [v.runtime EXCEPT ![column] = p]
  BY <1>0 DEF mount, Win, Frames, Shape
<1> HIDE DEF r
<1>2. v.runtime \in [Kind -> Proc \cup {NoProc}]
  BY <1>0 DEF Win
<1>3. /\ r.visible = v.visible /\ r.paneOn = v.paneOn /\ r.seat = v.seat
      /\ r.paneFocused = v.paneFocused /\ Size(r) = Size(v)
  BY <1>1 DEF Frames, Size
<1>4. /\ r.railShown = v.railShown /\ r.conversationShown = v.conversationShown
      /\ r.conversationWanted = v.conversationWanted /\ r.railFocused = v.railFocused
      /\ r.focus = v.focus
  BY <1>1 DEF Shape
<1>5. Current(r)
  BY <1>0, <1>1, <1>4, SameFrame DEF Current
<1>6. v.visible \in Column /\ v.seat \in Column
  BY <1>0 DEF Win
<1>7. Seated(r)
  BY <1>0, <1>1, <1>2, <1>3, <1>6 DEF Seated, Column
<1>8. InOneHome(r) /\ RailPainted(r)
  BY <1>0, <1>1, <1>2, <1>3, <1>4, <1>6 DEF Seated, InOneHome, RailPainted, Column
<1> QED BY <1>0, <1>1, <1>2, <1>3, <1>4, <1>5, <1>7, <1>8 DEF Homed, r

\* The width of the terminal or of the rail changes under a window.
LEMMA Widened ==
  ASSUME NEW v, Homed(v), NEW t \in Win, Core(t) = Core(v),
         t.railFocused = v.railFocused, t.paneFocused = v.paneFocused, t.focus = v.focus,
         t.paneOn = v.paneOn, t.seat = v.seat, t.visible = v.visible
  PROVE  LET r == rebuild(t)
         IN  /\ Homed(r) /\ Core(r) = Core(v) /\ r.columns = t.columns /\ r.dragged = t.dragged
             /\ ~v.railFocused /\ ~v.paneFocused => ~r.railFocused /\ ~r.paneFocused
<1> DEFINE r == rebuild(t)
<1>0. v \in Win /\ Seated(v) /\ InOneHome(v)
  BY DEF Homed
<1>1. t.runtime = v.runtime /\ t.slot = v.slot
  BY DEF Core
<1>2. Seated(t) /\ InOneHome(t)
  BY <1>0, <1>1 DEF Seated, InOneHome
<1>3. Moves(t, r) /\ Frames(r) = Frames(t) /\ Rebuilt(t, r)
  BY <1>2, RebuildHomes, RebuildRebuilds
<1> HIDE DEF r
<1>4. r.columns = t.columns /\ r.dragged = t.dragged /\ r.paneFocused = t.paneFocused
  BY <1>3 DEF Frames
<1>5. ~t.railFocused => ~r.railFocused
  BY <1>3 DEF Rebuilt
<1> QED BY <1>3, <1>4, <1>5 DEF Moves, r

LEMMA DividerMoved ==
  ASSUME NEW v, Homed(v), NEW delta \in {-2, 2}
  PROVE  LET r == moveRailDivider(v, delta)
         IN  /\ Homed(r) /\ r.columns = v.columns
             /\ r.dragged \in {v.dragged, DraggedTo(v, delta)}
<1> DEFINE width == DraggedTo(v, delta)
           t == [v EXCEPT !.dragged = width]
           moved == moveRailDivider(v, delta)
<1>0. v \in Win
  BY DEF Homed
<1>1. width \in Nat
  BY <1>0, DraggedIsNat
<1>2. moved \in {v, rebuild(t)}
  BY DEF moveRailDivider
<1> HIDE DEF width, moved
<1>3. /\ t \in Win /\ Core(t) = Core(v) /\ t.columns = v.columns /\ t.dragged = width
      /\ t.railFocused = v.railFocused /\ t.paneFocused = v.paneFocused /\ t.focus = v.focus
      /\ t.paneOn = v.paneOn /\ t.seat = v.seat /\ t.visible = v.visible
  BY <1>0, <1>1 DEF Win, Core
<1> HIDE DEF t
<1>4. Homed(rebuild(t)) /\ rebuild(t).columns = t.columns /\ rebuild(t).dragged = t.dragged
  BY <1>3, Widened
<1> QED BY <1>2, <1>3, <1>4 DEF width, moved

LEMMA ResizedHomed ==
  ASSUME NEW v, Homed(v), NEW columns \in Nat
  PROVE  LET r == Resized([v EXCEPT !.columns = columns])
         IN  /\ Homed(r) /\ r.columns = columns /\ r.dragged = v.dragged
             /\ ~v.railFocused /\ ~v.paneFocused => ~r.railFocused /\ ~r.paneFocused
<1> DEFINE wide == [v EXCEPT !.columns = columns]
           r == Resized(wide)
<1>0. v \in Win /\ Current(v)
  BY DEF Homed
<1>1. /\ wide \in Win /\ Core(wide) = Core(v) /\ Shape(wide) = Shape(v) /\ wide.columns = columns
      /\ wide.dragged = v.dragged /\ wide.paneOn = v.paneOn /\ wide.railWanted = v.railWanted
      /\ wide.seat = v.seat /\ wide.visible = v.visible /\ wide.paneFocused = v.paneFocused
  BY <1>0 DEF Win, Core, Shape
<1> HIDE DEF wide
<1>2. /\ wide.railShown = v.railShown /\ wide.conversationShown = v.conversationShown
      /\ wide.conversationWanted = v.conversationWanted /\ wide.railFocused = v.railFocused
      /\ wide.focus = v.focus
  BY <1>1 DEF Shape
<1> DEFINE laid == rebuild(wide)
<1>3. CASE v.paneOn \/ v.railWanted
  <2>1. /\ Homed(laid) /\ laid.columns = columns /\ laid.dragged = v.dragged
        /\ ~v.railFocused /\ ~v.paneFocused => ~laid.railFocused /\ ~laid.paneFocused
    BY <1>1, <1>2, Widened
  <2>2. r = laid
    BY <1>1, <1>3 DEF Resized
  <2> HIDE DEF laid, r
  <2> QED BY <2>1, <2>2 DEF r, wide
<1>4. CASE ~v.paneOn /\ ~v.railWanted
  <2>1. r = wide
    BY <1>1, <1>4 DEF Resized
  <2>2. wide.runtime = v.runtime /\ wide.slot = v.slot
    BY <1>1 DEF Core
  <2>3. Current(wide)
    <3>1. paneShown(wide) = paneShown(v)
      BY <1>1 DEF paneShown
    <3> QED BY <1>0, <1>1, <1>2, <1>4, <3>1 DEF Current
  <2>4. Homed(wide)
    BY <1>1, <1>2, <2>2, <2>3 DEF Homed, Seated, InOneHome, RailPainted
  <2> HIDE DEF r
  <2> QED BY <1>1, <1>2, <2>1, <2>4 DEF r, wide
<1> QED BY <1>3, <1>4

-----------------------------------------------------------------------------
(* The steps of a window                                                   *)

\* A window that keeps the keyboard at home, at a width focus() of rail.ts answers rightly.
Homely(v) == Homed(v) /\ v.columns \in Widths /\ v.dragged =< MaxDrag

\* The command that waits for the Host was typed into the composer, and nothing took the
\* keyboard from it.
HomeInv ==
    closing = "no" =>
        /\ Homely(w)
        /\ \A r \in Request : request[r] = "waiting" => ~w.railFocused /\ ~w.paneFocused

RailAgrees == 86 \notin Widths \/ MaxDrag < 19

LEMMA HomelyAsks ==
  ASSUME RailAgrees, NEW v, Homely(v) PROVE AsksAsLaidOut(v)
BY WindowAssumption DEF RailAgrees, Homely, AsksAsLaidOut, Homed, Win

LEMMA MovesHomely ==
  ASSUME NEW v, Homely(v), NEW r, Moves(v, r)
  PROVE  Homely(r) /\ r.slot = v.slot /\ r.runtime = v.runtime /\ Core(r) = Core(v)
BY DEF Homely, Moves, Size, Core

LEMMA ColumnFocused ==
  ASSUME NEW v, Homely(v), ~v.railFocused, v.slot = "composer",
         NEW column \in Kind, FocusColumn(v, column)
  PROVE  Homely(w')
<1>1. CASE v.runtime[column] # NoProc /\ Only(focusPane(v, column))
  <2>1. Moves(v, focusPane(v, column))
    BY <1>1, PaneTakesFocus DEF Homely
  <2> QED BY <1>1, <2>1, MovesHomely DEF Only
<1>2. ASSUME v.runtime[column] = NoProc, NEW p \in Free, Only(focusPane(mount(v, column, p), column))
      PROVE  Homely(w')
  <2> DEFINE t == mount(v, column, p)
  <2>1. /\ Homed(t) /\ Size(t) = Size(v) /\ t.slot = v.slot /\ t.runtime[column] # NoProc
        /\ t.railFocused = v.railFocused
    BY <1>2, Mounted DEF Homely, Free
  <2> HIDE DEF t
  <2>2. Homely(t)
    BY <2>1 DEF Homely, Size
  <2>3. Moves(t, focusPane(t, column))
    BY <2>1, PaneTakesFocus
  <2>4. w' = focusPane(t, column)
    BY <1>2 DEF Only, t
  <2> QED BY <2>2, <2>3, <2>4, MovesHomely
<1>3. CASE Only(v)
  BY <1>3 DEF Only
<1> QED BY <1>1, <1>2, <1>3 DEF FocusColumn

LEMMA ColumnToggled ==
  ASSUME NEW v, Homely(v), ~v.railFocused, v.slot = "composer",
         NEW column \in Kind, Toggle(v, column)
  PROVE  Homely(w')
<1>1. CASE FocusColumn(v, column)
  BY <1>1, ColumnFocused
<1>2. CASE v.paneOn /\ Only(close(v))
  <2>1. Closable(v)
    BY <1>2, HomedIsClosable DEF Homely
  <2>2. Moves(v, close(v))
    BY <2>1, Closed
  <2> QED BY <1>2, <2>2, MovesHomely DEF Only
<1>3. CASE Only(v) \/ BeginLeave(v, FALSE)
  BY <1>3 DEF Only, BeginLeave
<1> QED BY <1>1, <1>2, <1>3 DEF Toggle

LEMMA KeyHomely ==
  ASSUME RailAgrees, Key, closing' = "no", Homely(w), w.slot = "composer" PROVE Homely(w')
<1>0. Homed(w) /\ InOneHome(w) /\ w \in Win
  BY DEF Homely, Homed
<1>1. CASE Quit
  <2>1. w' = w
    BY <1>1 DEF Quit, Shutdown, BeginLeave
  <2> QED BY <2>1
<1>2. CASE ToggleConversation
  <2> DEFINE hidden == setConversationVisible(w, FALSE)
             regained == setConversationVisible(w, TRUE)
  <2>1. \A b \in BOOLEAN :
           LET r == setConversationVisible(w, b)
           IN  Moves(w, r) /\ Frames(r) = Frames(w) /\ r.railFocused = w.railFocused
               /\ r.focus = w.focus
    BY <1>0, ConversationSet
  <2>2. /\ Moves(w, hidden) /\ Frames(hidden) = Frames(w) /\ hidden.railFocused = w.railFocused
        /\ Moves(w, regained) /\ Frames(regained) = Frames(w) /\ regained.railFocused = w.railFocused
        /\ regained.focus = w.focus
    BY <2>1
  <2>3. \/ Only(hidden)
        \/ ~w.paneFocused /\ ~w.railFocused /\ w.visible # "none" /\ FocusColumn(hidden, w.visible)
        \/ ~w.paneFocused /\ ~w.railFocused /\ Only(focusRail(hidden))
        \/ Only(blurPane(regained)) \/ Only(blurRail(regained))
        \/ ~regained.paneFocused /\ ~regained.railFocused /\ Only([regained EXCEPT !.focus = "composer"])
    BY <1>2 DEF ToggleConversation
  <2> HIDE DEF hidden, regained
  <2>4. /\ Homely(hidden) /\ hidden.slot = "composer" /\ Homed(hidden)
        /\ Homely(regained) /\ regained.slot = "composer" /\ Homed(regained)
    BY <2>2, MovesHomely DEF Homely
  <2>5. hidden.paneFocused = w.paneFocused /\ w.visible \in Column
    BY <1>0, <2>2 DEF Frames, Win
  <2>6. CASE Only(hidden)
    BY <2>4, <2>6 DEF Only
  <2>7. CASE ~w.railFocused /\ w.visible # "none" /\ FocusColumn(hidden, w.visible)
    BY <2>2, <2>4, <2>5, <2>7, ColumnFocused DEF Column
  <2>8. CASE ~w.paneFocused /\ Only(focusRail(hidden))
    <3>1. Moves(hidden, focusRail(hidden))
      BY <2>4, <2>5, <2>8, RailTakesFocus, HomelyAsks
    <3> QED BY <2>4, <2>8, <3>1, MovesHomely DEF Only
  <2>9. CASE Only(blurPane(regained)) \/ Only(blurRail(regained))
    <3>1. Moves(regained, blurPane(regained)) /\ Moves(regained, blurRail(regained))
      BY <2>4, PaneBlurred, RailBlurred
    <3> QED BY <2>4, <2>9, <3>1, MovesHomely DEF Only
  <2>10. CASE ~regained.paneFocused /\ ~regained.railFocused /\ Only([regained EXCEPT !.focus = "composer"])
    <3>1. regained.focus = "composer" /\ regained \in Win
      BY <2>4, <2>10 DEF Homed, InOneHome
    <3>2. [regained EXCEPT !.focus = "composer"] = regained
      BY <3>1 DEF Win
    <3> QED BY <2>4, <2>10, <3>2 DEF Only
  <2> QED BY <2>3, <2>6, <2>7, <2>8, <2>9, <2>10
<1>3. CASE MoveDivider
  <2>1. PICK delta \in {-2, 2} : DraggedTo(w, delta) <= MaxDrag /\ Only(moveRailDivider(w, delta))
    BY <1>3 DEF MoveDivider
  <2>2. Homed(w') /\ w'.columns = w.columns /\ w'.dragged \in {w.dragged, DraggedTo(w, delta)}
    BY <1>0, <2>1, DividerMoved DEF Only
  <2> QED BY <2>1, <2>2 DEF Homely
<1>4. CASE RailKey
  <2>1. w.railFocused /\ w.railShown
    BY <1>0, <1>4 DEF RailKey, Homed, RailPainted
  <2>2. Moves(w, toggleRail(w))
    BY <1>0, <2>1, RailToggled, HomelyAsks
  <2> DEFINE blurred == blurRail(w)
  <2>3. Moves(w, blurred) /\ ~blurred.railFocused
    BY <1>0, RailBlurred
  <2>4. \/ Only(toggleRail(w)) \/ (\E kind \in Kind : Toggle(blurred, kind)) \/ Only(blurred)
    BY <1>4 DEF RailKey
  <2> HIDE DEF blurred
  <2>5. Homely(blurred) /\ blurred.slot = "composer"
    BY <2>3, MovesHomely
  <2>6. CASE \E kind \in Kind : Toggle(blurred, kind)
    BY <2>3, <2>5, <2>6, ColumnToggled
  <2> QED BY <2>2, <2>4, <2>5, <2>6, MovesHomely DEF Only
<1>5. CASE PaneKey
  <2> DEFINE blurred == blurPane(w)
  <2>1. ~w.railFocused /\ w.paneFocused
    BY <1>5 DEF PaneKey
  <2>2. Moves(w, blurred) /\ ~blurred.paneFocused
    BY <1>0, PaneBlurred
  <2>3. \/ Only(blurred)
        \/ \E kind \in Kind : Toggle(w, kind)
        \/ w.railShown /\ Only(toggleRail(w))
        \/ Only(toggleRail(blurred))
    BY <1>5 DEF PaneKey
  <2> HIDE DEF blurred
  <2>4. Homely(blurred) /\ blurred.slot = "composer" /\ Homed(blurred)
    BY <2>2, MovesHomely DEF Homely
  <2>5. CASE w.railShown /\ Only(toggleRail(w))
    <3>1. Moves(w, toggleRail(w))
      BY <1>0, <2>5, RailToggled, HomelyAsks
    <3> QED BY <2>5, <3>1, MovesHomely DEF Only
  <2>6. CASE Only(toggleRail(blurred))
    <3>1. Moves(blurred, toggleRail(blurred))
      BY <2>2, <2>4, RailToggled, HomelyAsks
    <3> QED BY <2>4, <2>6, <3>1, MovesHomely DEF Only
  <2>7. CASE \E kind \in Kind : Toggle(w, kind)
    BY <2>1, <2>7, ColumnToggled
  <2> QED BY <2>3, <2>4, <2>5, <2>6, <2>7 DEF Only
<1>6. CASE ComposerKey
  <2> DEFINE column == switchable(w)
  <2>1. ~w.railFocused /\ ~w.paneFocused
    BY <1>6 DEF ComposerKey
  <2>2. Moves(w, toggleRail(w)) /\ Moves(w, focusRail(w))
    BY <1>0, <2>1, RailToggled, RailTakesFocus, HomelyAsks
  <2>3. column # "none" => column \in Kind
    BY <1>0 DEF switchable, Win, Column, Kind
  <2>4. \/ Only(focusRail(w)) \/ (column # "none" /\ FocusColumn(w, column))
        \/ (\E kind \in Kind : Toggle(w, kind)) \/ Only(toggleRail(w))
    BY <1>6 DEF ComposerKey
  <2> HIDE DEF column
  <2>5. CASE column # "none" /\ FocusColumn(w, column)
    BY <2>1, <2>3, <2>5, ColumnFocused
  <2>6. CASE \E kind \in Kind : Toggle(w, kind)
    BY <2>1, <2>6, ColumnToggled
  <2> QED BY <2>2, <2>4, <2>5, <2>6, MovesHomely DEF Only
<1> QED BY <1>1, <1>2, <1>3, <1>4, <1>5, <1>6 DEF Key

\* A step that moves no keyboard to a column keeps a waiting command's composer.
Keeps(r) == Homely(r) /\ (~w.railFocused /\ ~w.paneFocused => ~r.railFocused /\ ~r.paneFocused)

LEMMA ShapeKeeps ==
  ASSUME Homely(w), NEW r \in Win, Frames(r) = Frames(w), Shape(r) = Shape(w),
         r.runtime = w.runtime, r.slot = w.slot
  PROVE  Keeps(r)
<1>1. Homed(r) /\ Size(r) = Size(w)
  BY ShapeHomed DEF Homely
<1>2. r.paneFocused = w.paneFocused /\ r.railFocused = w.railFocused
  BY DEF Frames, Shape
<1> QED BY <1>1, <1>2 DEF Homely, Keeps, Size

LEMMA DialogKeeps ==
  ASSUME Homely(w), NEW dialog \in Dialog, w' \in {Open(w, dialog), Settle(w, {dialog})}
  PROVE  Keeps(w')
<1>0. w \in Win
  BY DEF Homely, Homed
<1>1. ASSUME NEW up \in SUBSET Dialog, NEW count \in Int,
             w' = [w EXCEPT !.up = up, !.open = count]
      PROVE  Keeps(w')
  <2> DEFINE r == [w EXCEPT !.up = up, !.open = count]
  <2>1. /\ r \in Win /\ Frames(r) = Frames(w) /\ Shape(r) = Shape(w)
        /\ r.runtime = w.runtime /\ r.slot = w.slot
    BY <1>0 DEF Win, Frames, Shape
  <2>2. w' = r
    BY <1>1
  <2> HIDE DEF r
  <2> QED BY <2>1, <2>2, ShapeKeeps
<1> DEFINE more == w.up \cup {dialog}
           rest == w.up \ {dialog}
           one == w.open + 1
           left == w.open - Cardinality(w.up \cap {dialog})
<1>2. Cardinality(w.up \cap {dialog}) \in Nat
  BY <1>0, DialogsAreFinite DEF Win
<1>3. more \in SUBSET Dialog /\ rest \in SUBSET Dialog /\ one \in Int /\ left \in Int
  BY <1>0, <1>2 DEF Win
<1>4. w' = [w EXCEPT !.up = more, !.open = one] \/ w' = [w EXCEPT !.up = rest, !.open = left]
  BY DEF Open, Settle
<1> HIDE DEF more, rest, one, left
<1> QED BY <1>1, <1>3, <1>4

LEMMA HomeStep ==
  ASSUME Patient, RailAgrees, ProgramInv, HoldInv, HomeInv, Next, closing' = "no", closing = "no"
  PROVE  Homely(w') /\ \A r \in Request : request'[r] = "waiting" => ~w'.railFocused /\ ~w'.paneFocused
<1> DEFINE Good == /\ Homely(w')
                   /\ \A r \in Request : request'[r] = "waiting" => ~w'.railFocused /\ ~w'.paneFocused
<1>0. /\ Homely(w) /\ Homed(w) /\ w \in Win /\ Held(w) /\ Waits
      /\ request \in [Request -> {"none", "waiting", "shown"}]
      /\ \A r \in Request : request[r] = "waiting" => ~w.railFocused /\ ~w.paneFocused
  BY DEF HomeInv, HoldInv, Homely, Homed
<1>a. ASSUME Keeps(w'), \A r \in Request : request'[r] = "waiting" => request[r] = "waiting" PROVE Good
  BY <1>0, <1>a DEF Keeps
<1>b. Keeps(w)
  BY <1>0 DEF Keeps
<1>1. CASE Key
  <2>1. w.slot = "composer"
    <3>1. Cardinality(w.up) \in Nat /\ w.open = 0
      BY <1>0, <1>1, DialogsAreFinite DEF Win, Key
    <3> QED BY <1>0, <3>1 DEF Held
  <2>2. \A r \in Request : request'[r] # "waiting"
    BY <1>1, KeyBegins DEF Key, Begins
  <2> QED BY <1>0, <1>1, <2>1, <2>2, KeyHomely
<1>2. ASSUME NEW l \in Leaver, Left(l) \/ Refused(l) \/ NotDiscarded(l) \/ Decide(l) PROVE Good
  <2>1. l \in Dialog /\ UNCHANGED request
    BY <1>2 DEF Dialog, EditorModals, Left, Refused, NotDiscarded, Decide
  <2>2. w' \in {w, Open(w, l), Settle(w, {l})}
    BY <1>2 DEF Left, Refused, NotDiscarded, Decide, Shutdown
  <2>3. Keeps(w')
    BY <1>0, <1>b, <2>1, <2>2, DialogKeeps
  <2> QED BY <1>a, <2>1, <2>3
<1>3. ASSUME NEW r \in Request, Ask(r) \/ ShowPanel(r) \/ Answer(r) \/ Unanswered(r) PROVE Good
  <2>0. r # "composer"
    BY WindowAssumption
  <2>1. CASE Ask(r)
    <3>1. ~w.railFocused /\ ~w.paneFocused
      <4>1. ~w.railFocused
        BY <1>0, <2>1 DEF Ask, Homed, RailPainted
      <4>2. ASSUME w.paneFocused PROVE FALSE
        <5>1. w.visible # "none" /\ w.focus = w.runtime[w.visible] /\ w.runtime[w.visible] # NoProc
          BY <1>0, <4>2 DEF Homed, InOneHome, Seated
        <5>2. w.runtime[w.visible] \in Proc
          BY <1>0, <5>1 DEF Win, Column
        <5> QED BY <2>1, <5>1, <5>2, WindowAssumption DEF Ask
      <4> QED BY <4>1, <4>2
    <3> QED BY <1>0, <2>1, <3>1 DEF Ask
  <2>2. CASE Unanswered(r)
    BY <1>a, <1>0, <1>b, <2>2 DEF Unanswered
  <2>3. CASE ShowPanel(r)
    <3>1. ~w.railFocused /\ ~w.paneFocused /\ Seated(w)
      BY <1>0, <2>3 DEF ShowPanel, Homed
    <3> DEFINE more == w.open + 1
    <3>2. more \in Int
      BY <1>0 DEF Win
    <3>3. w' = [w EXCEPT !.open = more, !.slot = r, !.focus = "panel"]
      BY <2>3 DEF ShowPanel
    <3> HIDE DEF more
    <3>4. /\ w' \in Win /\ Frames(w') = Frames(w) /\ w'.runtime = w.runtime /\ w'.slot = r
          /\ w'.focus = "panel" /\ w'.railFocused = w.railFocused
          /\ w'.railShown = w.railShown /\ w'.conversationShown = w.conversationShown
          /\ w'.conversationWanted = w.conversationWanted
      BY <1>0, <3>2, <3>3 DEF Win, Frames
    <3>5. /\ Size(w') = Size(w) /\ w'.paneFocused = w.paneFocused /\ w'.paneOn = w.paneOn
          /\ w'.seat = w.seat /\ w'.visible = w.visible
      BY <3>4 DEF Frames, Size
    <3>6. Current(w')
      BY <1>0, <3>4, SameFrame DEF Homed, Current
    <3>7. Homed(w')
      BY <2>0, <3>1, <3>4, <3>5, <3>6 DEF Homed, Seated, InOneHome, RailPainted
    <3>8. Homely(w')
      BY <1>0, <3>5, <3>7 DEF Homely, Size
    <3> QED BY <3>1, <3>4, <3>5, <3>8
  <2>4. CASE Answer(r)
    <3>1. ~w.railFocused /\ ~w.paneFocused /\ Seated(w)
      BY <1>0, <2>0, <2>4 DEF Answer, Homed, InOneHome
    <3> DEFINE less == w.open - 1
    <3>2. less \in Int
      BY <1>0 DEF Win
    <3>3. w' = [w EXCEPT !.open = less, !.slot = "composer", !.focus = "composer"]
      BY <2>4 DEF Answer
    <3> HIDE DEF less
    <3>4. /\ w' \in Win /\ Frames(w') = Frames(w) /\ w'.runtime = w.runtime
          /\ w'.slot = "composer"
          /\ w'.focus = "composer" /\ w'.railFocused = w.railFocused
          /\ w'.railShown = w.railShown /\ w'.conversationShown = w.conversationShown
          /\ w'.conversationWanted = w.conversationWanted
      BY <1>0, <3>2, <3>3 DEF Win, Frames
    <3>5. /\ Size(w') = Size(w) /\ w'.paneFocused = w.paneFocused /\ w'.paneOn = w.paneOn
          /\ w'.seat = w.seat /\ w'.visible = w.visible
      BY <3>4 DEF Frames, Size
    <3>6. Current(w')
      BY <1>0, <3>4, SameFrame DEF Homed, Current
    <3>7. Homed(w')
      BY <3>1, <3>4, <3>5, <3>6 DEF Homed, Seated, InOneHome, RailPainted
    <3>8. Homely(w')
      BY <1>0, <3>5, <3>7 DEF Homely, Size
    <3> QED BY <3>1, <3>4, <3>5, <3>8
  <2> QED BY <1>3, <2>1, <2>2, <2>3, <2>4
<1>4. CASE AskApproval \/ SettleApproval \/ AskConflict \/ SettleConflict
  <2>1. PICK dialog \in {"approval", "conflict"} :
           UNCHANGED request /\ w' \in {Open(w, dialog), Settle(w, {dialog})}
    BY <1>4 DEF AskApproval, SettleApproval, AskConflict, SettleConflict, Only
  <2>2. dialog \in Dialog
    BY DEF Dialog, EditorModals
  <2>3. Keeps(w')
    BY <1>0, <2>1, <2>2, DialogKeeps
  <2> QED BY <1>a, <2>1, <2>3
<1>5. ASSUME NEW p \in Proc, Exit(p) \/ ExitEvent(p) PROVE Good
  <2>0. w.kind[p] \in Kind /\ UNCHANGED request
    BY <1>0, <1>5 DEF Win, Exit, ExitEvent, Only
  <2>1. CASE Exit(p)
    <3>1. /\ w' \in Win /\ Frames(w') = Frames(w) /\ Shape(w') = Shape(w)
          /\ w'.runtime = w.runtime /\ w'.slot = w.slot
      BY <1>0, <2>1 DEF Exit, Only, Win, Frames, Shape
    <3>2. Keeps(w')
      BY <1>0, <3>1, ShapeKeeps
    <3> QED BY <1>a, <2>0, <3>2
  <2>2. CASE ExitEvent(p)
    <3> DEFINE gone == drop(w, w.kind[p])
               r == IF Disposed(p) THEN w ELSE gone
    <3>1. /\ Homed(gone) /\ Size(gone) = Size(w)
          /\ ~w.railFocused /\ ~w.paneFocused => ~gone.railFocused /\ ~gone.paneFocused
      BY <1>0, <2>0, DropHomed
    <3>2. w' = [r EXCEPT !.child[p] = "free", !.kind[p] = "terminal"]
      BY <2>2 DEF ExitEvent, Only
    <3> HIDE DEF gone
    <3>3. /\ Homed(r) /\ Size(r) = Size(w) /\ r \in Win
          /\ ~w.railFocused /\ ~w.paneFocused => ~r.railFocused /\ ~r.paneFocused
      BY <1>0, <3>1 DEF Homed
    <3> HIDE DEF r
    <3>4. /\ w' \in Win /\ Frames(w') = Frames(r) /\ Shape(w') = Shape(r)
          /\ w'.runtime = r.runtime /\ w'.slot = r.slot
      BY <3>2, <3>3 DEF Win, Frames, Shape, Kind
    <3>5. Homed(w') /\ Size(w') = Size(r)
      BY <3>3, <3>4, ShapeHomed
    <3>6. w'.railFocused = r.railFocused /\ w'.paneFocused = r.paneFocused
      BY <3>4 DEF Frames, Shape
    <3>7. Keeps(w')
      BY <1>0, <3>3, <3>5, <3>6 DEF Keeps, Homely, Size
    <3> QED BY <1>a, <2>0, <3>7
  <2> QED BY <1>5, <2>1, <2>2
<1>6. CASE SwitchSession
  <2>1. w' = reset(w) /\ UNCHANGED request
    BY <1>6 DEF SwitchSession, Only
  <2>2. Keeps(w')
    BY <1>0, <2>1, ResetHomed DEF Keeps, Homely, Size
  <2> QED BY <1>a, <2>1, <2>2
<1>7. CASE SessionOpened
  <2>1. w' = blurRail(w) /\ UNCHANGED request
    BY <1>7 DEF SessionOpened, Only
  <2>2. Moves(w, w') /\ ~w'.railFocused /\ w'.paneFocused = w.paneFocused
    BY <1>0, <2>1, RailBlurred
  <2>3. Keeps(w')
    BY <1>0, <2>2, MovesHomely DEF Keeps
  <2> QED BY <1>a, <2>1, <2>3
<1>8. CASE Resize
  <2>1. PICK columns \in Widths :
           w' = Resized([w EXCEPT !.columns = columns]) /\ UNCHANGED request
    BY <1>8 DEF Resize, Only
  <2>2. columns \in Nat
    BY WindowAssumption
  <2>3. Keeps(w')
    BY <1>0, <2>1, <2>2, ResizedHomed DEF Keeps, Homely
  <2> QED BY <1>a, <2>1, <2>3
<1>9. CASE Dispose
  BY <1>9 DEF Dispose
<1> QED BY <1>1, <1>2, <1>3, <1>4, <1>5, <1>6, <1>7, <1>8, <1>9 DEF Next

\* What is painted and who has the keyboard, as panes.ts, rail.ts and layout.ts leave them
\* after every call.
THEOREM HomeInvariant == ASSUME Patient, RailAgrees PROVE Spec => []HomeInv
<1>1. Init => HomeInv
  <2> SUFFICES ASSUME Init PROVE HomeInv
    OBVIOUS
  <2>1. /\ w \in Win /\ Current(w) /\ w.columns \in Widths /\ w.dragged = 0
        /\ w.railFocused = FALSE /\ w.paneFocused = FALSE /\ w.paneOn = FALSE
        /\ w.seat = "none" /\ w.visible = "none" /\ w.focus = "composer" /\ w.slot = "composer"
    BY Starting
  <2>2. Homed(w)
    BY <2>1 DEF Homed, Seated, InOneHome, RailPainted
  <2> QED BY <2>1, <2>2, WindowAssumption DEF HomeInv, Homely
<1>2. ProgramInv /\ HoldInv /\ HomeInv /\ [Next]_vars => HomeInv'
  <2> SUFFICES ASSUME ProgramInv, HoldInv, HomeInv, [Next]_vars PROVE HomeInv'
    OBVIOUS
  <2>0. Homely(w)' <=> Homely(w')
    BY DEF Homely, Homed, Current, Fits, Seated, InOneHome, RailPainted
  <2>1. CASE Next
    BY <2>0, <2>1, HomeStep, ClosedForGood DEF HomeInv
  <2>2. CASE UNCHANGED vars
    <3>1. w' = w /\ UNCHANGED <<request, closing>>
      BY <2>2 DEF vars
    <3> QED BY <2>0, <3>1 DEF HomeInv
  <2> QED BY <2>1, <2>2
<1> QED BY <1>1, <1>2, ProgramInvariant, HoldInvariant, PTL DEF Spec

\* The keyboard has one home and it is on the screen, and the screen is laid out for the
\* terminal as it is, in every window but one of exactly 86 columns whose rail was dragged.
THEOREM KeyboardStaysHome ==
  ASSUME Patient, 86 \notin Widths \/ MaxDrag < 19
  PROVE  Spec => []KeysFollowTheFrame
<1>1. HomeInv => KeysFollowTheFrame
  <2> SUFFICES ASSUME HomeInv, closing = "no" PROVE KeysFollowTheFrame
    BY DEF KeysFollowTheFrame, KeyboardHome, FrameCurrent
  <2>1. Homed(w) /\ w \in Win /\ Current(w) /\ Seated(w) /\ InOneHome(w) /\ RailPainted(w)
    BY DEF HomeInv, Homely, Homed
  <2>2. FrameCurrent
    BY <2>1, CurrentIsLaidOut DEF FrameCurrent
  <2>3. KeyboardHome
    BY <2>1 DEF KeyboardHome, Seated, InOneHome, RailPainted, paneShown
  <2> QED BY <2>2, <2>3 DEF KeysFollowTheFrame
<1>2. RailAgrees
  BY DEF RailAgrees
<1> QED BY <1>1, <1>2, HomeInvariant, PTL

-----------------------------------------------------------------------------
(* The room of the columns                                                 *)

\* However wide the terminal is and wherever a divider was moved, the clamped rail
\* leaves the conversation and the pane their minimum (layout.ts).  Below 55 columns,
\* 90 with a pane, nothing is promised: railFits() lets a rail in from 53 and 86 on.
THEOREM RailLeavesRoom ==
  ASSUME NEW columns \in Nat, NEW withPane \in BOOLEAN, NEW wanted \in Nat,
         columns >= IF withPane THEN 90 ELSE 55
  PROVE  Needed(withPane, railWidthNow(columns, withPane, wanted)) =< columns
<1> DEFINE limit == railWidthLimit(columns, withPane)
           width == railWidthNow(columns, withPane, wanted)
<1>1. limit \in Int /\ limit =< columns - RAIL_CONVERSATION_MIN - chrome(withPane)
  BY DEF railWidthLimit, RAIL_CONVERSATION_MIN, RAIL_MIN_SIZE, SPLIT_MIN_SIZE, chrome,
         Greatest, Least
<1>2. width \in Int /\ width =< limit + 1
  <2>1. railWidthFor(columns) \in Int
    BY DEF railWidthFor, RAIL_MAX_SIZE, RAIL_MIN_SIZE, Greatest, Least
  <2> HIDE DEF limit
  <2> QED BY <1>1, <2>1 DEF railWidthNow, limit, RAIL_MIN_SIZE, Greatest, Least
<1>3. RAIL_MIN_SIZE =< columns - RAIL_CONVERSATION_MIN - chrome(withPane)
  BY DEF RAIL_MIN_SIZE, RAIL_CONVERSATION_MIN, SPLIT_MIN_SIZE, chrome
<1>4. chrome(withPane) \in Int
  BY DEF chrome, SPLIT_MIN_SIZE
<1> HIDE DEF limit, width
<1>5. railDrawnWidth(width) =< columns - RAIL_CONVERSATION_MIN - chrome(withPane)
  BY <1>1, <1>2, <1>3, <1>4
  DEF railDrawnWidth, Greatest, RAIL_MIN_SIZE, RAIL_CONVERSATION_MIN
<1>6. railDrawnWidth(width) \in Int
  BY <1>2 DEF railDrawnWidth, Greatest, RAIL_MIN_SIZE
<1> QED BY <1>4, <1>5, <1>6 DEF Needed, width, RAIL_CONVERSATION_MIN

-----------------------------------------------------------------------------
(* The parts of a window that keep a state of their own                    *)

\* Each part steps by itself, or rests.
LEMMA PanelSteps ==
  ASSUME [PanelsNext]_panels
  PROVE  /\ Picking!PickerNext \/ UNCHANGED picker
         /\ Picking!ResumeNext \/ UNCHANGED resume
         /\ Asking!CardNext \/ UNCHANGED cards
         /\ Listing!ListNext \/ UNCHANGED sessionList
         /\ Railing!RailNext \/ UNCHANGED rail
         /\ LoggingIn!LoginNext \/ UNCHANGED login
         /\ Saving!AutosaveNext \/ UNCHANGED autosave
         /\ Publishing!HomeNext \/ UNCHANGED editorHome
BY DEF PanelsNext, panels

-----------------------------------------------------------------------------
(* /login and /model                                                       *)

\* A request for a model on its way to the Host.
LoginCall == [window : Window, model : LoggingIn!Model, users : BOOLEAN, accepted : BOOLEAN]
LoginTypes ==
    /\ named \in {"none", "derived", "own"} /\ revision \in Nat
    /\ selected \in LoggingIn!Model /\ model \in [Window -> LoggingIn!Model]
    /\ step \in [Window -> {"idle", "described", "named", "saved", "adopting"}]
    /\ profile \in [Window -> [named : {"none", "derived", "own"}, revision : Nat]]
    /\ chosen \in [Window -> LoggingIn!Model]
    /\ calls \subseteq LoginCall
    /\ wish \in LoggingIn!Model \cup {"none"} /\ crossed \in BOOLEAN

\* What a window read of the profile is what it says, as long as the revision is the
\* same; a reference once there stays, and a key is stored only under one.
ProfileRead ==
    \A u \in Window :
        /\ profile[u].revision <= revision
        /\ profile[u].revision = revision => profile[u].named = named
        /\ profile[u].named # "none" => named # "none"
        /\ step[u] \in {"named", "saved", "adopting"} => named # "none"

\* The pick of the user is the only call under way, or was answered: then the Session
\* runs it, and it is of a provider that is there, which no adoption replaces.
PickUnderWay ==
    wish # "none" /\ ~crossed =>
        /\ wish # "x1"
        /\ \/ calls = {} /\ selected = wish
           \/ \E c \in calls : /\ calls = {c} /\ c.users /\ c.model = wish
                               /\ c.accepted => selected = wish

\* The invariant of /login.
LoginInv == LoginTypes /\ ProfileRead /\ PickUnderWay

LEMMA LoginStarts == LoggingIn!LoginInit => LoginInv
<1> SUFFICES ASSUME LoggingIn!LoginInit PROVE LoginInv
  OBVIOUS
<1>1. {"q1", "x1"} \subseteq LoggingIn!Model
  BY DEF LoggingIn!Model, LoggingIn!ProviderOf
<1>2. LoginTypes
  BY <1>1 DEF LoggingIn!LoginInit, LoginTypes
<1>3. ProfileRead /\ PickUnderWay
  BY DEF LoggingIn!LoginInit, ProfileRead, PickUnderWay
<1> QED BY <1>2, <1>3 DEF LoginInv

\* Every action of /login keeps the types.
LEMMA LoginTyped ==
  ASSUME LoginTypes, LoggingIn!LoginNext
  PROVE  LoginTypes'
<1> USE DEF LoginTypes, LoggingIn!Go, LoggingIn!Profile, LoggingIn!Selection
<1>1. ASSUME NEW u \in Window, LoggingIn!describeProviders(u) PROVE LoginTypes'
  BY <1>1 DEF LoggingIn!describeProviders
<1>2. ASSUME NEW u \in Window, LoggingIn!mutate(u) PROVE LoginTypes'
  BY <1>2 DEF LoggingIn!mutate
<1>3. ASSUME NEW u \in Window, LoggingIn!Named(u) \/ LoggingIn!setCredential(u) \/ LoggingIn!Fails(u)
      PROVE LoginTypes'
  BY <1>3 DEF LoggingIn!Named, LoggingIn!setCredential, LoggingIn!Fails
<1>4. ASSUME NEW u \in Window, LoggingIn!adoptProviderModel(u) PROVE LoginTypes'
  BY <1>4 DEF LoggingIn!adoptProviderModel
<1>5. ASSUME NEW u \in Window, LoggingIn!CatalogSettles(u) PROVE LoginTypes'
  <2>1. LoggingIn!Call(u, "p1", FALSE) \in LoginCall
    BY DEF LoggingIn!Call, LoginCall, LoggingIn!Model, LoggingIn!ProviderOf
  <2>2. (crossed \/ LoggingIn!Picks # {} \/ model[u] # selected) \in BOOLEAN
    OBVIOUS
  <2> QED BY <1>5, <2>1, <2>2 DEF LoggingIn!CatalogSettles
<1>6. ASSUME NEW u \in Window, NEW m \in LoggingIn!Model \ {"x1"}, LoggingIn!chooseModel(u, m)
      PROVE LoginTypes'
  <2>1. LoggingIn!Call(u, m, TRUE) \in LoginCall
    BY DEF LoggingIn!Call, LoginCall
  <2> QED BY <1>6, <2>1 DEF LoggingIn!chooseModel
<1>7. ASSUME NEW u \in Window, LoggingIn!Follows(u) PROVE LoginTypes'
  BY <1>7 DEF LoggingIn!Follows
<1>8. ASSUME NEW c \in calls, LoggingIn!HostSelects(c) PROVE LoginTypes'
  <2>1. [c EXCEPT !.accepted = TRUE] \in LoginCall /\ c.model \in LoggingIn!Model
    BY DEF LoginCall
  <2> QED BY <1>8, <2>1 DEF LoggingIn!HostSelects
<1>9. ASSUME NEW c \in calls, LoggingIn!commitSelection(c) PROVE LoginTypes'
  <2>1. c.window \in Window /\ c.model \in LoggingIn!Model
    BY DEF LoginCall
  <2> QED BY <1>9, <2>1 DEF LoggingIn!commitSelection
<1>10. ASSUME LoggingIn!EditsProfile PROVE LoginTypes'
  BY <1>10 DEF LoggingIn!EditsProfile
<1> QED BY <1>1, <1>2, <1>3, <1>4, <1>5, <1>6, <1>7, <1>8, <1>9, <1>10 DEF LoggingIn!LoginNext

LEMMA ProfileReadStays ==
  ASSUME LoginTypes, ProfileRead, LoggingIn!LoginNext
  PROVE  ProfileRead'
<1> USE DEF LoginTypes, ProfileRead, LoggingIn!Go, LoggingIn!Profile, LoggingIn!Selection
<1>1. ASSUME NEW u \in Window, LoggingIn!describeProviders(u) PROVE ProfileRead'
  BY <1>1 DEF LoggingIn!describeProviders
<1>2. ASSUME NEW u \in Window, LoggingIn!mutate(u) PROVE ProfileRead'
  BY <1>2 DEF LoggingIn!mutate
<1>3. ASSUME NEW u \in Window, LoggingIn!Named(u) \/ LoggingIn!setCredential(u) \/ LoggingIn!Fails(u)
      PROVE ProfileRead'
  BY <1>3 DEF LoggingIn!Named, LoggingIn!setCredential, LoggingIn!Fails
<1>4. ASSUME NEW u \in Window, LoggingIn!adoptProviderModel(u) \/ LoggingIn!CatalogSettles(u)
      PROVE ProfileRead'
  BY <1>4 DEF LoggingIn!adoptProviderModel, LoggingIn!CatalogSettles
<1>5. ASSUME NEW u \in Window, NEW m \in LoggingIn!Model, LoggingIn!chooseModel(u, m) PROVE ProfileRead'
  BY <1>5 DEF LoggingIn!chooseModel
<1>6. ASSUME NEW u \in Window, LoggingIn!Follows(u) PROVE ProfileRead'
  BY <1>6 DEF LoggingIn!Follows
<1>7. ASSUME NEW c \in calls, LoggingIn!HostSelects(c) \/ LoggingIn!commitSelection(c) PROVE ProfileRead'
  BY <1>7 DEF LoggingIn!HostSelects, LoggingIn!commitSelection
<1>8. ASSUME LoggingIn!EditsProfile PROVE ProfileRead'
  BY <1>8 DEF LoggingIn!EditsProfile
<1> QED BY <1>1, <1>2, <1>3, <1>4, <1>5, <1>6, <1>7, <1>8 DEF LoggingIn!LoginNext

\* An adoption while a pick is under way crosses it; after the pick was answered a
\* window that knows of it adopts nothing.
LEMMA PickStays ==
  ASSUME LoginTypes, PickUnderWay, LoggingIn!LoginNext
  PROVE  PickUnderWay'
<1> USE DEF LoginTypes, PickUnderWay, LoggingIn!Profile, LoggingIn!Selection
<1>1. ASSUME UNCHANGED <<selected, calls, wish, crossed>> PROVE PickUnderWay'
  BY <1>1
<1>2. ASSUME NEW u \in Window, LoggingIn!CatalogSettles(u) PROVE PickUnderWay'
  <2>1. CASE LoggingIn!Adoptable(u)
    <3> SUFFICES ASSUME wish' # "none", ~crossed' PROVE FALSE
      OBVIOUS
    <3>1. wish # "none" /\ ~crossed /\ LoggingIn!Picks = {} /\ model[u] = selected
      BY <1>2, <2>1 DEF LoggingIn!CatalogSettles
    <3>2. selected = wish
      BY <3>1 DEF LoggingIn!Picks
    <3>3. LoggingIn!ProviderOf[wish] \in {"works", "new"}
      BY <3>1 DEF LoggingIn!Model, LoggingIn!ProviderOf
    <3> QED BY <2>1, <3>1, <3>2, <3>3 DEF LoggingIn!Adoptable, LoggingIn!Groups
  <2>2. CASE ~LoggingIn!Adoptable(u)
    BY <1>1, <1>2, <2>2 DEF LoggingIn!CatalogSettles
  <2> QED BY <2>1, <2>2
<1>3. ASSUME NEW u \in Window, NEW m \in LoggingIn!Model \ {"x1"}, LoggingIn!chooseModel(u, m)
      PROVE PickUnderWay'
  <2>1. LoggingIn!Call(u, m, TRUE).users /\ LoggingIn!Call(u, m, TRUE).model = m
        /\ ~LoggingIn!Call(u, m, TRUE).accepted
    BY DEF LoggingIn!Call
  <2>2. ~crossed' => calls' = {LoggingIn!Call(u, m, TRUE)}
    BY <1>3 DEF LoggingIn!chooseModel
  <2> QED BY <1>3, <2>1, <2>2 DEF LoggingIn!chooseModel
<1>4. ASSUME NEW c \in calls, LoggingIn!HostSelects(c) PROVE PickUnderWay'
  <2> DEFINE d == [c EXCEPT !.accepted = TRUE]
  <2>1. d.users = c.users /\ d.model = c.model
    BY DEF LoginCall
  <2>2. selected' = c.model /\ calls' = (calls \ {c}) \cup {d} /\ UNCHANGED <<wish, crossed>>
    BY <1>4 DEF LoggingIn!HostSelects
  <2> HIDE DEF d
  <2>3. ASSUME wish # "none", ~crossed PROVE calls = {c} /\ c.users /\ c.model = wish /\ wish # "x1"
    BY <2>3
  <2> QED BY <2>1, <2>2, <2>3
<1>5. ASSUME NEW c \in calls, LoggingIn!commitSelection(c) PROVE PickUnderWay'
  BY <1>5 DEF LoggingIn!commitSelection
<1> QED
  BY <1>1, <1>2, <1>3, <1>4, <1>5 DEF LoggingIn!LoginNext, LoggingIn!describeProviders,
     LoggingIn!mutate, LoggingIn!Named, LoggingIn!setCredential, LoggingIn!Fails,
     LoggingIn!adoptProviderModel, LoggingIn!Follows, LoggingIn!EditsProfile

LEMMA LoginInvStays == LoginInv /\ (LoggingIn!LoginNext \/ UNCHANGED login) => LoginInv'
<1>1. LoginInv /\ LoggingIn!LoginNext => LoginInv'
  BY LoginTyped, ProfileReadStays, PickStays DEF LoginInv
<1>2. LoginInv /\ UNCHANGED login => LoginInv'
  BY DEF LoginInv, LoginTypes, ProfileRead, PickUnderWay, login
<1> QED BY <1>1, <1>2

\* A profile that its owner named keeps the name, and a key has a profile to be under.
LEMMA NamedStep ==
  ASSUME LoginInv, LoggingIn!LoginNext \/ UNCHANGED login
  PROVE  /\ named = "own" => named' = "own"
         /\ keys' # keys => named' # "none"
<1> USE DEF LoginInv, LoginTypes, ProfileRead, LoggingIn!Profile
<1>1. ASSUME NEW u \in Window, LoggingIn!mutate(u) PROVE (named # "own" /\ keys' = keys) \/ UNCHANGED <<named, keys>>
  BY <1>1 DEF LoggingIn!mutate
<1>2. ASSUME NEW u \in Window, LoggingIn!setCredential(u) PROVE named # "none" /\ named' = named
  BY <1>2 DEF LoggingIn!setCredential
<1>3. LoggingIn!EditsProfile => named' = "own"
  BY DEF LoggingIn!EditsProfile
<1> QED
  BY <1>1, <1>2, <1>3 DEF LoggingIn!LoginNext, LoggingIn!describeProviders, LoggingIn!Named,
     LoggingIn!Fails, LoggingIn!adoptProviderModel, LoggingIn!CatalogSettles, LoggingIn!chooseModel,
     LoggingIn!HostSelects, LoggingIn!commitSelection, LoggingIn!Follows, LoggingIn!Profile, login

\* The invariant is enough for the user's pick to stand.
LEMMA PickHolds == LoginInv => LoggingIn!PickStands
BY DEF LoginInv, PickUnderWay, LoggingIn!PickStands

-----------------------------------------------------------------------------
(* Autosave                                                                *)

\* No file is newer than the clock, and Neovim writes the buffer of a file.
AutosaveInv ==
    /\ changed \in Nat
    /\ disk \in [File -> [at : Nat, by : {"agent", "editor"}]]
    /\ \A f \in File : disk[f].at <= changed
    /\ todo \in Seq(File)
    /\ writing \in {"rest", "check", "write", "asks", "stamp", "gone"}
    /\ writing \in {"check", "write", "asks", "stamp"} => todo # <<>>

\* The files in the order the editor takes them are a sequence.
LEMMA FilesInOrder == Saving!SetToSeq(File) \in Seq(File)
<1>1. Cardinality(File) \in Nat /\ ExistsBijection(1 .. Cardinality(File), File)
  BY FS_CardinalityType, PanelsAssumption DEF PanelsAssumption
<1>2. PICK f \in Bijection(1 .. Cardinality(File), File) : TRUE
  BY <1>1 DEF ExistsBijection
<1>3. f \in [1 .. Cardinality(File) -> File] /\ Saving!IsInjective(f)
  BY <1>2 DEF Bijection, Injection, IsInjective, Saving!IsInjective
<1>4. Saving!SetToSeq(File) \in [1 .. Cardinality(File) -> File]
  <2>1. Saving!Cardinality(File) = Cardinality(File)
    BY DEF Saving!Cardinality, Cardinality
  <2> QED BY <1>3, <2>1 DEF Saving!SetToSeq
<1> QED BY <1>1, <1>4

LEMMA AutosaveStarts == Saving!AutosaveInit => AutosaveInv
BY DEF Saving!AutosaveInit, AutosaveInv

\* The file to write next, and those after it.
LEMMA RestOfTodo ==
  ASSUME todo \in Seq(File), todo # <<>>
  PROVE  /\ Head(todo) \in File
         /\ Tail(todo) \in Seq(File)
         /\ Len(todo) # 1 => Tail(todo) # <<>>
<1>1. Len(todo) \in Nat /\ Len(todo) >= 1 /\ Head(todo) \in File /\ Tail(todo) \in Seq(File)
  OBVIOUS
<1>2. Len(Tail(todo)) = Len(todo) - 1
  OBVIOUS
<1> QED BY <1>1, <1>2

\* A write to one file leaves the others as they are.
LEMMA DiskWritten ==
  ASSUME AutosaveInv, NEW f \in File, NEW who \in {"agent", "editor"},
         changed' = changed + 1, disk' = [disk EXCEPT ![f] = [at |-> changed', by |-> who]]
  PROVE  /\ changed' \in Nat
         /\ disk' \in [File -> [at : Nat, by : {"agent", "editor"}]]
         /\ \A g \in File : disk'[g].at <= changed'
         /\ \A g \in File : disk'[g] # disk[g] <=> g = f
<1>1. disk'[f] = [at |-> changed + 1, by |-> who] /\ \A g \in File \ {f} : disk'[g] = disk[g]
  BY DEF AutosaveInv
<1>2. disk'[f].at # disk[f].at
  BY <1>1 DEF AutosaveInv
<1> QED BY <1>1, <1>2 DEF AutosaveInv

LEMMA AutosaveInvStays == AutosaveInv /\ (Saving!AutosaveNext \/ UNCHANGED autosave) => AutosaveInv'
<1> SUFFICES ASSUME AutosaveInv, Saving!AutosaveNext \/ UNCHANGED autosave PROVE AutosaveInv'
  OBVIOUS
<1>1. ASSUME UNCHANGED <<changed, disk, todo, writing>> PROVE AutosaveInv'
  BY <1>1 DEF AutosaveInv
<1>2. ASSUME NEW f \in File, NEW who \in {"agent", "editor"},
             changed' = changed + 1, disk' = [disk EXCEPT ![f] = [at |-> changed', by |-> who]],
             UNCHANGED todo,
             writing' \in {writing, "rest", "gone"} \/ (todo # <<>> /\ writing' = "stamp")
      PROVE AutosaveInv'
  BY <1>2, DiskWritten DEF AutosaveInv
<1>3. ASSUME NEW buffers \in Seq(File), Saving!Begin(buffers) PROVE AutosaveInv'
  BY <1>3 DEF AutosaveInv, Saving!Begin
<1>4. ASSUME UNCHANGED <<changed, disk>>, todo # <<>>, Saving!Done PROVE AutosaveInv'
  BY <1>4, RestOfTodo DEF AutosaveInv, Saving!Done
<1>5. ASSUME UNCHANGED <<changed, disk, todo>>, writing' \in {"write", "asks", "stamp"}, todo # <<>>
      PROVE AutosaveInv'
  BY <1>5 DEF AutosaveInv
<1>6. ASSUME NEW f \in File, Saving!AgentWrites(f) \/ Saving!Wall(f) PROVE AutosaveInv'
  BY <1>2, <1>6 DEF Saving!AgentWrites, Saving!Wall, Saving!Writes
<1>7. ASSUME NEW f \in File, Saving!Fires(f) PROVE AutosaveInv'
  <2>1. <<f>> \in Seq(File)
    OBVIOUS
  <2> QED BY <1>3, <1>7, <2>1 DEF Saving!Fires
<1>8. ASSUME NEW f \in File, Saving!Rereads(f) PROVE AutosaveInv'
  BY <1>1, <1>8 DEF Saving!Rereads
<1>9. ASSUME NEW to \in File \cup {Saving!Tree}, Saving!BufLeave(to) PROVE AutosaveInv'
  <2>1. buffer \in File => <<buffer>> \in Seq(File)
    OBVIOUS
  <2> QED BY <1>1, <1>3, <1>9, <2>1 DEF Saving!BufLeave
<1>10. ASSUME Saving!autosave_write_all PROVE AutosaveInv'
  BY <1>3, <1>10, FilesInOrder DEF Saving!autosave_write_all
<1>11. ASSUME Saving!Check \/ Saving!Stamp PROVE AutosaveInv'
  <2>1. todo # <<>>
    BY <1>11 DEF Saving!Check, Saving!Stamp, AutosaveInv
  <2> QED BY <1>4, <1>5, <1>11, <2>1 DEF Saving!Check, Saving!Stamp
<1>12. ASSUME Saving!Write PROVE AutosaveInv'
  <2>1. todo # <<>> /\ Head(todo) \in File
    BY <1>12, RestOfTodo DEF Saving!Write, AutosaveInv
  <2> QED BY <1>2, <1>5, <1>12, <2>1 DEF Saving!Write, Saving!Writes
<1>13. ASSUME Saving!Declined PROVE AutosaveInv'
  BY <1>5, <1>13 DEF Saving!Declined, AutosaveInv
<1>14. ASSUME Saving!Keep PROVE AutosaveInv'
  BY <1>1, <1>2, <1>14 DEF Saving!Keep, Saving!Writes
<1>15. ASSUME Saving!Quit \/ Saving!Discard PROVE AutosaveInv'
  BY <1>15 DEF Saving!Quit, Saving!Discard, Saving!Gone, AutosaveInv
<1>16. ASSUME \/ Saving!Type \/ Saving!InsertEnter \/ Saving!ReadConflict \/ Saving!showConflict
              \/ Saving!Later \/ Saving!Reload \/ UNCHANGED autosave
       PROVE AutosaveInv'
  BY <1>1, <1>16 DEF Saving!Type, Saving!InsertEnter, Saving!ReadConflict, Saving!showConflict,
     Saving!Later, Saving!Reload, autosave
<1> QED
  BY <1>6, <1>7, <1>8, <1>9, <1>10, <1>11, <1>12, <1>13, <1>14, <1>15, <1>16
  DEF Saving!AutosaveNext

\* What a step may write over or drop.
Overwrites(f) ==
    /\ disk'[f] # disk[f] /\ disk'[f].by = "editor" /\ known[f] # Saving!At(f) => said'.choice = "keep"
    /\ f \in modified \ modified' => disk'[f] # disk[f] \/ said'.choice \in {"reload", "discard"}

\* Every step of the autosave keeps the promise about the files.
LEMMA OverwritingStep ==
  ASSUME AutosaveInv, Saving!AutosaveNext \/ UNCHANGED autosave
  PROVE  \A f \in File : Overwrites(f)
<1>1. ASSUME UNCHANGED disk, modified \subseteq modified' PROVE \A f \in File : Overwrites(f)
  BY <1>1 DEF Overwrites
<1>2. ASSUME NEW g \in File, Saving!AgentWrites(g) PROVE \A f \in File : Overwrites(f)
  <2>1. disk'[g].by = "agent" /\ \A f \in File \ {g} : disk'[f] = disk[f]
    BY <1>2 DEF Saving!AgentWrites, AutosaveInv
  <2> QED BY <1>2, <2>1 DEF Saving!AgentWrites, Overwrites
<1>3. ASSUME NEW g \in File, Saving!Writes(g), known[g] = Saving!At(g) \/ said'.choice = "keep"
      PROVE \A f \in File : Overwrites(f)
  <2>1. \A f \in File : disk'[f] # disk[f] <=> f = g
    BY <1>3, DiskWritten DEF Saving!Writes
  <2> QED BY <1>3, <2>1 DEF Saving!Writes, Overwrites
<1>4. ASSUME Saving!Write PROVE \A f \in File : Overwrites(f)
  <2>1. Head(todo) \in File
    BY <1>4, RestOfTodo DEF Saving!Write, AutosaveInv
  <2> QED BY <1>1, <1>3, <1>4, <2>1 DEF Saving!Write
<1>5. ASSUME NEW f \in File, Saving!Wall(f) PROVE \A g \in File : Overwrites(g)
  BY <1>3, <1>5 DEF Saving!Wall
<1>6. ASSUME Saving!Keep PROVE \A f \in File : Overwrites(f)
  <2>1. said'.choice = "keep"
    BY <1>6 DEF Saving!Keep, Saving!Says
  <2> QED BY <1>1, <1>3, <1>6, <2>1 DEF Saving!Keep
<1>7. ASSUME Saving!Reload PROVE \A f \in File : Overwrites(f)
  BY <1>7 DEF Saving!Reload, Saving!Says, Overwrites
<1>8. ASSUME Saving!Quit \/ Saving!Discard PROVE \A f \in File : Overwrites(f)
  BY <1>8 DEF Saving!Quit, Saving!Discard, Saving!Gone, Saving!Says, Overwrites
<1>9. ASSUME NEW f \in File, Saving!Fires(f) \/ Saving!Rereads(f) PROVE \A g \in File : Overwrites(g)
  BY <1>1, <1>9 DEF Saving!Fires, Saving!Begin, Saving!Rereads, Saving!ReadsFile
<1>10. ASSUME NEW to \in File \cup {Saving!Tree}, Saving!BufLeave(to)
       PROVE \A f \in File : Overwrites(f)
  BY <1>1, <1>10 DEF Saving!BufLeave, Saving!Begin
<1>11. ASSUME \/ Saving!Type \/ Saving!InsertEnter \/ Saving!autosave_write_all \/ Saving!Check
              \/ Saving!Declined \/ Saving!Stamp \/ Saving!ReadConflict \/ Saving!showConflict
              \/ Saving!Later \/ UNCHANGED autosave
       PROVE \A f \in File : Overwrites(f)
  BY <1>1, <1>11 DEF Saving!Type, Saving!InsertEnter, Saving!autosave_write_all, Saving!Begin,
     Saving!Check, Saving!Declined, Saving!Stamp, Saving!ReadConflict, Saving!showConflict,
     Saving!Later, autosave
<1> QED
  BY <1>2, <1>4, <1>5, <1>6, <1>7, <1>8, <1>9, <1>10, <1>11 DEF Saving!AutosaveNext

-----------------------------------------------------------------------------
(* The Session list                                                        *)

\* The rows and the events of the Session list.
ListRow == [there : BOOLEAN, updatedAt : Nat, running : BOOLEAN, blank : BOOLEAN, title : BOOLEAN]
ListKind == {"added", "activity", "status", "removed"}
ListEvent == [kind : ListKind, id : Here, row : ListRow]

\* Nothing runs and nothing was said where there is no Session.
Bare(r) == ~r.there => ~r.running /\ r.blank

\* The types of the list, of the Host and of what is on its way between them.
ListTypes ==
    /\ host \in [Here -> ListRow] /\ clock \in Nat
    /\ events \in Seq(ListEvent)
    /\ journal \in Seq([kind : {"user/message", "session/title"}, id : Here])
    /\ reread \in [step : {"none", "asked", "made"}, list : [Here -> ListRow]]
    /\ passed \in BOOLEAN /\ overtaken \in BOOLEAN
    /\ sessions \in [Here -> ListRow]
    /\ open \subseteq Here /\ created \subseteq Here
    /\ \A s \in Here : Bare(host[s]) /\ Bare(sessions[s]) /\ Bare(reread.list[s])

\* An event of these kinds is under way; is behind the one at i.
Ahead(es, s, kinds) == \E i \in DOMAIN es : es[i].id = s /\ es[i].kind \in kinds
Behind(es, i, s, kinds) == \E j \in DOMAIN es : i < j /\ es[j].id = s /\ es[j].kind \in kinds

\* What the event at i tells is so at the Host, whose row is h, or a later one says more.
Tells(es, i, h) ==
    LET e == es[i] IN
    /\ e.kind = "added" => e.row.there /\ e.row.blank
    /\ \/ e.kind # "activity" /\ e.row.running = h.running
       \/ Behind(es, i, e.id, ListKind)
    /\ ~h.there => e.kind = "removed" \/ Behind(es, i, e.id, {"removed"})
    /\ h.there /\ e.kind = "removed" => Behind(es, i, e.id, {"added"})
    /\ h.there /\ e.kind \in {"added", "activity"} =>
         e.row.updatedAt = h.updatedAt \/ Behind(es, i, e.id, {"added", "activity"})
    /\ h.there /\ h.blank /\ e.kind = "activity" => Behind(es, i, e.id, {"removed"})
    /\ h.there /\ ~h.blank /\ e.kind \in {"added", "removed"} => Behind(es, i, e.id, {"activity"})

\* A row is the Host's, or an event under way makes it so.
Tracks(r, h, es, s) ==
    /\ r.there = h.there \/ Ahead(es, s, {"added", "removed"})
    /\ r.running = h.running \/ Ahead(es, s, ListKind)
    /\ h.there => r.updatedAt = h.updatedAt \/ Ahead(es, s, {"added", "activity"})
    /\ h.there /\ h.blank => r.blank \/ Ahead(es, s, {"removed"})
    /\ h.there /\ ~h.blank => ~r.blank \/ Ahead(es, s, {"activity"})

\* Every event on its way.
EventsTell == \A i \in DOMAIN events : Tells(events, i, host[events[i].id])

\* The journal is of the open Session, which nobody removes, and tells what was said.
JournalTells ==
    /\ \A s \in open \cup created : host[s].there
    /\ \A i \in DOMAIN journal : /\ journal[i].id \in open
                                 /\ journal[i].kind = "user/message" => ~host[journal[i].id].blank

\* Every row of a list that no event overtook, and of a re-read that none passed.
ListTracks ==
    /\ ~overtaken => \A s \in Here : Tracks(sessions[s], host[s], events, s)
    /\ reread.step = "made" /\ ~passed =>
         \A s \in Here : Tracks(reread.list[s], host[s], events, s)

\* The invariant of the Session list.
ListInv == ListTypes /\ EventsTell /\ JournalTells /\ ListTracks

\* Events of one Session are added at the end.
Grows(es, fs, s) ==
    /\ Len(es) <= Len(fs)
    /\ \A i \in 1 .. Len(es) : fs[i] = es[i]
    /\ \A i \in Len(es) + 1 .. Len(fs) : fs[i].id = s

\* What is under way stays so when more events are published.
LEMMA StillAhead ==
  ASSUME NEW es \in Seq(ListEvent), NEW fs \in Seq(ListEvent), NEW s \in Here, Grows(es, fs, s),
         NEW t \in Here, NEW kinds
  PROVE  /\ Ahead(es, t, kinds) => Ahead(fs, t, kinds)
         /\ \A i \in DOMAIN es : Behind(es, i, t, kinds) => Behind(fs, i, t, kinds)
BY DEF Grows, Ahead, Behind

\* What is said of another Session stays so.
LEMMA OthersStillTold ==
  ASSUME NEW es \in Seq(ListEvent), NEW fs \in Seq(ListEvent), NEW s \in Here, Grows(es, fs, s),
         NEW h
  PROVE  /\ \A i \in DOMAIN es : Tells(es, i, h) => Tells(fs, i, h)
         /\ \A r \in ListRow, t \in Here : Tracks(r, h, es, t) => Tracks(r, h, fs, t)
<1>1. ASSUME NEW i \in DOMAIN es, Tells(es, i, h) PROVE Tells(fs, i, h)
  <2>1. fs[i] = es[i] /\ es[i].id \in Here
    <3>1. es[i] \in ListEvent
      OBVIOUS
    <3> QED BY <3>1 DEF Grows, ListEvent
  <2>2. \A kinds : Behind(es, i, es[i].id, kinds) => Behind(fs, i, es[i].id, kinds)
    BY <2>1, StillAhead
  <2> QED BY <1>1, <2>1, <2>2 DEF Tells
<1>2. ASSUME NEW r \in ListRow, NEW t \in Here, Tracks(r, h, es, t) PROVE Tracks(r, h, fs, t)
  <2>1. \A kinds : Ahead(es, t, kinds) => Ahead(fs, t, kinds)
    BY StillAhead
  <2> QED BY <1>2, <2>1 DEF Tracks
<1> QED BY <1>1, <1>2

\* The Host creates a Session.
LEMMA CreatedTold ==
  ASSUME NEW es \in Seq(ListEvent), NEW fs \in Seq(ListEvent), NEW s \in Here, Grows(es, fs, s),
         Len(fs) = Len(es) + 1, NEW h \in ListRow, NEW g \in ListRow,
         ~h.there, g.there, ~g.running, g.blank,
         fs[Len(es) + 1].kind = "added", fs[Len(es) + 1].row = g
  PROVE  /\ \A i \in DOMAIN es : es[i].id = s /\ Tells(es, i, h) => Tells(fs, i, g)
         /\ Tells(fs, Len(es) + 1, g)
         /\ (\A i \in DOMAIN es : es[i].id = s => Tells(es, i, h)) =>
              \A r \in ListRow : Bare(r) /\ Tracks(r, h, es, s) => Tracks(r, g, fs, s)
<1> DEFINE n == Len(es) + 1
<1>1. n \in DOMAIN fs /\ fs[n].id = s /\ fs[n].kind = "added" /\ n \in Nat
  BY DEF Grows
<1>2. \A i \in DOMAIN es : /\ i < n /\ fs[i] = es[i]
                           /\ \A kinds : Behind(es, i, s, kinds) => Behind(fs, i, s, kinds)
  <2>1. \A i \in DOMAIN es : i < n /\ fs[i] = es[i]
    BY DEF Grows
  <2> QED BY <2>1, StillAhead
<1>3. \A i \in DOMAIN es : \A kinds : "added" \in kinds => Behind(fs, i, s, kinds)
  BY <1>1, <1>2 DEF Behind
<1>4. ASSUME NEW i \in DOMAIN es, es[i].id = s, Tells(es, i, h) PROVE Tells(fs, i, g)
  <2>1. /\ Behind(fs, i, s, {"added"}) /\ Behind(fs, i, s, {"added", "activity"})
        /\ Behind(fs, i, s, ListKind)
    BY <1>3 DEF ListKind
  <2>2. es[i].kind = "activity" => Behind(fs, i, s, {"removed"})
    BY <1>2, <1>4 DEF Tells
  <2> QED BY <1>2, <1>4, <2>1, <2>2 DEF Tells
<1>5. Tells(fs, n, g)
  BY <1>1 DEF Tells
<1>6. ASSUME \A i \in DOMAIN es : es[i].id = s => Tells(es, i, h),
             NEW r \in ListRow, Bare(r), Tracks(r, h, es, s)
      PROVE  Tracks(r, g, fs, s)
  <2>1. /\ Ahead(fs, s, {"added", "removed"}) /\ Ahead(fs, s, ListKind)
        /\ Ahead(fs, s, {"added", "activity"})
    BY <1>1 DEF Ahead, ListKind
  <2>2. CASE ~r.there
    BY <1>6, <2>1, <2>2 DEF Tracks, Bare
  <2>3. CASE r.there
    <3>1. PICK i \in DOMAIN es : es[i].id = s /\ es[i].kind \in {"added", "removed"}
      BY <1>6, <2>3 DEF Tracks, Ahead
    <3>2. es[i].kind = "removed" \/ Behind(es, i, s, {"removed"})
      BY <1>6, <3>1 DEF Tells
    <3>3. Ahead(es, s, {"removed"})
      BY <3>1, <3>2 DEF Ahead, Behind
    <3>4. Ahead(fs, s, {"removed"})
      BY <3>3, StillAhead
    <3> QED BY <2>1, <3>4 DEF Tracks
  <2> QED BY <2>2, <2>3
<1> QED BY <1>4, <1>5, <1>6

\* A prompt runs in it.
LEMMA PromptedTold ==
  ASSUME NEW es \in Seq(ListEvent), NEW fs \in Seq(ListEvent), NEW s \in Here, Grows(es, fs, s),
         Len(fs) = Len(es) + 2, NEW h \in ListRow, NEW g \in ListRow,
         h.there, g.there, g.running, ~g.blank,
         fs[Len(es) + 1].kind = "activity", fs[Len(es) + 1].row = g,
         fs[Len(es) + 2].kind = "status", fs[Len(es) + 2].row = g
  PROVE  /\ \A i \in DOMAIN es : es[i].id = s /\ Tells(es, i, h) => Tells(fs, i, g)
         /\ Tells(fs, Len(es) + 1, g) /\ Tells(fs, Len(es) + 2, g)
         /\ \A r \in ListRow : Tracks(r, h, es, s) => Tracks(r, g, fs, s)
<1> DEFINE n == Len(es) + 1
           m == Len(es) + 2
<1>1. /\ n \in DOMAIN fs /\ fs[n].id = s /\ fs[n].kind = "activity" /\ n \in Nat
      /\ m \in DOMAIN fs /\ fs[m].id = s /\ fs[m].kind = "status" /\ m \in Nat /\ n < m
  BY DEF Grows
<1>2. \A i \in DOMAIN es : /\ i < n /\ fs[i] = es[i]
                           /\ \A kinds : Behind(es, i, s, kinds) => Behind(fs, i, s, kinds)
  <2>1. \A i \in DOMAIN es : i < n /\ fs[i] = es[i]
    BY DEF Grows
  <2> QED BY <2>1, StillAhead
<1>3. \A i \in DOMAIN es : \A kinds : "activity" \in kinds => Behind(fs, i, s, kinds)
  BY <1>1, <1>2 DEF Behind
<1>4. ASSUME NEW i \in DOMAIN es, es[i].id = s, Tells(es, i, h) PROVE Tells(fs, i, g)
  <2>1. /\ Behind(fs, i, s, {"activity"}) /\ Behind(fs, i, s, {"added", "activity"})
        /\ Behind(fs, i, s, ListKind)
    BY <1>3 DEF ListKind
  <2> QED BY <1>2, <1>4, <2>1 DEF Tells
<1>5. Behind(fs, n, s, ListKind)
  BY <1>1 DEF Behind, ListKind
<1>6. Tells(fs, n, g) /\ Tells(fs, m, g)
  BY <1>1, <1>5 DEF Tells
<1>7. ASSUME NEW r \in ListRow, Tracks(r, h, es, s) PROVE Tracks(r, g, fs, s)
  <2>1. /\ Ahead(fs, s, ListKind) /\ Ahead(fs, s, {"added", "activity"}) /\ Ahead(fs, s, {"activity"})
    BY <1>1 DEF Ahead, ListKind
  <2>2. Ahead(es, s, {"added", "removed"}) => Ahead(fs, s, {"added", "removed"})
    BY StillAhead
  <2> QED BY <1>7, <2>1, <2>2 DEF Tracks
<1> QED BY <1>4, <1>6, <1>7

\* Its turn ends.
LEMMA FinishedTold ==
  ASSUME NEW es \in Seq(ListEvent), NEW fs \in Seq(ListEvent), NEW s \in Here, Grows(es, fs, s),
         Len(fs) = Len(es) + 1, NEW h \in ListRow, NEW g \in ListRow,
         h.there, g.there, ~g.running, g.blank = h.blank, g.updatedAt = h.updatedAt,
         fs[Len(es) + 1].kind = "status", fs[Len(es) + 1].row = g
  PROVE  /\ \A i \in DOMAIN es : es[i].id = s /\ Tells(es, i, h) => Tells(fs, i, g)
         /\ Tells(fs, Len(es) + 1, g)
         /\ \A r \in ListRow : Tracks(r, h, es, s) => Tracks(r, g, fs, s)
<1> DEFINE n == Len(es) + 1
<1>1. n \in DOMAIN fs /\ fs[n].id = s /\ fs[n].kind = "status" /\ n \in Nat
  BY DEF Grows
<1>2. \A i \in DOMAIN es : /\ i < n /\ fs[i] = es[i]
                           /\ \A kinds : Behind(es, i, s, kinds) => Behind(fs, i, s, kinds)
  <2>1. \A i \in DOMAIN es : i < n /\ fs[i] = es[i]
    BY DEF Grows
  <2> QED BY <2>1, StillAhead
<1>3. \A i \in DOMAIN es : Behind(fs, i, s, ListKind)
  BY <1>1, <1>2 DEF Behind, ListKind
<1>4. ASSUME NEW i \in DOMAIN es, es[i].id = s, Tells(es, i, h) PROVE Tells(fs, i, g)
  BY <1>2, <1>3, <1>4 DEF Tells
<1>5. Tells(fs, n, g)
  BY <1>1 DEF Tells
<1>6. ASSUME NEW r \in ListRow, Tracks(r, h, es, s) PROVE Tracks(r, g, fs, s)
  <2>1. Ahead(fs, s, ListKind)
    BY <1>1 DEF Ahead, ListKind
  <2>2. \A kinds : Ahead(es, s, kinds) => Ahead(fs, s, kinds)
    BY StillAhead
  <2> QED BY <1>6, <2>1, <2>2 DEF Tracks
<1> QED BY <1>4, <1>5, <1>6

\* Another client removes it.
LEMMA RemovedTold ==
  ASSUME NEW es \in Seq(ListEvent), NEW fs \in Seq(ListEvent), NEW s \in Here, Grows(es, fs, s),
         Len(fs) = Len(es) + 1, NEW h \in ListRow, NEW g \in ListRow,
         ~g.there, ~g.running, fs[Len(es) + 1].kind = "removed", fs[Len(es) + 1].row = g
  PROVE  /\ \A i \in DOMAIN es : es[i].id = s /\ Tells(es, i, h) => Tells(fs, i, g)
         /\ Tells(fs, Len(es) + 1, g)
         /\ \A r \in ListRow : Tracks(r, g, fs, s)
<1> DEFINE n == Len(es) + 1
<1>1. n \in DOMAIN fs /\ fs[n].id = s /\ fs[n].kind = "removed" /\ n \in Nat
  BY DEF Grows
<1>2. \A i \in DOMAIN es : i < n /\ fs[i] = es[i]
  BY DEF Grows
<1>3. \A i \in DOMAIN es : Behind(fs, i, s, ListKind) /\ Behind(fs, i, s, {"removed"})
  BY <1>1, <1>2 DEF Behind, ListKind
<1>4. ASSUME NEW i \in DOMAIN es, es[i].id = s, Tells(es, i, h) PROVE Tells(fs, i, g)
  BY <1>2, <1>3, <1>4 DEF Tells
<1>5. Tells(fs, n, g)
  BY <1>1 DEF Tells
<1>6. Ahead(fs, s, ListKind) /\ Ahead(fs, s, {"added", "removed"})
  BY <1>1 DEF Ahead, ListKind
<1>7. ASSUME NEW r \in ListRow PROVE Tracks(r, g, fs, s)
  BY <1>6 DEF Tracks
<1> QED BY <1>4, <1>5, <1>7

\* The row of a Session after an event of it.
RowAfter(r, e) ==
    IF e.kind = "added" THEN Listing!merged(r, e.row)
    ELSE IF e.kind = "removed" THEN Listing!Missing
    ELSE IF ~r.there THEN r
    ELSE IF e.kind = "status" THEN [r EXCEPT !.running = e.row.running]
    ELSE [r EXCEPT !.updatedAt = e.row.updatedAt, !.blank = FALSE]

LEMMA AfterIs ==
  ASSUME sessions \in [Here -> ListRow], NEW e \in ListEvent
  PROVE  Listing!After(e) = [sessions EXCEPT ![e.id] = RowAfter(sessions[e.id], e)]
<1>1. e.id \in Here
  BY DEF ListEvent
<1> QED BY <1>1 DEF Listing!After, RowAfter

\* An event sets its fields; merged, a row that has spoken stays one.
LEMMA RowAfterIs ==
  ASSUME NEW r \in ListRow, Bare(r), NEW e \in ListEvent, e.kind = "added" => e.row.there
  PROVE  /\ RowAfter(r, e) \in ListRow /\ Bare(RowAfter(r, e))
         /\ e.kind = "added" =>
              /\ RowAfter(r, e).there = e.row.there /\ RowAfter(r, e).running = e.row.running
              /\ RowAfter(r, e).updatedAt = e.row.updatedAt
              /\ RowAfter(r, e).blank = (e.row.blank /\ ~(r.there /\ ~r.blank))
         /\ e.kind = "removed" =>
              ~RowAfter(r, e).there /\ ~RowAfter(r, e).running /\ RowAfter(r, e).blank
         /\ e.kind \in {"status", "activity"} /\ ~r.there => RowAfter(r, e) = r
         /\ e.kind = "status" /\ r.there =>
              /\ RowAfter(r, e).there /\ RowAfter(r, e).running = e.row.running
              /\ RowAfter(r, e).updatedAt = r.updatedAt /\ RowAfter(r, e).blank = r.blank
         /\ e.kind = "activity" /\ r.there =>
              /\ RowAfter(r, e).there /\ RowAfter(r, e).running = r.running
              /\ RowAfter(r, e).updatedAt = e.row.updatedAt /\ ~RowAfter(r, e).blank
         /\ r.there /\ RowAfter(r, e).there =>
              /\ ~r.blank => ~RowAfter(r, e).blank
              /\ r.title => RowAfter(r, e).title
<1>1. e.row \in ListRow /\ e.kind \in ListKind
  BY DEF ListEvent
<1>2. CASE e.kind = "added"
  BY <1>1, <1>2 DEF RowAfter, Listing!merged, ListRow, Bare
<1>3. CASE e.kind = "removed"
  BY <1>1, <1>3 DEF RowAfter, Listing!Missing, ListRow, Bare
<1>4. CASE e.kind \in {"status", "activity"} /\ ~r.there
  BY <1>1, <1>4 DEF RowAfter, ListRow, Bare
<1>5. CASE e.kind = "status" /\ r.there
  BY <1>1, <1>5 DEF RowAfter, ListRow, Bare
<1>6. CASE e.kind = "activity" /\ r.there
  BY <1>1, <1>6 DEF RowAfter, ListRow, Bare
<1> QED BY <1>1, <1>2, <1>3, <1>4, <1>5, <1>6 DEF ListKind

LEMMA BehindHead ==
  ASSUME NEW es \in Seq(ListEvent), es # <<>>
  PROVE  /\ Tail(es) \in Seq(ListEvent) /\ Head(es) = es[1] /\ es[1] \in ListEvent
         /\ 1 \in DOMAIN es
         /\ \A i \in DOMAIN Tail(es) : i + 1 \in DOMAIN es /\ Tail(es)[i] = es[i + 1]
         /\ \A i \in DOMAIN Tail(es), t \in Here : \A kinds :
              Behind(es, i + 1, t, kinds) => Behind(Tail(es), i, t, kinds)
         /\ \A t \in Here : \A kinds : Behind(es, 1, t, kinds) => Ahead(Tail(es), t, kinds)
         /\ \A t \in Here : \A kinds :
              Ahead(es, t, kinds) => Ahead(Tail(es), t, kinds) \/ (es[1].id = t /\ es[1].kind \in kinds)
<1>1. /\ Len(es) \in Nat \ {0} /\ Tail(es) \in Seq(ListEvent) /\ Len(Tail(es)) = Len(es) - 1
      /\ DOMAIN es = 1 .. Len(es) /\ DOMAIN Tail(es) = 1 .. Len(es) - 1
      /\ Head(es) = es[1] /\ es[1] \in ListEvent
  OBVIOUS
<1>2. \A i \in 1 .. Len(es) - 1 : Tail(es)[i] = es[i + 1]
  OBVIOUS
<1>3. \A i \in DOMAIN Tail(es) : i + 1 \in DOMAIN es /\ Tail(es)[i] = es[i + 1]
  BY <1>1, <1>2
<1>4. \A j \in DOMAIN es : j = 1 \/ (j - 1 \in DOMAIN Tail(es) /\ Tail(es)[j - 1] = es[j])
  BY <1>1, <1>2
<1>5. ASSUME NEW i \in DOMAIN Tail(es), NEW t \in Here, NEW kinds, Behind(es, i + 1, t, kinds)
      PROVE  Behind(Tail(es), i, t, kinds)
  <2>1. PICK j \in DOMAIN es : i + 1 < j /\ es[j].id = t /\ es[j].kind \in kinds
    BY <1>5 DEF Behind
  <2>2. i < j - 1 /\ j # 1 /\ i \in Nat /\ j \in Nat
    BY <1>1, <2>1
  <2> QED BY <1>4, <2>1, <2>2 DEF Behind
<1>6. ASSUME NEW t \in Here, NEW kinds, NEW j \in DOMAIN es, es[j].id = t, es[j].kind \in kinds
      PROVE  Ahead(Tail(es), t, kinds) \/ (j = 1 /\ es[1].id = t /\ es[1].kind \in kinds)
  BY <1>4, <1>6 DEF Ahead
<1>7. \A t \in Here : \A kinds : Behind(es, 1, t, kinds) => Ahead(Tail(es), t, kinds)
  BY <1>1, <1>6 DEF Behind
<1>8. \A t \in Here : \A kinds :
        Ahead(es, t, kinds) => Ahead(Tail(es), t, kinds) \/ (es[1].id = t /\ es[1].kind \in kinds)
  BY <1>6 DEF Ahead
<1>9. 1 \in DOMAIN es
  BY <1>1
<1> QED BY <1>1, <1>3, <1>5, <1>7, <1>8, <1>9

\* The head of the events is applied to the row it is of, and no other.
LEMMA AppliedTold ==
  ASSUME NEW es \in Seq(ListEvent), es # <<>>, NEW s \in Here, NEW h \in ListRow, Bare(h)
  PROVE  /\ \A i \in DOMAIN Tail(es) : Tells(es, i + 1, h) => Tells(Tail(es), i, h)
         /\ \A r : es[1].id # s /\ Tracks(r, h, es, s) => Tracks(r, h, Tail(es), s)
         /\ es[1].id = s /\ (\A i \in DOMAIN es : es[i].id = s => Tells(es, i, h)) =>
              \A r \in ListRow :
                Bare(r) /\ Tracks(r, h, es, s) => Tracks(RowAfter(r, es[1]), h, Tail(es), s)
<1> DEFINE e == es[1]
<1>1. ASSUME NEW i \in DOMAIN Tail(es), Tells(es, i + 1, h) PROVE Tells(Tail(es), i, h)
  <2>1. Tail(es)[i] = es[i + 1] /\ i + 1 \in DOMAIN es
    BY BehindHead
  <2>2. es[i + 1] \in ListEvent
    BY <2>1
  <2>3. \A kinds : Behind(es, i + 1, es[i + 1].id, kinds) => Behind(Tail(es), i, es[i + 1].id, kinds)
    BY <2>2, BehindHead DEF ListEvent
  <2> QED BY <1>1, <2>1, <2>3 DEF Tells
<1>2. ASSUME NEW r, e.id # s, Tracks(r, h, es, s) PROVE Tracks(r, h, Tail(es), s)
  <2>1. \A kinds : Ahead(es, s, kinds) => Ahead(Tail(es), s, kinds)
    BY <1>2, BehindHead
  <2> QED BY <1>2, <2>1 DEF Tracks
<1>3. ASSUME e.id = s, \A i \in DOMAIN es : es[i].id = s => Tells(es, i, h),
             NEW r \in ListRow, Bare(r), Tracks(r, h, es, s)
      PROVE  Tracks(RowAfter(r, e), h, Tail(es), s)
  <2> Tells(es, 1, h)
    BY <1>3, BehindHead
  <2>1. e \in ListEvent /\ (e.kind = "added" => e.row.there /\ e.row.blank)
    BY <1>3, BehindHead DEF Tells
  <2>2. /\ e.kind \in ListKind /\ e.row \in ListRow
        /\ r.there \in BOOLEAN /\ r.running \in BOOLEAN /\ r.blank \in BOOLEAN
        /\ h.there \in BOOLEAN /\ h.running \in BOOLEAN /\ h.blank \in BOOLEAN
        /\ e.row.there \in BOOLEAN /\ e.row.running \in BOOLEAN /\ e.row.blank \in BOOLEAN
    BY <2>1 DEF ListEvent, ListRow
  <2>3. \A kinds : Behind(es, 1, s, kinds) => Ahead(Tail(es), s, kinds)
    BY BehindHead
  <2>4. \A kinds : Ahead(es, s, kinds) => Ahead(Tail(es), s, kinds) \/ e.kind \in kinds
    BY BehindHead
  <2>5. /\ Ahead(Tail(es), s, {"added"}) => /\ Ahead(Tail(es), s, {"added", "removed"})
                                            /\ Ahead(Tail(es), s, {"added", "activity"})
        /\ Ahead(Tail(es), s, {"removed"}) => Ahead(Tail(es), s, {"added", "removed"})
        /\ Ahead(Tail(es), s, {"activity"}) => Ahead(Tail(es), s, {"added", "activity"})
        /\ Ahead(Tail(es), s, {"added", "removed"}) => Ahead(Tail(es), s, ListKind)
    BY DEF Ahead, ListKind
  <2> DEFINE q == RowAfter(r, e)
  <2>6. CASE e.kind = "added"
    <3>1. /\ q.there /\ q.running = e.row.running /\ q.updatedAt = e.row.updatedAt
          /\ q.blank = ~(r.there /\ ~r.blank)
      BY <1>3, <2>1, <2>2, <2>6, RowAfterIs
    <3> HIDE DEF q
    <3>2. q.there = h.there \/ Ahead(Tail(es), s, {"added", "removed"})
      BY <1>3, <2>3, <2>5, <2>6, <3>1 DEF Tells
    <3>3. q.running = h.running \/ Ahead(Tail(es), s, ListKind)
      BY <1>3, <2>3, <3>1 DEF Tells
    <3>4. h.there => q.updatedAt = h.updatedAt \/ Ahead(Tail(es), s, {"added", "activity"})
      BY <1>3, <2>3, <2>6, <3>1 DEF Tells
    <3>5. h.there /\ h.blank => q.blank \/ Ahead(Tail(es), s, {"removed"})
      BY <1>3, <2>4, <2>6, <3>1 DEF Tracks
    <3>6. h.there /\ ~h.blank => Ahead(Tail(es), s, {"activity"})
      BY <1>3, <2>3, <2>6 DEF Tells
    <3>7. Tracks(q, h, Tail(es), s)
      BY <3>2, <3>3, <3>4, <3>5, <3>6 DEF Tracks
    <3> QED BY <3>7 DEF q
  <2>7. CASE e.kind = "removed"
    <3>1. ~q.there /\ ~q.running /\ q.blank
      BY <1>3, <2>1, <2>7, RowAfterIs
    <3>2. h.there => Ahead(Tail(es), s, {"added"})
      BY <1>3, <2>3, <2>7 DEF Tells
    <3>3. h.there /\ ~h.blank => Ahead(Tail(es), s, {"activity"})
      BY <1>3, <2>3, <2>7 DEF Tells
    <3>4. ~h.running \/ Ahead(Tail(es), s, ListKind)
      BY <2>2, <2>5, <3>2 DEF Bare
    <3> HIDE DEF q
    <3>5. q.running = FALSE /\ q.there = FALSE
      BY <2>1, <3>1, <1>3, RowAfterIs DEF q, ListRow
    <3>6. Tracks(q, h, Tail(es), s)
      BY <2>2, <2>5, <3>1, <3>2, <3>3, <3>4, <3>5 DEF Tracks
    <3> QED BY <3>6 DEF q
  <2>8. CASE e.kind = "status"
    <3>1. Ahead(es, s, {"added", "removed"}) => Ahead(Tail(es), s, {"added", "removed"})
      BY <2>4, <2>8
    <3>2. /\ q.there = r.there /\ q.updatedAt = r.updatedAt /\ q.blank = r.blank
          /\ r.there => q.running = e.row.running
          /\ ~r.there => q.running = FALSE
      <4>1. CASE r.there
        <5>1. /\ q.there /\ q.running = e.row.running
              /\ q.updatedAt = r.updatedAt /\ q.blank = r.blank
          BY <1>3, <2>1, <2>8, <4>1, RowAfterIs
        <5>2. q.there \in BOOLEAN
          BY <1>3, <2>1, RowAfterIs DEF ListRow
        <5> HIDE DEF q
        <5> QED BY <2>2, <4>1, <5>1, <5>2
      <4>2. CASE ~r.there
        <5>1. q = r
          BY <1>3, <2>1, <2>8, <4>2, RowAfterIs
        <5> HIDE DEF q
        <5> QED BY <1>3, <2>2, <4>2, <5>1 DEF Bare
      <4> QED BY <4>1, <4>2
    <3> HIDE DEF q
    <3>3. q.there = h.there \/ Ahead(Tail(es), s, {"added", "removed"})
      BY <1>3, <3>1, <3>2 DEF Tracks
    <3>4. q.running = h.running \/ Ahead(Tail(es), s, ListKind)
      <4>1. CASE r.there
        BY <1>3, <2>3, <3>2, <4>1 DEF Tells
      <4>2. CASE ~r.there
        BY <2>2, <2>5, <3>2, <3>3, <4>2 DEF Bare
      <4> QED BY <4>1, <4>2
    <3>5. h.there => q.updatedAt = h.updatedAt \/ Ahead(Tail(es), s, {"added", "activity"})
      BY <1>3, <2>4, <2>8, <3>2 DEF Tracks
    <3>6. /\ h.there /\ h.blank => q.blank \/ Ahead(Tail(es), s, {"removed"})
          /\ h.there /\ ~h.blank => ~q.blank \/ Ahead(Tail(es), s, {"activity"})
      BY <1>3, <2>4, <2>8, <3>2 DEF Tracks
    <3>7. Tracks(q, h, Tail(es), s)
      BY <3>3, <3>4, <3>5, <3>6 DEF Tracks
    <3> QED BY <3>7 DEF q
  <2>9. CASE e.kind = "activity"
    <3>1. Ahead(es, s, {"added", "removed"}) => Ahead(Tail(es), s, {"added", "removed"})
      BY <2>4, <2>9
    <3>2. Ahead(Tail(es), s, ListKind)
      BY <1>3, <2>3, <2>9 DEF Tells
    <3>3. h.there /\ h.blank => Ahead(Tail(es), s, {"removed"})
      BY <1>3, <2>3, <2>9 DEF Tells
    <3>4. CASE r.there
      <4>1. q.there /\ q.updatedAt = e.row.updatedAt /\ ~q.blank
        BY <1>3, <2>1, <2>9, <3>4, RowAfterIs
      <4> HIDE DEF q
      <4>2. h.there => q.updatedAt = h.updatedAt \/ Ahead(Tail(es), s, {"added", "activity"})
        BY <1>3, <2>3, <2>9, <4>1 DEF Tells
      <4>3. q.there = h.there \/ Ahead(Tail(es), s, {"added", "removed"})
        BY <1>3, <2>2, <3>1, <3>4, <4>1 DEF Tracks
      <4>4. Tracks(q, h, Tail(es), s)
        BY <3>2, <3>3, <4>1, <4>2, <4>3 DEF Tracks
      <4> QED BY <4>4 DEF q
    <3>5. CASE ~r.there
      <4>1. q = r
        BY <1>3, <2>1, <2>9, <3>5, RowAfterIs
      <4> HIDE DEF q
      <4>2. q.there = h.there \/ Ahead(Tail(es), s, {"added", "removed"})
        BY <1>3, <3>1, <4>1 DEF Tracks
      <4>3. ASSUME h.there
            PROVE  /\ Ahead(Tail(es), s, {"added", "activity"})
                   /\ ~h.blank => Ahead(Tail(es), s, {"activity"})
        <5>1. Ahead(es, s, {"added", "removed"})
          BY <1>3, <2>2, <3>5, <4>3 DEF Tracks
        <5>2. PICK j \in DOMAIN es : es[j].id = s /\ es[j].kind \in {"added", "removed"}
          BY <5>1 DEF Ahead
        <5>3. j # 1
          BY <2>9, <5>2
        <5>4. j > 1
          BY <5>3
        <5>5. es[j].kind = "added" \/ Behind(es, j, s, {"added"})
          BY <1>3, <4>3, <5>2 DEF Tells
        <5>6. ~h.blank => Behind(es, j, s, {"activity"})
          BY <1>3, <4>3, <5>2 DEF Tells
        <5>7. Behind(es, 1, s, {"added"})
          BY <5>2, <5>4, <5>5 DEF Behind
        <5>8. ~h.blank => Behind(es, 1, s, {"activity"})
          BY <5>4, <5>6 DEF Behind
        <5> QED BY <2>3, <2>5, <5>7, <5>8
      <4>4. Tracks(q, h, Tail(es), s)
        BY <1>3, <2>5, <3>2, <3>3, <4>1, <4>2, <4>3 DEF Tracks
      <4> QED BY <4>4 DEF q
    <3> QED BY <3>4, <3>5
  <2> QED BY <2>2, <2>6, <2>7, <2>8, <2>9 DEF ListKind
<1> QED BY <1>1, <1>2, <1>3

\* One sequence after another, by index.
Follows(a, b, c, S) ==
    /\ c \in Seq(S) /\ Len(c) = Len(a) + Len(b)
    /\ \A i \in 1 .. Len(a) : c[i] = a[i]
    /\ \A i \in 1 .. Len(b) : c[Len(a) + i] = b[i]
    /\ \A i \in Len(a) + 1 .. Len(c) : \E j \in 1 .. Len(b) : c[i] = b[j]

LEMMA Joined ==
  ASSUME NEW S, NEW a \in Seq(S), NEW b \in Seq(S)
  PROVE  Follows(a, b, a \o b, S)
<1>1. a \o b \in Seq(S) /\ Len(a \o b) = Len(a) + Len(b)
  OBVIOUS
<1>2. Len(a) \in Nat /\ Len(b) \in Nat
  OBVIOUS
<1>3. \A i \in 1 .. Len(a) + Len(b) : (a \o b)[i] = IF i <= Len(a) THEN a[i] ELSE b[i - Len(a)]
  OBVIOUS
<1>4. ASSUME NEW i \in 1 .. Len(b) PROVE (a \o b)[Len(a) + i] = b[i]
  <2>1. /\ Len(a) + i \in 1 .. Len(a) + Len(b) /\ ~(Len(a) + i <= Len(a))
        /\ (Len(a) + i) - Len(a) = i
    BY <1>2
  <2> QED BY <1>3, <2>1
<1>5. ASSUME NEW i \in Len(a) + 1 .. Len(a \o b) PROVE \E j \in 1 .. Len(b) : (a \o b)[i] = b[j]
  <2>1. i \in 1 .. Len(a) + Len(b) /\ ~(i <= Len(a)) /\ i - Len(a) \in 1 .. Len(b)
    BY <1>1, <1>2
  <2> QED BY <1>3, <2>1
<1> QED BY <1>1, <1>2, <1>3, <1>4, <1>5 DEF Follows

LEMMA HostPublishes ==
  ASSUME ListTypes, NEW s \in Here, NEW kinds \in Seq(ListKind), host' \in [Here -> ListRow],
         Listing!Publish(s, kinds)
  PROVE  /\ events' \in Seq(ListEvent) /\ Len(events') = Len(events) + Len(kinds)
         /\ Grows(events, events', s)
         /\ \A i \in 1 .. Len(kinds) : /\ events'[Len(events) + i].kind = kinds[i]
                                       /\ events'[Len(events) + i].row = host'[s]
<1> DEFINE more == [i \in 1 .. Len(kinds) |-> [kind |-> kinds[i], id |-> s, row |-> host'[s]]]
<1>1. host'[s] \in ListRow /\ \A i \in 1 .. Len(kinds) : kinds[i] \in ListKind
  OBVIOUS
<1>2. more \in Seq(ListEvent) /\ Len(more) = Len(kinds)
  BY <1>1 DEF ListEvent
<1>3. \A i \in 1 .. Len(kinds) : more[i].kind = kinds[i] /\ more[i].id = s /\ more[i].row = host'[s]
  OBVIOUS
<1>4. events' = events \o more /\ events \in Seq(ListEvent)
  BY DEF Listing!Publish, ListTypes
<1> HIDE DEF more
<1>5. /\ events' \in Seq(ListEvent) /\ Len(events') = Len(events) + Len(more)
      /\ \A i \in 1 .. Len(events) : events'[i] = events[i]
      /\ \A i \in 1 .. Len(more) : events'[Len(events) + i] = more[i]
      /\ \A i \in Len(events) + 1 .. Len(events') : \E j \in 1 .. Len(more) : events'[i] = more[j]
  <2>1. Follows(events, more, events', ListEvent)
    BY <1>2, <1>4, Joined
  <2> QED BY <2>1 DEF Follows
<1>6. Len(events) <= Len(events')
  BY <1>2, <1>4, <1>5
<1> QED BY <1>2, <1>3, <1>4, <1>5, <1>6 DEF Grows

\* What the Host does to one Session, told at the end of the events.
LEMMA HostTold ==
  ASSUME ListTypes, EventsTell, ListTracks, NEW s \in Here, NEW g \in ListRow,
         host' = [host EXCEPT ![s] = g], events' \in Seq(ListEvent), Grows(events, events', s),
         UNCHANGED <<reread, passed, overtaken, sessions>>,
         \A i \in DOMAIN events : events[i].id = s /\ Tells(events, i, host[s]) => Tells(events', i, g),
         \A i \in Len(events) + 1 .. Len(events') : Tells(events', i, g),
         \A r \in ListRow : Bare(r) /\ Tracks(r, host[s], events, s) => Tracks(r, g, events', s)
  PROVE  EventsTell' /\ ListTracks'
<1>1. host'[s] = g /\ \A t \in Here \ {s} : host'[t] = host[t]
  BY DEF ListTypes
<1>2. events \in Seq(ListEvent) /\ \A i \in DOMAIN events : events[i].id \in Here
  <2>1. \A i \in DOMAIN events : events[i] \in ListEvent
    BY DEF ListTypes
  <2> QED BY <2>1 DEF ListTypes, ListEvent
<1>3. ASSUME NEW i \in DOMAIN events' PROVE Tells(events', i, host'[events'[i].id])
  <2>1. CASE i \in DOMAIN events
    <3>1. events'[i] = events[i] /\ Tells(events, i, host[events[i].id])
      BY <1>2, <2>1 DEF Grows, EventsTell
    <3>2. CASE events[i].id = s
      BY <1>1, <2>1, <3>1, <3>2
    <3>3. CASE events[i].id # s
      BY <1>1, <1>2, <2>1, <3>1, <3>3, OthersStillTold
    <3> QED BY <3>2, <3>3
  <2>2. CASE i \notin DOMAIN events
    <3>1. i \in Len(events) + 1 .. Len(events')
      BY <1>2, <2>2
    <3> QED BY <1>1, <3>1 DEF Grows
  <2> QED BY <2>1, <2>2
<1>4. ASSUME NEW r \in ListRow, NEW t \in Here, Bare(r), Tracks(r, host[t], events, t)
      PROVE  Tracks(r, host'[t], events', t)
  <2>1. CASE t = s
    BY <1>1, <1>4, <2>1
  <2>2. CASE t # s
    BY <1>1, <1>2, <1>4, <2>2, OthersStillTold
  <2> QED BY <2>1, <2>2
<1>5. \A t \in Here : /\ sessions[t] \in ListRow /\ reread.list[t] \in ListRow
                      /\ Bare(sessions[t]) /\ Bare(reread.list[t])
  BY DEF ListTypes
<1>6. EventsTell'
  BY <1>3 DEF EventsTell
<1>7. ListTracks'
  BY <1>4, <1>5 DEF ListTracks
<1> QED BY <1>6, <1>7

LEMMA HostCreatesStays ==
  ASSUME ListInv, NEW s \in Here, Listing!HostCreates(s)
  PROVE  ListInv'
<1> DEFINE g == [Listing!Missing EXCEPT !.there = TRUE, !.updatedAt = clock + 1]
<1> USE DEF ListInv
<1>1. /\ g \in ListRow /\ g.there /\ g.running = FALSE /\ g.blank
  <2>1. clock + 1 \in Nat
    BY DEF ListTypes
  <2>2. /\ Listing!Missing \in ListRow
        /\ Listing!Missing.running = FALSE /\ Listing!Missing.blank = TRUE
    BY DEF Listing!Missing, ListRow
  <2> QED BY <2>1, <2>2 DEF ListRow
<1>2. /\ ~host[s].there /\ clock' = clock + 1 /\ host' = [host EXCEPT ![s] = g]
      /\ Listing!Publish(s, <<"added">>) /\ created' \in {created, created \cup {s}}
      /\ UNCHANGED <<journal, reread, passed, overtaken, sessions, open>>
  BY DEF Listing!HostCreates, Listing!WindowVars
<1> HIDE DEF g
<1>3. host' \in [Here -> ListRow] /\ host'[s] = g
  BY <1>1, <1>2 DEF ListTypes
<1>4. /\ events' \in Seq(ListEvent) /\ Len(events') = Len(events) + 1 /\ Grows(events, events', s)
      /\ events'[Len(events) + 1].kind = "added" /\ events'[Len(events) + 1].row = g
  <2> DEFINE kinds == <<"added">>
  <2>1. kinds \in Seq(ListKind) /\ Len(kinds) = 1 /\ kinds[1] = "added" /\ 1 \in 1 .. Len(kinds)
    BY DEF ListKind
  <2>2. Listing!Publish(s, kinds)
    BY <1>2
  <2> HIDE DEF kinds
  <2> QED BY <1>3, <2>1, <2>2, HostPublishes
<1>5. host[s] \in ListRow /\ events \in Seq(ListEvent)
  BY DEF ListTypes
<1>6. \A i \in DOMAIN events : events[i].id = s => Tells(events, i, host[s])
  BY DEF EventsTell
<1>7. /\ \A i \in DOMAIN events : events[i].id = s /\ Tells(events, i, host[s]) => Tells(events', i, g)
      /\ Tells(events', Len(events) + 1, g)
      /\ \A r \in ListRow : Bare(r) /\ Tracks(r, host[s], events, s) => Tracks(r, g, events', s)
  BY <1>1, <1>2, <1>4, <1>5, <1>6, CreatedTold
<1>8. \A i \in Len(events) + 1 .. Len(events') : Tells(events', i, g)
  BY <1>4, <1>5, <1>7
<1>9. EventsTell' /\ ListTracks'
  BY <1>1, <1>2, <1>4, <1>7, <1>8, HostTold
<1>10. ListTypes'
  <2>1. \A t \in Here : Bare(host'[t])
    BY <1>1, <1>2, <1>3 DEF ListTypes, Bare
  <2> QED BY <1>2, <1>3, <1>4, <2>1 DEF ListTypes
<1>11. JournalTells'
  BY <1>1, <1>2, <1>3 DEF JournalTells, ListTypes
<1> QED BY <1>9, <1>10, <1>11

\* What the journal of the open Session is given.
LEMMA JournalGrows ==
  ASSUME ListTypes, NEW s \in Here, NEW kind \in {"user/message", "session/title"},
         Listing!Journals(s, kind)
  PROVE  /\ journal' \in Seq([kind : {"user/message", "session/title"}, id : Here])
         /\ \A i \in DOMAIN journal' :
              \/ i \in DOMAIN journal /\ journal'[i] = journal[i]
              \/ s \in open /\ journal'[i].id = s /\ journal'[i].kind = kind
<1> DEFINE JournalEvent == [kind : {"user/message", "session/title"}, id : Here]
<1>1. journal \in Seq(JournalEvent) /\ [kind |-> kind, id |-> s] \in JournalEvent
  BY DEF ListTypes
<1>2. CASE s \in open
  <2> DEFINE e == [kind |-> kind, id |-> s]
  <2>1. journal' = Append(journal, e) /\ e.id = s /\ e.kind = kind
    BY <1>2 DEF Listing!Journals
  <2> HIDE DEF e, JournalEvent
  <2>2. /\ journal' \in Seq(JournalEvent) /\ Len(journal') = Len(journal) + 1
        /\ journal'[Len(journal) + 1] = e
        /\ \A i \in 1 .. Len(journal) : journal'[i] = journal[i]
    BY <1>1, <2>1 DEF e
  <2>3. \A i \in DOMAIN journal' : i \in DOMAIN journal \/ i = Len(journal) + 1
    BY <1>1, <2>2
  <2> QED BY <1>1, <1>2, <2>1, <2>2, <2>3 DEF JournalEvent
<1>3. CASE s \notin open
  BY <1>1, <1>3 DEF Listing!Journals
<1> QED BY <1>2, <1>3

LEMMA HostPromptedStays ==
  ASSUME ListInv, NEW s \in Here, Listing!HostPrompted(s)
  PROVE  ListInv'
<1> DEFINE g == [host[s] EXCEPT !.updatedAt = clock + 1, !.running = TRUE, !.blank = FALSE]
<1> USE DEF ListInv
<1>1. host[s] \in ListRow /\ events \in Seq(ListEvent) /\ clock + 1 \in Nat
  BY DEF ListTypes
<1>2. g \in ListRow /\ g.there = host[s].there /\ g.running = TRUE /\ g.blank = FALSE
  BY <1>1 DEF ListRow
<1>3. /\ host[s].there /\ clock' = clock + 1
      /\ Listing!Publish(s, <<"activity", "status">>) /\ Listing!Journals(s, "user/message")
      /\ UNCHANGED <<created, reread, passed, overtaken, sessions, open>>
  BY DEF Listing!HostPrompted, Listing!WindowVars
<1>4. host' = [host EXCEPT ![s] = g]
  BY DEF Listing!HostPrompted, ListTypes
<1> HIDE DEF g
<1>5. host' \in [Here -> ListRow] /\ host'[s] = g /\ \A t \in Here \ {s} : host'[t] = host[t]
  BY <1>2, <1>4 DEF ListTypes
<1>6. /\ events' \in Seq(ListEvent) /\ Len(events') = Len(events) + 2 /\ Grows(events, events', s)
      /\ events'[Len(events) + 1].kind = "activity" /\ events'[Len(events) + 1].row = g
      /\ events'[Len(events) + 2].kind = "status" /\ events'[Len(events) + 2].row = g
  <2> DEFINE kinds == <<"activity", "status">>
  <2>1. /\ kinds \in Seq(ListKind) /\ Len(kinds) = 2 /\ kinds[1] = "activity" /\ kinds[2] = "status"
        /\ 1 \in 1 .. Len(kinds) /\ 2 \in 1 .. Len(kinds)
    BY DEF ListKind
  <2>2. Listing!Publish(s, kinds)
    BY <1>3
  <2> HIDE DEF kinds
  <2> QED BY <1>5, <2>1, <2>2, HostPublishes
<1>7. /\ \A i \in DOMAIN events : events[i].id = s /\ Tells(events, i, host[s]) => Tells(events', i, g)
      /\ Tells(events', Len(events) + 1, g) /\ Tells(events', Len(events) + 2, g)
      /\ \A r \in ListRow : Tracks(r, host[s], events, s) => Tracks(r, g, events', s)
  BY <1>1, <1>2, <1>3, <1>6, PromptedTold
<1>8. \A i \in Len(events) + 1 .. Len(events') : Tells(events', i, g)
  <2>1. \A i \in Len(events) + 1 .. Len(events') : i = Len(events) + 1 \/ i = Len(events) + 2
    BY <1>1, <1>6
  <2> QED BY <1>7, <2>1
<1>9. EventsTell' /\ ListTracks'
  BY <1>2, <1>3, <1>4, <1>6, <1>7, <1>8, HostTold
<1>10. /\ journal' \in Seq([kind : {"user/message", "session/title"}, id : Here])
       /\ \A i \in DOMAIN journal' : \/ i \in DOMAIN journal /\ journal'[i] = journal[i]
                                     \/ s \in open /\ journal'[i].id = s
  BY <1>3, JournalGrows
<1>11. ListTypes'
  <2>1. \A t \in Here : Bare(host'[t])
    BY <1>2, <1>3, <1>5 DEF ListTypes, Bare
  <2> QED BY <1>1, <1>3, <1>5, <1>6, <1>10, <2>1 DEF ListTypes
<1>12. JournalTells'
  <2>1. \A t \in Here : host[t].there => host'[t].there
    BY <1>2, <1>3, <1>5
  <2>2. \A t \in Here : ~host[t].blank => ~host'[t].blank
    BY <1>2, <1>5
  <2>3. ~host'[s].blank /\ open \subseteq Here /\ created \subseteq Here
    BY <1>2, <1>5 DEF ListTypes
  <2> QED BY <1>3, <1>10, <2>1, <2>2, <2>3 DEF JournalTells
<1> QED BY <1>9, <1>11, <1>12

LEMMA HostFinishesStays ==
  ASSUME ListInv, NEW s \in Here, Listing!HostFinishes(s)
  PROVE  ListInv'
<1> DEFINE g == [host[s] EXCEPT !.running = FALSE, !.title = TRUE]
<1> USE DEF ListInv
<1>1. host[s] \in ListRow /\ events \in Seq(ListEvent)
  BY DEF ListTypes
<1>2. /\ g \in ListRow /\ g.there = host[s].there /\ g.running = FALSE
      /\ g.blank = host[s].blank /\ g.updatedAt = host[s].updatedAt
  BY <1>1 DEF ListRow
<1>3. /\ host[s].running
      /\ Listing!Publish(s, <<"status">>) /\ Listing!Journals(s, "session/title")
      /\ UNCHANGED <<clock, created, reread, passed, overtaken, sessions, open>>
  BY DEF Listing!HostFinishes, Listing!WindowVars
<1>4. host' = [host EXCEPT ![s] = g]
  BY DEF Listing!HostFinishes, ListTypes
<1> HIDE DEF g
<1>5. host' \in [Here -> ListRow] /\ host'[s] = g /\ \A t \in Here \ {s} : host'[t] = host[t]
  BY <1>2, <1>4 DEF ListTypes
<1>6. /\ events' \in Seq(ListEvent) /\ Len(events') = Len(events) + 1 /\ Grows(events, events', s)
      /\ events'[Len(events) + 1].kind = "status" /\ events'[Len(events) + 1].row = g
  <2> DEFINE kinds == <<"status">>
  <2>1. kinds \in Seq(ListKind) /\ Len(kinds) = 1 /\ kinds[1] = "status" /\ 1 \in 1 .. Len(kinds)
    BY DEF ListKind
  <2>2. Listing!Publish(s, kinds)
    BY <1>3
  <2> HIDE DEF kinds
  <2> QED BY <1>5, <2>1, <2>2, HostPublishes
<1>7. host[s].there
  BY <1>3 DEF ListTypes, Bare
<1>8. /\ \A i \in DOMAIN events : events[i].id = s /\ Tells(events, i, host[s]) => Tells(events', i, g)
      /\ Tells(events', Len(events) + 1, g)
      /\ \A r \in ListRow : Tracks(r, host[s], events, s) => Tracks(r, g, events', s)
  <2>1. g.there /\ ~g.running
    BY <1>2, <1>7
  <2> DEFINE h == host[s]
  <2>2. h \in ListRow /\ h.there /\ g.blank = h.blank /\ g.updatedAt = h.updatedAt
    BY <1>1, <1>2, <1>7
  <2> HIDE DEF h
  <2>3. /\ \A i \in DOMAIN events : events[i].id = s /\ Tells(events, i, h) => Tells(events', i, g)
        /\ Tells(events', Len(events) + 1, g)
        /\ \A r \in ListRow : Tracks(r, h, events, s) => Tracks(r, g, events', s)
    BY <1>1, <1>2, <1>6, <2>1, <2>2, FinishedTold
  <2> QED BY <2>3 DEF h
<1>9. \A i \in Len(events) + 1 .. Len(events') : Tells(events', i, g)
  BY <1>1, <1>6, <1>8
<1>10. EventsTell' /\ ListTracks'
  BY <1>2, <1>3, <1>4, <1>6, <1>8, <1>9, HostTold
<1>11. /\ journal' \in Seq([kind : {"user/message", "session/title"}, id : Here])
       /\ \A i \in DOMAIN journal' :
            \/ i \in DOMAIN journal /\ journal'[i] = journal[i]
            \/ s \in open /\ journal'[i].id = s /\ journal'[i].kind = "session/title"
  BY <1>3, JournalGrows
<1>12. ListTypes'
  <2>1. \A t \in Here : Bare(host'[t])
    BY <1>2, <1>7, <1>5 DEF ListTypes, Bare
  <2> QED BY <1>3, <1>5, <1>6, <1>11, <2>1 DEF ListTypes
<1>13. JournalTells'
  <2>1. \A t \in Here : (host[t].there => host'[t].there) /\ (~host[t].blank => ~host'[t].blank)
    BY <1>2, <1>5
  <2>2. open \subseteq Here /\ created \subseteq Here
    BY DEF ListTypes
  <2> QED BY <1>3, <1>11, <2>1, <2>2 DEF JournalTells
<1> QED BY <1>10, <1>12, <1>13

LEMMA HostRemovesStays ==
  ASSUME ListInv, NEW s \in Here, Listing!HostRemoves(s)
  PROVE  ListInv'
<1> DEFINE g == Listing!Missing
<1> USE DEF ListInv
<1>1. g \in ListRow /\ g.there = FALSE /\ g.running = FALSE /\ g.blank = TRUE
  BY DEF Listing!Missing, ListRow
<1>2. /\ s \notin open \cup created /\ host' = [host EXCEPT ![s] = g]
      /\ Listing!Publish(s, <<"removed">>)
      /\ UNCHANGED <<clock, journal, created, reread, passed, overtaken, sessions, open>>
  BY DEF Listing!HostRemoves, Listing!WindowVars
<1> HIDE DEF g
<1>3. host' \in [Here -> ListRow] /\ host'[s] = g /\ \A t \in Here \ {s} : host'[t] = host[t]
  BY <1>1, <1>2 DEF ListTypes
<1>4. /\ events' \in Seq(ListEvent) /\ Len(events') = Len(events) + 1 /\ Grows(events, events', s)
      /\ events'[Len(events) + 1].kind = "removed" /\ events'[Len(events) + 1].row = g
  <2> DEFINE kinds == <<"removed">>
  <2>1. kinds \in Seq(ListKind) /\ Len(kinds) = 1 /\ kinds[1] = "removed" /\ 1 \in 1 .. Len(kinds)
    BY DEF ListKind
  <2>2. Listing!Publish(s, kinds)
    BY <1>2
  <2> HIDE DEF kinds
  <2> QED BY <1>3, <2>1, <2>2, HostPublishes
<1>5. host[s] \in ListRow /\ events \in Seq(ListEvent)
  BY DEF ListTypes
<1>6. /\ \A i \in DOMAIN events : events[i].id = s /\ Tells(events, i, host[s]) => Tells(events', i, g)
      /\ Tells(events', Len(events) + 1, g)
      /\ \A r \in ListRow : Tracks(r, g, events', s)
  BY <1>1, <1>4, <1>5, RemovedTold
<1>7. \A i \in Len(events) + 1 .. Len(events') : Tells(events', i, g)
  BY <1>4, <1>5, <1>6
<1>8. EventsTell' /\ ListTracks'
  BY <1>1, <1>2, <1>4, <1>6, <1>7, HostTold
<1>9. ListTypes'
  <2>1. \A t \in Here : Bare(host'[t])
    BY <1>1, <1>3 DEF ListTypes, Bare
  <2> QED BY <1>2, <1>3, <1>4, <2>1 DEF ListTypes
<1>10. JournalTells'
  BY <1>2, <1>3 DEF JournalTells, ListTypes
<1> QED BY <1>8, <1>9, <1>10

\* The window applies the next event.
LEMMA AppliedStays ==
  ASSUME ListInv, Listing!applySessionList
  PROVE  ListInv'
<1> DEFINE e == events[1]
<1> USE DEF ListInv
<1>1. /\ events # <<>> /\ sessions' = Listing!After(Head(events)) /\ events' = Tail(events)
      /\ passed' = TRUE
      /\ UNCHANGED <<host, clock, journal, reread, overtaken, open, created>>
  BY DEF Listing!applySessionList
<1>2. /\ events \in Seq(ListEvent) /\ events' \in Seq(ListEvent)
      /\ Head(events) = e /\ e \in ListEvent /\ e.id \in Here
  <2>1. events \in Seq(ListEvent)
    BY DEF ListTypes
  <2>2. Tail(events) \in Seq(ListEvent) /\ Head(events) = e /\ e \in ListEvent
    BY <1>1, <2>1, BehindHead
  <2> HIDE DEF e
  <2> QED BY <1>1, <2>1, <2>2 DEF ListEvent
<1>3. Tells(events, 1, host[e.id])
  BY <1>1, <1>2, BehindHead DEF EventsTell
<1>4. e.kind = "added" => e.row.there
  BY <1>3 DEF Tells
<1>5. sessions' = [sessions EXCEPT ![e.id] = RowAfter(sessions[e.id], e)]
  BY <1>1, <1>2, AfterIs DEF ListTypes
<1>6. RowAfter(sessions[e.id], e) \in ListRow /\ Bare(RowAfter(sessions[e.id], e))
  BY <1>2, <1>4, RowAfterIs DEF ListTypes
<1> HIDE DEF e
<1>7. ListTypes'
  BY <1>1, <1>2, <1>5, <1>6 DEF ListTypes
<1>8. EventsTell'
  <2> SUFFICES ASSUME NEW i \in DOMAIN events' PROVE Tells(events', i, host[events'[i].id])
    BY <1>1 DEF EventsTell
  <2>1. i + 1 \in DOMAIN events /\ events'[i] = events[i + 1]
    BY <1>1, <1>2, BehindHead
  <2>2. host[events'[i].id] \in ListRow /\ Bare(host[events'[i].id])
    <3>1. events'[i] \in ListEvent
      BY <1>2
    <3> QED BY <3>1 DEF ListTypes, ListEvent
  <2>3. Tells(events, i + 1, host[events'[i].id])
    BY <2>1 DEF EventsTell
  <2>4. ASSUME NEW s \in Here PROVE Tells(Tail(events), i, host[events'[i].id])
    BY <1>1, <1>2, <2>2, <2>3, <2>4, AppliedTold
  <2> QED BY <1>1, <1>2, <2>4
<1>9. ListTracks'
  <2> SUFFICES ASSUME ~overtaken, NEW s \in Here
               PROVE  Tracks(sessions'[s], host[s], events', s)
    BY <1>1 DEF ListTracks
  <2>1. /\ Tracks(sessions[s], host[s], events, s) /\ sessions[s] \in ListRow /\ Bare(sessions[s])
        /\ host[s] \in ListRow /\ Bare(host[s])
    BY DEF ListTracks, ListTypes
  <2>2. CASE e.id = s
    <3>1. sessions'[s] = RowAfter(sessions[s], e)
      BY <1>5, <2>2 DEF ListTypes
    <3>2. \A i \in DOMAIN events : events[i].id = s => Tells(events, i, host[s])
      BY DEF EventsTell
    <3>3. Tracks(RowAfter(sessions[s], events[1]), host[s], Tail(events), s)
      BY <1>1, <1>2, <2>1, <2>2, <3>2, AppliedTold DEF e
    <3> QED BY <1>1, <3>1, <3>3 DEF e
  <2>3. CASE e.id # s
    <3>1. sessions'[s] = sessions[s]
      BY <1>5, <2>3 DEF ListTypes
    <3>2. Tracks(sessions[s], host[s], Tail(events), s)
      BY <1>1, <1>2, <2>1, <2>3, AppliedTold DEF e
    <3> QED BY <1>1, <3>1, <3>2
  <2> QED BY <2>2, <2>3
<1>10. JournalTells'
  BY <1>1 DEF JournalTells
<1> QED BY <1>7, <1>8, <1>9, <1>10

\* One row of the window changes, and the Host's does not.
LEMMA RowChanged ==
  ASSUME ListTypes, ListTracks, NEW s \in Here, NEW q \in ListRow, Bare(q),
         sessions' = [sessions EXCEPT ![s] = q],
         Tracks(sessions[s], host[s], events, s) => Tracks(q, host[s], events, s),
         UNCHANGED <<host, events, reread, passed, overtaken>>
  PROVE  /\ sessions' \in [Here -> ListRow] /\ \A t \in Here : Bare(sessions'[t])
         /\ ListTracks'
<1>1. sessions'[s] = q /\ \A t \in Here \ {s} : sessions'[t] = sessions[t]
  BY DEF ListTypes
<1>2. sessions' \in [Here -> ListRow] /\ \A t \in Here : Bare(sessions'[t])
  BY <1>1 DEF ListTypes
<1>3. \A t \in Here : Tracks(sessions[t], host[t], events, t) => Tracks(sessions'[t], host[t], events, t)
  BY <1>1
<1>4. ListTracks'
  BY <1>3 DEF ListTracks
<1> QED BY <1>2, <1>4

\* An empty list of an empty Host.
LEMMA ListStarts == Listing!ListInit => ListInv
<1> SUFFICES ASSUME Listing!ListInit PROVE ListInv
  OBVIOUS
<1> DEFINE here == [Listing!Missing EXCEPT !.there = TRUE]
<1>1. /\ Listing!Missing \in ListRow /\ here \in ListRow
      /\ Bare(Listing!Missing) /\ Bare(here)
  BY DEF Listing!Missing, ListRow, Bare
<1>2. /\ host \in [Here -> {Listing!Missing, here}] /\ sessions = [s \in Here |-> Listing!Missing]
      /\ reread = [step |-> "none", list |-> host]
      /\ clock = 0 /\ events = <<>> /\ journal = <<>> /\ passed = FALSE /\ overtaken = TRUE
      /\ open = {} /\ created = {}
  BY DEF Listing!ListInit, Listing!Reply
<1> HIDE DEF here
<1>3. host \in [Here -> ListRow] /\ \A s \in Here : Bare(host[s])
  BY <1>1, <1>2
<1>4. sessions \in [Here -> ListRow] /\ \A s \in Here : Bare(sessions[s])
  BY <1>1, <1>2
<1>5. /\ reread \in [step : {"none", "asked", "made"}, list : [Here -> ListRow]]
      /\ reread.list = host /\ reread.step = "none"
  BY <1>2, <1>3
<1>6. events \in Seq(ListEvent) /\ journal \in Seq([kind : {"user/message", "session/title"}, id : Here])
  BY <1>2
<1>7. ListTypes
  BY <1>2, <1>3, <1>4, <1>5, <1>6 DEF ListTypes
<1>8. EventsTell /\ JournalTells /\ ListTracks
  BY <1>2, <1>5 DEF EventsTell, JournalTells, ListTracks
<1> QED BY <1>7, <1>8 DEF ListInv

\* The list is re-read: asked, answered, arrived, or failed.
LEMMA RereadStays ==
  ASSUME ListInv,
         \/ Listing!HostAnswers \/ Listing!Refresh \/ Listing!RefreshFails \/ Listing!Refreshed
  PROVE  ListInv'
<1> USE DEF ListInv
<1>1. CASE Listing!HostAnswers
  <2>1. /\ reread' = [step |-> "made", list |-> host] /\ passed' = FALSE
        /\ UNCHANGED <<host, clock, events, journal, overtaken, sessions, open, created>>
    BY <1>1 DEF Listing!HostAnswers, Listing!Reply
  <2>2. reread'.step = "made" /\ reread'.list = host
    BY <2>1
  <2>3. ListTypes'
    BY <2>1, <2>2 DEF ListTypes
  <2>4. \A s \in Here : Tracks(host[s], host[s], events, s)
    BY DEF Tracks
  <2>5. ListTracks'
    BY <2>1, <2>2, <2>4 DEF ListTracks
  <2> QED BY <2>1, <2>3, <2>5 DEF EventsTell, JournalTells
<1>2. CASE Listing!Refresh \/ Listing!RefreshFails
  <2>1. /\ reread' = [step |-> "asked", list |-> reread.list] \/ reread' = [step |-> "none", list |-> reread.list]
        /\ UNCHANGED <<host, clock, events, journal, passed, overtaken, sessions, open, created>>
    BY <1>2 DEF Listing!Refresh, Listing!RefreshFails, Listing!Reply
  <2>2. reread'.step \in {"asked", "none"} /\ reread'.list = reread.list /\ reread.list \in [Here -> ListRow]
    BY <2>1 DEF ListTypes
  <2>3. ListTypes'
    BY <2>1, <2>2 DEF ListTypes
  <2> QED BY <2>1, <2>2, <2>3 DEF EventsTell, JournalTells, ListTracks
<1>3. CASE Listing!Refreshed
  <2>1. /\ reread.step = "made" /\ reread' = [step |-> "none", list |-> reread.list]
        /\ sessions' = reread.list /\ overtaken' = passed
        /\ UNCHANGED <<host, clock, events, journal, passed, open, created>>
    BY <1>3 DEF Listing!Refreshed, Listing!Reply
  <2>2. reread'.step = "none" /\ reread'.list = reread.list /\ reread.list \in [Here -> ListRow]
    BY <2>1 DEF ListTypes
  <2>3. ListTypes'
    BY <2>1, <2>2 DEF ListTypes
  <2> QED BY <2>1, <2>2, <2>3 DEF EventsTell, JournalTells, ListTracks
<1> QED BY <1>1, <1>2, <1>3

\* The journal's next event of the open Session.
LEMMA OnEventStays ==
  ASSUME ListInv, Listing!onEvent
  PROVE  ListInv'
<1> DEFINE e == Head(journal)
           r == sessions[e.id]
           JournalEvent == [kind : {"user/message", "session/title"}, id : Here]
<1> USE DEF ListInv
<1>1. /\ journal # <<>> /\ journal' = Tail(journal)
      /\ UNCHANGED <<host, clock, events, reread, passed, overtaken, open, created>>
  BY DEF Listing!onEvent
<1>2. /\ journal' \in Seq(JournalEvent) /\ e \in JournalEvent /\ e = journal[1] /\ 1 \in DOMAIN journal
      /\ \A i \in DOMAIN journal' : i + 1 \in DOMAIN journal /\ journal'[i] = journal[i + 1]
  <2>1. journal \in Seq(JournalEvent)
    BY DEF ListTypes
  <2> HIDE DEF JournalEvent
  <2> QED BY <1>1, <2>1
<1>3. e.id \in Here /\ e.kind \in {"user/message", "session/title"} /\ e.id \in open
  BY <1>2 DEF JournalTells
<1>4. e.kind = "user/message" => ~host[e.id].blank
  BY <1>2 DEF JournalTells
<1>5. JournalTells'
  BY <1>1, <1>2 DEF JournalTells
<1>6. EventsTell'
  BY <1>1 DEF EventsTell
<1>7. r \in ListRow /\ Bare(r) /\ host[e.id] \in ListRow
  BY <1>3 DEF ListTypes
<1>8. sessions' = IF ~r.there THEN sessions
                  ELSE IF e.kind = "user/message" THEN [sessions EXCEPT ![e.id].blank = FALSE]
                  ELSE [sessions EXCEPT ![e.id].title = TRUE]
  BY DEF Listing!onEvent
<1>9. CASE sessions' = sessions
  BY <1>1, <1>2, <1>5, <1>6, <1>9 DEF ListTypes, ListTracks
<1>10. CASE r.there /\ e.kind = "user/message"
  <2> DEFINE q == [r EXCEPT !.blank = FALSE]
  <2>1. /\ q \in ListRow /\ q.there = r.there /\ q.running = r.running /\ q.updatedAt = r.updatedAt
        /\ q.blank = FALSE
    BY <1>7 DEF ListRow
  <2>2. sessions' = [sessions EXCEPT ![e.id] = q]
    BY <1>3, <1>8, <1>10 DEF ListTypes
  <2> HIDE DEF q
  <2>3. Bare(q) /\ (Tracks(r, host[e.id], events, e.id) => Tracks(q, host[e.id], events, e.id))
    BY <1>4, <1>7, <1>10, <2>1 DEF Bare, Tracks
  <2>4. /\ sessions' \in [Here -> ListRow] /\ \A t \in Here : Bare(sessions'[t])
        /\ ListTracks'
    <3> HIDE DEF e
    <3> QED BY <1>1, <1>3, <2>1, <2>2, <2>3, RowChanged
  <2> QED BY <1>1, <1>2, <1>5, <1>6, <2>4 DEF ListTypes
<1>11. CASE r.there /\ e.kind = "session/title"
  <2> DEFINE q == [r EXCEPT !.title = TRUE]
  <2>1. /\ q \in ListRow /\ q.there = r.there /\ q.running = r.running /\ q.updatedAt = r.updatedAt
        /\ q.blank = r.blank
    BY <1>7 DEF ListRow
  <2>2. sessions' = [sessions EXCEPT ![e.id] = q]
    BY <1>3, <1>8, <1>11 DEF ListTypes
  <2> HIDE DEF q
  <2>3. Bare(q) /\ (Tracks(r, host[e.id], events, e.id) => Tracks(q, host[e.id], events, e.id))
    BY <1>7, <1>11, <2>1 DEF Bare, Tracks
  <2>4. /\ sessions' \in [Here -> ListRow] /\ \A t \in Here : Bare(sessions'[t])
        /\ ListTracks'
    <3> HIDE DEF e
    <3> QED BY <1>1, <1>3, <2>1, <2>2, <2>3, RowChanged
  <2> QED BY <1>1, <1>2, <1>5, <1>6, <2>4 DEF ListTypes
<1> QED BY <1>3, <1>8, <1>9, <1>10, <1>11

\* createSession is answered: the row, unless an event brought it.
LEMMA CreateStays ==
  ASSUME ListInv, NEW s \in Here, Listing!create(s)
  PROVE  ListInv'
<1> DEFINE q == [Listing!Missing EXCEPT !.there = TRUE, !.updatedAt = clock]
<1> USE DEF ListInv
<1>1. /\ s \in created /\ created' = created \ {s}
      /\ sessions' = [sessions EXCEPT ![s] = IF sessions[s].there THEN sessions[s] ELSE q]
      /\ UNCHANGED <<host, clock, events, journal, reread, passed, overtaken, open>>
  BY DEF Listing!create, ListTypes
<1>2. q \in ListRow /\ q.there = TRUE /\ q.running = FALSE /\ q.blank = TRUE /\ Bare(q)
  <2>1. clock \in Nat
    BY DEF ListTypes
  <2>2. /\ Listing!Missing \in ListRow
        /\ Listing!Missing.running = FALSE /\ Listing!Missing.blank = TRUE
    BY DEF Listing!Missing, ListRow
  <2>3. q \in ListRow /\ q.there = TRUE /\ q.running = FALSE /\ q.blank = TRUE
    BY <2>1, <2>2 DEF ListRow
  <2> QED BY <2>3 DEF Bare
<1> HIDE DEF q
<1>3. EventsTell' /\ JournalTells'
  BY <1>1 DEF EventsTell, JournalTells
<1>4. CASE sessions[s].there
  <2>1. sessions' = sessions
    BY <1>1, <1>4 DEF ListTypes
  <2> QED BY <1>1, <1>3, <2>1 DEF ListTypes, ListTracks
<1>5. CASE ~sessions[s].there
  <2> DEFINE h == host[s]
             r == sessions[s]
  <2>1. /\ h.there = TRUE /\ h \in ListRow /\ r \in ListRow /\ Bare(r)
        /\ events \in Seq(ListEvent)
    BY <1>1 DEF JournalTells, ListTypes, ListRow
  <2>2. \A i \in DOMAIN events : events[i].id = s => Tells(events, i, h)
    BY DEF EventsTell
  <2> HIDE DEF h
  <2>3. ASSUME Tracks(r, h, events, s) PROVE Tracks(q, h, events, s)
    <3>1. Ahead(events, s, {"added", "removed"})
      BY <1>5, <2>1, <2>3 DEF Tracks, ListRow
    <3>2. PICK i \in DOMAIN events : events[i].id = s /\ events[i].kind \in {"added", "removed"}
      BY <3>1 DEF Ahead
    <3>3. Tells(events, i, h)
      BY <2>2, <3>2
    <3>4. events[i].kind = "added" \/ Behind(events, i, s, {"added"})
      BY <2>1, <3>2, <3>3 DEF Tells
    <3>5. Ahead(events, s, {"added", "activity"})
      BY <3>2, <3>4 DEF Ahead, Behind
    <3>6. ~h.blank => Ahead(events, s, {"activity"})
      BY <2>1, <3>2, <3>3 DEF Tells, Ahead, Behind
    <3>7. r.running = FALSE
      BY <1>5, <2>1 DEF Bare, ListRow
    <3> QED BY <1>2, <2>1, <2>3, <3>1, <3>5, <3>6, <3>7 DEF Tracks
  <2>4. sessions' = [sessions EXCEPT ![s] = q]
    BY <1>1, <1>5
  <2>5. /\ sessions' \in [Here -> ListRow] /\ \A t \in Here : Bare(sessions'[t])
        /\ ListTracks'
    BY <1>1, <1>2, <2>3, <2>4, RowChanged DEF h
  <2> QED BY <1>1, <1>3, <2>5 DEF ListTypes
<1> QED BY <1>4, <1>5

\* The window opens another Session: its journal is told from the start.
LEMMA OpenStays ==
  ASSUME ListInv, NEW s \in Here, Listing!Open(s)
  PROVE  ListInv'
<1> DEFINE told == Listing!Told(s)
           Kinds == {"user/message", "session/title"}
           first == IF host[s].blank THEN <<>> ELSE <<"user/message">>
           second == IF host[s].title THEN <<"session/title">> ELSE <<>>
<1> USE DEF ListInv
<1>1. /\ host[s].there /\ open' = {s}
      /\ journal' = [i \in 1 .. Len(told) |-> [kind |-> told[i], id |-> s]]
      /\ UNCHANGED <<host, clock, events, reread, passed, overtaken, sessions, created>>
  BY DEF Listing!Open
<1>2. told \in Seq(Kinds) /\ (host[s].blank => told \in Seq({"session/title"}))
  <2>1. told = first \o second
    BY DEF Listing!Told
  <2>2. /\ <<>> \in Seq(Kinds) /\ <<"user/message">> \in Seq(Kinds) /\ <<"session/title">> \in Seq(Kinds)
        /\ <<>> \in Seq({"session/title"}) /\ <<"session/title">> \in Seq({"session/title"})
    OBVIOUS
  <2>3. /\ first \in Seq(Kinds) /\ second \in Seq(Kinds)
        /\ host[s].blank => first \in Seq({"session/title"}) /\ second \in Seq({"session/title"})
    <3> HIDE DEF Kinds
    <3> QED BY <2>2
  <2> HIDE DEF first, second, told
  <2> QED BY <2>1, <2>3
<1> HIDE DEF told
<1>3. \A i \in 1 .. Len(told) : told[i] \in Kinds /\ (told[i] = "user/message" => ~host[s].blank)
  <2>1. \A i \in 1 .. Len(told) : told[i] \in Kinds
    BY <1>2
  <2>2. \A i \in 1 .. Len(told) : host[s].blank => told[i] \in {"session/title"}
    BY <1>2
  <2> QED BY <2>1, <2>2
<1>4. Len(told) \in Nat
  BY <1>2
<1>5. /\ journal' \in Seq([kind : Kinds, id : Here])
      /\ DOMAIN journal' = 1 .. Len(told)
      /\ \A i \in 1 .. Len(told) : journal'[i].kind = told[i] /\ journal'[i].id = s
  <2>1. \A i \in 1 .. Len(told) : [kind |-> told[i], id |-> s] \in [kind : Kinds, id : Here]
    BY <1>3
  <2> QED BY <1>1, <1>4, <2>1
<1>6. ListTypes'
  BY <1>1, <1>5 DEF ListTypes
<1>7. JournalTells'
  BY <1>1, <1>3, <1>5 DEF JournalTells
<1> QED BY <1>1, <1>6, <1>7 DEF EventsTell, ListTracks

LEMMA ListInvStays == ListInv /\ (Listing!ListNext \/ UNCHANGED sessionList) => ListInv'
<1> SUFFICES ASSUME ListInv, Listing!ListNext \/ UNCHANGED sessionList PROVE ListInv'
  OBVIOUS
<1>1. CASE UNCHANGED sessionList
  BY <1>1 DEF sessionList, ListInv, ListTypes, EventsTell, JournalTells, ListTracks
<1> QED
  BY <1>1, HostCreatesStays, HostPromptedStays, HostFinishesStays, HostRemovesStays, AppliedStays,
     RereadStays, OnEventStays, CreateStays, OpenStays
  DEF Listing!ListNext

\* With every event applied, the rows are the Host's.
LEMMA ListHolds == ListInv => Listing!ListIsCurrent
<1> SUFFICES ASSUME ListInv, events = <<>>, ~overtaken, NEW s \in Here
             PROVE  Listing!Row(sessions[s]) = Listing!Row(host[s])
  BY DEF Listing!ListIsCurrent, Listing!Settled
<1>1. \A kinds : ~Ahead(events, s, kinds)
  BY DEF Ahead
<1>2. Tracks(sessions[s], host[s], events, s) /\ sessions[s] \in ListRow /\ host[s] \in ListRow
  BY DEF ListInv, ListTracks, ListTypes
<1>3. Bare(sessions[s]) /\ Bare(host[s])
  BY DEF ListInv, ListTypes
<1>4. /\ sessions[s].there = host[s].there /\ sessions[s].running = host[s].running
      /\ host[s].there => /\ sessions[s].updatedAt = host[s].updatedAt
                          /\ sessions[s].blank = host[s].blank
  BY <1>1, <1>2 DEF Tracks, ListRow
<1>5. ~host[s].there => sessions[s].blank = host[s].blank
  BY <1>2, <1>3, <1>4 DEF Bare, ListRow
<1> QED BY <1>4, <1>5 DEF Listing!Row

\* A step of the list hides no Session that has spoken, and forgets no title.
SpokenStands ==
    \A s \in Here :
         sessions[s].there /\ sessions'[s].there /\ reads' = reads /\ reread' = reread =>
           /\ ~sessions[s].blank => ~sessions'[s].blank
           /\ sessions[s].title => sessions'[s].title

\* A Session that has spoken stays so in the list, and keeps its title.
LEMMA SpokenStep ==
  ASSUME ListInv, Listing!ListNext \/ UNCHANGED sessionList
  PROVE  SpokenStands
<1>1. CASE UNCHANGED sessions
  BY <1>1 DEF SpokenStands
<1>2. CASE Listing!applySessionList
  <2> DEFINE e == events[1]
  <2>1. /\ events # <<>> /\ sessions' = Listing!After(Head(events)) /\ events \in Seq(ListEvent)
        /\ sessions \in [Here -> ListRow]
    BY <1>2 DEF Listing!applySessionList, ListInv, ListTypes
  <2>2. Head(events) = e /\ e \in ListEvent
    BY <2>1, BehindHead
  <2>3. e.id \in Here
    BY <2>2 DEF ListEvent
  <2>4. e.kind = "added" => e.row.there
    <3>1. Tells(events, 1, host[e.id])
      BY <2>1, BehindHead DEF ListInv, EventsTell
    <3> QED BY <3>1 DEF Tells
  <2>5. sessions' = [sessions EXCEPT ![e.id] = RowAfter(sessions[e.id], e)]
    BY <2>1, <2>2, AfterIs
  <2>6. LET r == sessions[e.id] IN
        r.there /\ RowAfter(r, e).there => /\ ~r.blank => ~RowAfter(r, e).blank
                                           /\ r.title => RowAfter(r, e).title
    BY <2>2, <2>3, <2>4, RowAfterIs DEF ListInv, ListTypes
  <2> HIDE DEF e
  <2> QED BY <2>1, <2>3, <2>5, <2>6 DEF SpokenStands
<1>3. CASE Listing!onEvent
  <2>1. sessions \in [Here -> ListRow]
    BY DEF ListInv, ListTypes
  <2> DEFINE i == Head(journal).id
  <2>2. \/ sessions' = sessions
        \/ sessions' = [sessions EXCEPT ![i].blank = FALSE]
        \/ sessions' = [sessions EXCEPT ![i].title = TRUE]
    BY <1>3 DEF Listing!onEvent
  <2> HIDE DEF i
  <2> QED BY <2>1, <2>2 DEF SpokenStands, ListRow
<1>4. CASE Listing!Refreshed
  <2>1. reread.step = "made" /\ reread'.step = "none"
    BY <1>4 DEF Listing!Refreshed, Listing!Reply
  <2> QED BY <2>1 DEF SpokenStands
<1>5. ASSUME NEW s \in Here, Listing!create(s) PROVE SpokenStands
  <2>1. \A t \in Here : sessions[t].there => sessions'[t] = sessions[t]
    BY <1>5 DEF Listing!create, ListInv, ListTypes
  <2> QED BY <2>1 DEF SpokenStands
<1>6. ASSUME NEW s \in Here,
             \/ Listing!HostCreates(s) \/ Listing!HostPrompted(s) \/ Listing!HostFinishes(s)
             \/ Listing!HostRemoves(s) \/ Listing!Open(s)
      PROVE UNCHANGED sessions
  BY <1>6 DEF Listing!HostCreates, Listing!HostPrompted, Listing!HostFinishes, Listing!HostRemoves,
     Listing!Open, Listing!WindowVars
<1>7. ASSUME \/ Listing!HostAnswers \/ Listing!Refresh \/ Listing!RefreshFails \/ UNCHANGED sessionList
      PROVE UNCHANGED sessions
  BY <1>7 DEF Listing!HostAnswers, Listing!Refresh, Listing!RefreshFails, sessionList
<1> QED BY <1>1, <1>2, <1>3, <1>4, <1>5, <1>6, <1>7 DEF Listing!ListNext

-----------------------------------------------------------------------------
(* The cards                                                               *)

Question == {"single", "multi", "text"}

\* What an answer of a card of this kind holds.
AnswerFits(kind, chose, custom) ==
    /\ kind \in Asking!Kind
    /\ kind = "single" => \/ custom = <<>> /\ \E r \in 0 .. Options - 1 : chose = {r}
                          \/ custom # <<>> /\ chose = {}
    /\ kind = "multi" => chose \subseteq 0 .. Options - 1
    /\ kind \in Asking!Field => custom # <<>> /\ chose = {}

\* A question on the screen has only questions answered before it, fewer than the
\* request has; any other card is the first of its request.
CardInv ==
    /\ card \in Asking!Kind \cup {"none"}
    /\ Asking!Listed => row \in 0 .. Options
    /\ toggled \subseteq 0 .. Options - 1
    /\ \E S : answers \in Seq(S)
    /\ \A i \in DOMAIN answers : AnswerFits(answers[i].kind, answers[i].selected, answers[i].custom)
    /\ card \in Question =>
         /\ reply = "none" /\ Len(answers) < Questions
         /\ \A i \in DOMAIN answers : answers[i].kind \in Question
    /\ card \in Asking!Kind \ Question => answers = <<>> /\ reply = "none"
    /\ reply = "given" /\ answers[1].kind \in Question => Len(answers) = Questions

\* The kinds of the cards, which the provers do not count by themselves.
LEMMA CardKinds ==
  /\ Asking!Kind = {"single", "multi", "text", "key", "approval", "confirm", "conflict", "language"}
  /\ DOMAIN Asking!Fixed = {"approval", "confirm", "conflict", "language"}
  /\ Asking!Field = {"text", "key"}
<1>1. DOMAIN Asking!Fixed = {"approval", "confirm", "conflict", "language"}
  BY DEF Asking!Fixed
<1> QED BY <1>1 DEF Asking!Kind, Asking!Field

LEMMA CardStarts == Asking!CardInit => CardInv
BY CardKinds, PanelsAssumption
DEF Asking!CardInit, CardInv, PanelsAssumption, Question, Asking!Listed

\* The end of a sequence, and what was before it.
LEMMA Appended ==
  ASSUME NEW S, NEW a \in Seq(S), NEW e
  PROVE  /\ Append(a, e) \in Seq(S \cup {e}) /\ Len(Append(a, e)) = Len(a) + 1 /\ Len(a) \in Nat
         /\ \A i \in DOMAIN Append(a, e) : \/ i \in DOMAIN a /\ Append(a, e)[i] = a[i]
                                           \/ i = Len(a) + 1 /\ Append(a, e)[i] = e
         /\ Append(a, e)[1] = IF a = <<>> THEN e ELSE a[1]
<1>1. a \in Seq(S \cup {e}) /\ e \in S \cup {e}
  OBVIOUS
<1>2. Append(a, e) \in Seq(S \cup {e}) /\ Len(Append(a, e)) = Len(a) + 1 /\ Len(a) \in Nat
  BY <1>1
<1>3. \A i \in 1 .. Len(a) : Append(a, e)[i] = a[i]
  BY <1>1
<1>4. Append(a, e)[Len(a) + 1] = e
  BY <1>1
<1>5. /\ DOMAIN Append(a, e) = 1 .. Len(a) + 1 /\ DOMAIN a = 1 .. Len(a)
      /\ a # <<>> => Len(a) >= 1
      /\ a = <<>> => Len(a) = 0
  BY <1>1, <1>2
<1> QED BY <1>2, <1>3, <1>4, <1>5

\* A card is answered: the next question, or the reply.
LEMMA CardAnswered ==
  ASSUME CardInv, NEW chose, NEW custom, card \in Asking!Kind, AnswerFits(card, chose, custom),
         Asking!Answer(chose, custom)
  PROVE  CardInv'
<1> DEFINE e == [kind |-> card, selected |-> chose, custom |-> custom]
<1>1. PICK S : answers \in Seq(S)
  BY DEF CardInv
<1>2. answers' = Append(answers, e)
  BY DEF Asking!Answer
<1>3. e.kind = card /\ e.selected = chose /\ e.custom = custom
  OBVIOUS
<1> HIDE DEF e
<1>4. /\ answers' \in Seq(S \cup {e}) /\ Len(answers') = Len(answers) + 1 /\ Len(answers) \in Nat
      /\ \A i \in DOMAIN answers' : \/ i \in DOMAIN answers /\ answers'[i] = answers[i]
                                    \/ answers'[i] = e
      /\ answers = <<>> => answers'[1] = e
      /\ answers'[1] = e \/ (answers # <<>> /\ answers'[1] = answers[1])
  BY <1>1, <1>2, Appended
<1>5. \A i \in DOMAIN answers' : AnswerFits(answers'[i].kind, answers'[i].selected, answers'[i].custom)
  BY <1>3, <1>4 DEF CardInv
<1>6. \/ /\ card \in Question /\ Len(answers') < Questions
         /\ card' \in Question /\ row' = 0 /\ toggled' = {} /\ reply' = reply
      \/ /\ card \notin Question \/ Len(answers') >= Questions
         /\ card' = "none" /\ row' = 0 /\ toggled' = {} /\ reply' = "given"
  BY <1>2 DEF Asking!Answer, Asking!Show, Question, e
<1>7. Options \in Nat /\ Questions \in Nat
  BY PanelsAssumption DEF PanelsAssumption
<1>8. CASE card \in Question
  <2>1. \A i \in DOMAIN answers' : answers'[i].kind \in Question
    BY <1>3, <1>4, <1>8 DEF CardInv
  <2>2. Len(answers) < Questions /\ reply = "none"
    BY <1>8 DEF CardInv
  <2> QED BY <1>4, <1>5, <1>6, <1>7, <1>8, <2>1, <2>2, CardKinds DEF CardInv, Question, Asking!Listed
<1>9. CASE card \notin Question
  <2>1. answers = <<>>
    BY <1>9 DEF CardInv
  <2>2. answers'[1].kind \notin Question
    BY <1>3, <1>4, <1>9, <2>1
  <2> QED BY <1>4, <1>5, <1>6, <1>7, <1>9, <2>2, CardKinds DEF CardInv, Question, Asking!Listed
<1> QED BY <1>8, <1>9

LEMMA CardInvStays == CardInv /\ (Asking!CardNext \/ UNCHANGED cards) => CardInv'
<1> SUFFICES ASSUME CardInv, Asking!CardNext \/ UNCHANGED cards PROVE CardInv'
  OBVIOUS
<1>1. ASSUME UNCHANGED <<card, answers, reply>>,
             Asking!Listed => row' \in 0 .. Options, toggled' \subseteq 0 .. Options - 1
      PROVE CardInv'
  BY <1>1 DEF CardInv, Asking!Listed
<1>2. ASSUME UNCHANGED <<card, row, toggled, answers, reply>> PROVE CardInv'
  BY <1>1, <1>2 DEF CardInv
<1>3. Options \in Nat
  BY PanelsAssumption DEF PanelsAssumption
<1>4. ASSUME Asking!EnterDraft PROVE CardInv'
  <2>1. CASE UNCHANGED <<card, row, toggled, answers, reply>>
    BY <1>2, <2>1
  <2>2. CASE Asking!Trim # <<>> /\ Asking!Answer(Asking!Checked, Asking!Trim)
    <3>1. card \in Asking!Kind /\ card \notin DOMAIN Asking!Fixed
      BY <1>4, CardKinds DEF Asking!EnterDraft, Asking!Typing, Asking!Listed
    <3>2. AnswerFits(card, Asking!Checked, Asking!Trim)
      BY <2>2, <3>1, CardKinds DEF AnswerFits, Asking!Checked, CardInv
    <3> QED BY <2>2, <3>1, <3>2, CardAnswered
  <2> QED BY <1>4, <2>1, <2>2 DEF Asking!EnterDraft
<1>5. ASSUME Asking!EnterRow PROVE CardInv'
  <2>1. Asking!Listed /\ row \in 0 .. Options - 1 /\ Asking!submit /\ card \in Asking!Kind
    BY <1>3, <1>5, CardKinds DEF Asking!EnterRow, Asking!OnCustom, CardInv, Asking!Listed
  <2>2. CASE card = "single"
    <3>1. AnswerFits(card, {row}, <<>>)
      BY <2>1, <2>2, CardKinds DEF AnswerFits
    <3> QED BY <2>1, <2>2, <3>1, CardAnswered DEF Asking!submit
  <2>3. CASE card # "single"
    <3>1. card = "multi"
      BY <2>1, <2>3 DEF Asking!Listed
    <3>2. AnswerFits(card, Asking!Checked, <<>>)
      BY <2>1, <3>1, CardKinds DEF AnswerFits, Asking!Checked, CardInv
    <3> QED BY <2>1, <2>3, <3>2, CardAnswered DEF Asking!submit
  <2> QED BY <2>2, <2>3
<1>6. ASSUME Asking!Choose \/ Asking!ChooseRow PROVE CardInv'
  <2>1. card \in DOMAIN Asking!Fixed
    BY <1>6, CardKinds DEF Asking!Choose, Asking!ChooseRow
  <2>2. card \in Asking!Kind /\ \A custom : AnswerFits(card, {}, custom)
    BY <2>1, CardKinds DEF AnswerFits
  <2>3. PICK custom : Asking!Answer({}, custom)
    BY <1>6 DEF Asking!Choose, Asking!ChooseRow
  <2> QED BY <2>2, <2>3, CardAnswered
<1>7. ASSUME Asking!Dismiss PROVE CardInv'
  BY <1>3, <1>7, CardKinds DEF CardInv, Asking!Dismiss, Asking!Show, Asking!Listed, Question
<1>8. ASSUME Asking!Toggle PROVE CardInv'
  <2>1. row \in 0 .. Options - 1
    BY <1>3, <1>8 DEF Asking!Toggle, Asking!OnCustom, CardInv, Asking!Listed
  <2>2. toggled' \subseteq 0 .. Options - 1 /\ row' = row
    BY <1>8, <2>1 DEF Asking!Toggle, CardInv
  <2> QED BY <1>1, <1>8, <2>2 DEF Asking!Toggle, CardInv
<1>9. ASSUME Asking!Move PROVE CardInv'
  BY <1>1, <1>9 DEF Asking!Move, CardInv, Asking!Listed
<1>10. ASSUME Asking!Erase \/ (\E character \in {"x", " "} : Asking!Type(character)) PROVE CardInv'
  BY <1>2, <1>10 DEF Asking!Erase, Asking!Type, Asking!EditsTo
<1>11. ASSUME Asking!OpenDraft \/ Asking!Escape \/ Asking!Interrupt \/ UNCHANGED cards PROVE CardInv'
  BY <1>2, <1>7, <1>11 DEF Asking!OpenDraft, Asking!Escape, Asking!Interrupt, cards
<1> QED
  BY <1>4, <1>5, <1>6, <1>8, <1>9, <1>10, <1>11 DEF Asking!CardNext

\* The invariant is enough for the answers to be those of the user.
LEMMA CardHolds == CardInv => Asking!AnsweredByTheUser
BY CardKinds DEF CardInv, AnswerFits, Question, Asking!AnsweredByTheUser, Asking!Field

-----------------------------------------------------------------------------
(* The lists and the browser                                               *)

\* The numbered values of a function are a sequence.
IsSeq(a) == \E S : a \in Seq(S)

\* A function of the first n numbers is a sequence.
LEMMA Numbered ==
  ASSUME NEW n \in Nat, NEW a, a = [i \in 1 .. n |-> a[i]]
  PROVE  IsSeq(a) /\ Len(a) = n
<1> DEFINE S == {a[i] : i \in 1 .. n}
<1>1. a \in [1 .. n -> S]
  OBVIOUS
<1> HIDE DEF S
<1> QED BY <1>1 DEF IsSeq

\* What is drawn is of the rows, the cursor and the efforts as they are.
PickerInv ==
    /\ list \in {"model", "provider", "thinking"} /\ height \in Int /\ cursor \in Int
    /\ IsSeq(filtered)
    /\ Picking!Drawn =>
         /\ drawn.detail = Picking!Under(filtered, cursor, efforts)
         /\ drawn.highlighted = drawn.detail.row
    /\ Picking!AnswersTheHighlight

\* The rows of a list, in either order, are a sequence.
LEMMA OrderedIs ==
  ASSUME NEW set, IsFiniteSet(set)
  PROVE  IsSeq(Picking!Ordered(set)) /\ IsSeq(Picking!Recent(set))
<1>1. Cardinality(set) \in Nat /\ Picking!Cardinality(set) = Cardinality(set)
  BY FS_CardinalityType DEF Picking!Cardinality, Cardinality
<1>2. \A a : a = [i \in 1 .. Cardinality(set) |-> a[i]] => IsSeq(a)
  BY <1>1, Numbered
<1> DEFINE a == Picking!Ordered(set)
           b == Picking!Recent(set)
           lowest(i) == CHOOSE r \in set : Picking!Cardinality({o \in set : o < r}) = i - 1
           highest(i) == CHOOSE r \in set : Picking!Cardinality({o \in set : o > r}) = i - 1
<1>3. a = [i \in 1 .. Cardinality(set) |-> a[i]]
  <2>1. a = [i \in 1 .. Cardinality(set) |-> lowest(i)]
    BY <1>1, Zenon DEF Picking!Ordered
  <2> HIDE DEF a, lowest
  <2> QED BY <2>1
<1>4. b = [i \in 1 .. Cardinality(set) |-> b[i]]
  <2>1. b = [i \in 1 .. Cardinality(set) |-> highest(i)]
    BY <1>1, Zenon DEF Picking!Recent
  <2> HIDE DEF b, highest
  <2> QED BY <2>1
<1> HIDE DEF a, b
<1>5. IsSeq(a) /\ IsSeq(b)
  BY <1>2, <1>3, <1>4
<1> QED BY <1>5 DEF a, b

\* The window of a list starts so that it holds the cursor.
LEMMA WindowHolds ==
  ASSUME NEW length \in Nat, NEW where \in Int, NEW capacity \in Int, capacity >= 3
  PROVE  LET start == Picking!windowOf(length, where, capacity)
             end == Picking!Least2(length, start + capacity)
         IN  /\ start \in Nat /\ end \in Int /\ end <= length
             /\ where \in 0 .. length - 1 => start <= where /\ where < end
<1> DEFINE half == capacity \div 2
<1>1. half \in Int /\ 0 <= half /\ half < capacity
  OBVIOUS
<1> HIDE DEF half
<1>2. Picking!windowOf(length, where, capacity) =
        LET low == IF where - half < length - capacity THEN where - half ELSE length - capacity
        IN  IF 0 > low THEN 0 ELSE low
  BY DEF Picking!windowOf, Picking!Least2, Picking!Greatest2, half
<1> QED BY <1>1, <1>2 DEF Picking!Least2

\* A list shows three rows at least.
LEMMA CapacityIs ==
  ASSUME list \in {"model", "provider", "thinking"}, height \in Int
  PROVE  Picking!Capacity \in Int /\ Picking!Capacity >= 3
<1>1. Picking!CHROME[list] \in Int
  BY DEF Picking!CHROME
<1> QED BY <1>1 DEF Picking!Capacity, Picking!listCapacity, Picking!Least2, Picking!Greatest2,
     Picking!MAX_VISIBLE

\* Drawn, the highlighted row is the one under the cursor.
LEMMA HighlightIsUnder ==
  ASSUME list \in {"model", "provider", "thinking"}, height \in Int, NEW rows, IsSeq(rows),
         NEW where \in Int, NEW effort, Picking!updateList(rows, where, effort)
  PROVE  /\ drawn'.detail = Picking!Under(rows, where, effort)
         /\ drawn'.highlighted = drawn'.detail.row
<1> DEFINE start == Picking!windowOf(Len(rows), where, Picking!Capacity)
           end == Picking!Least2(Len(rows), start + Picking!Capacity)
           lines == SubSeq(rows, start + 1, end)
<1>1. PICK S : rows \in Seq(S)
  BY DEF IsSeq
<1>2. /\ start \in Nat /\ end \in Int /\ end <= Len(rows) /\ Len(rows) \in Nat
      /\ where \in 0 .. Len(rows) - 1 => start <= where /\ where < end
  <2>1. Len(rows) \in Nat
    BY <1>1
  <2>2. Picking!Capacity \in Int /\ Picking!Capacity >= 3
    BY CapacityIs
  <2> QED BY <2>1, <2>2, WindowHolds
<1>3. drawn' = [ rows |-> lines,
                 highlighted |-> IF where \in start .. start + Len(lines) - 1
                                 THEN lines[where - start + 1] ELSE 0,
                 detail |-> Picking!Under(rows, where, effort) ]
  BY DEF Picking!updateList
<1> HIDE DEF start, end
<1>4. CASE start < end
  <2>1. /\ Len(lines) = end - start
        /\ \A i \in 1 .. end - start : lines[i] = rows[start + i]
    BY <1>1, <1>2, <1>4
  <2> HIDE DEF lines
  <2>2. CASE where \in start .. start + Len(lines) - 1
    <3>1. /\ where - start + 1 \in 1 .. end - start /\ start + (where - start + 1) = where + 1
          /\ where \in 0 .. Len(rows) - 1
      BY <1>2, <1>4, <2>1, <2>2
    <3>2. lines[where - start + 1] = rows[where + 1]
      BY <2>1, <3>1
    <3> QED BY <1>3, <2>2, <3>1, <3>2 DEF Picking!Under
  <2>3. CASE where \notin start .. start + Len(lines) - 1
    <3>1. where \notin 0 .. Len(rows) - 1
      BY <1>2, <1>4, <2>1, <2>3
    <3> QED BY <1>3, <2>3, <3>1 DEF Picking!Under, Picking!Nothing
  <2> QED BY <2>2, <2>3
<1>5. CASE ~(start < end)
  <2>1. Len(lines) = 0
    BY <1>1, <1>2, <1>5
  <2> HIDE DEF lines
  <2>2. where \notin start .. start + Len(lines) - 1 /\ where \notin 0 .. Len(rows) - 1
    BY <1>2, <1>5, <2>1
  <2> QED BY <1>3, <2>2 DEF Picking!Under, Picking!Nothing
<1> QED BY <1>4, <1>5

LEMMA PickerStarts == Picking!PickerInit => PickerInv
<1> SUFFICES ASSUME Picking!PickerInit PROVE PickerInv
  OBVIOUS
<1>1. list \in {"model", "provider", "thinking"}
  BY DEF Picking!PickerInit, Picking!CHROME
<1>2. height \in Int /\ cursor \in Int
  BY PanelsAssumption DEF Picking!PickerInit, PanelsAssumption
<1>3. IsSeq(filtered)
  <2>1. IsFiniteSet(1 .. Rows)
    BY FS_Interval, PanelsAssumption DEF PanelsAssumption
  <2> QED BY <2>1, OrderedIs DEF Picking!PickerInit
<1>4. Picking!Drawn => drawn.detail = Picking!Under(filtered, cursor, efforts) /\ drawn.highlighted = drawn.detail.row
  <2>1. drawn.rows = <<>> /\ drawn.highlighted = 0 /\ drawn.detail = Picking!Nothing
    BY DEF Picking!PickerInit
  <2>2. Picking!Drawn => Picking!Under(filtered, cursor, efforts) = Picking!Nothing
    BY <1>2, <2>1 DEF Picking!Drawn, Picking!Under
  <2> QED BY <2>1, <2>2 DEF Picking!Nothing
<1>5. Picking!AnswersTheHighlight
  BY DEF Picking!PickerInit, Picking!AnswersTheHighlight, Picking!Ends
<1> QED BY <1>1, <1>2, <1>3, <1>4, <1>5 DEF PickerInv

LEMMA PickerInvStays == PickerInv /\ (Picking!PickerNext \/ UNCHANGED picker) => PickerInv'
<1> SUFFICES ASSUME PickerInv, Picking!PickerNext \/ UNCHANGED picker PROVE PickerInv'
  OBVIOUS
\* What is drawn anew is of the rows and the cursor as they are now.
<1>1. ASSUME Picking!Open, UNCHANGED <<list, height, answer>>, cursor' \in Int, IsSeq(filtered'),
             Picking!updateList(filtered', cursor', efforts')
      PROVE PickerInv'
  <2>1. /\ drawn'.detail = Picking!Under(filtered', cursor', efforts')
        /\ drawn'.highlighted = drawn'.detail.row
    BY <1>1, HighlightIsUnder DEF PickerInv
  <2>2. Picking!AnswersTheHighlight'
    BY <1>1 DEF Picking!Open, Picking!AnswersTheHighlight
  <2>3. Picking!Under(filtered', cursor', efforts') = Picking!Under(filtered, cursor, efforts)'
    BY DEF Picking!Under, Picking!Nothing
  <2> QED BY <1>1, <2>1, <2>2, <2>3 DEF PickerInv
<1>2. ASSUME Picking!Draw PROVE PickerInv'
  BY <1>1, <1>2 DEF Picking!Draw, PickerInv
<1>3. ASSUME NEW what \in {"empty", "text", "/login"}, Picking!Type(what) PROVE PickerInv'
  <2>1. PICK matching \in SUBSET (1 .. Rows) : filtered' = Picking!Ordered(matching)
    BY <1>3 DEF Picking!Type
  <2>2. IsFiniteSet(matching)
    <3>1. IsFiniteSet(1 .. Rows)
      BY FS_Interval, PanelsAssumption DEF PanelsAssumption
    <3> QED BY <3>1, FS_Subset
  <2>3. IsSeq(filtered')
    BY <2>1, <2>2, OrderedIs
  <2>4. Len(filtered') \in Nat
    BY <2>3 DEF IsSeq
  <2>5. cursor' \in Int
    BY <1>3, <2>4 DEF Picking!Type, Picking!ClampCursor, Picking!Least2, Picking!Greatest2, PickerInv
  <2> QED BY <1>1, <1>3, <2>3, <2>5 DEF Picking!Type
<1>4. ASSUME NEW delta \in Int, Picking!move(delta) PROVE PickerInv'
  <2>1. Len(filtered) \in Nat /\ Len(filtered) > 0
    BY <1>4 DEF Picking!move, PickerInv, IsSeq
  <2> DEFINE n == Len(filtered)
             a == cursor + delta + n
  <2>2. a \in Int /\ n \in Nat /\ n > 0
    BY <2>1 DEF PickerInv
  <2>3. Picking!Remainder(a, n) \in Int
    <3> HIDE DEF a, n
    <3>1. a % n \in Int /\ (-a) % n \in Int
      BY <2>2
    <3> QED BY <2>2, <3>1 DEF Picking!Remainder
  <2> QED BY <1>1, <1>4, <2>3 DEF Picking!move, PickerInv
<1>5. ASSUME Picking!cycleEffort PROVE PickerInv'
  BY <1>1, <1>5 DEF Picking!cycleEffort, PickerInv
<1>6. ASSUME Picking!confirm PROVE PickerInv'
  <2>1. \/ answer' = Picking!Ends("login", Picking!Nothing)
        \/ answer' = Picking!Ends("select", Picking!Under(filtered, cursor, efforts))
    BY <1>6 DEF Picking!confirm
  <2>2. Picking!Drawn
    BY <1>6 DEF Picking!confirm
  <2>3. Picking!AnswersTheHighlight'
    BY <1>6, <2>1, <2>2 DEF Picking!confirm, Picking!AnswersTheHighlight, Picking!Ends, PickerInv
  <2> QED BY <1>6, <2>3 DEF Picking!confirm, PickerInv, Picking!Drawn, Picking!Under
<1>7. ASSUME Picking!Cancel PROVE PickerInv'
  <2>1. Picking!AnswersTheHighlight'
    BY <1>7 DEF Picking!Cancel, Picking!AnswersTheHighlight, Picking!Ends
  <2> QED BY <1>7, <2>1 DEF Picking!Cancel, PickerInv, Picking!Drawn, Picking!Under
<1>8. ASSUME Picking!Resize PROVE PickerInv'
  BY <1>8, PanelsAssumption DEF Picking!Resize, PickerInv, Picking!Drawn, Picking!Under,
     Picking!AnswersTheHighlight, PanelsAssumption
<1>9. ASSUME UNCHANGED picker PROVE PickerInv'
  BY <1>9 DEF picker, PickerInv, Picking!Drawn, Picking!Under, Picking!AnswersTheHighlight
<1>10. ASSUME NEW sign \in {-1, 1}, Picking!Page(sign) PROVE PickerInv'
  <2>1. sign * Picking!Capacity \in Int
    BY CapacityIs DEF PickerInv
  <2> QED BY <1>4, <1>10, <2>1 DEF Picking!Page
<1> QED
  BY <1>2, <1>3, <1>4, <1>5, <1>6, <1>7, <1>8, <1>9, <1>10 DEF Picking!PickerNext

\* The invariant is enough for a list to answer what it highlights.
LEMMA PickerHolds == PickerInv => Picking!AnswersTheHighlight
BY DEF PickerInv

-----------------------------------------------------------------------------
(* The browser                                                             *)

\* A finished frame highlights what Enter would open.
ResumeInv ==
    /\ at \in Nat
    /\ Picking!Searching => IsSeq(search[1])
    /\ ~due /\ ~fresh => frame = Picking!Chosen(Picking!Choices, at)

\* The rows of the browser are a sequence.
LEMMA ChoicesAre ==
  ASSUME ResumeInv
  PROVE  IsSeq(Picking!Choices)
<1>1. IsFiniteSet(Session) /\ IsFiniteSet(Here)
  BY PanelsAssumption, FS_Subset DEF PanelsAssumption
<1>2. \A set : IsFiniteSet(set) => IsFiniteSet(set \ Blank) /\ IsFiniteSet(set \cap like[text])
  BY FS_Subset
<1>3. IsSeq(Picking!visibleRows)
  BY <1>1, <1>2, OrderedIs DEF Picking!visibleRows
<1> QED BY <1>3 DEF Picking!Choices, ResumeInv

LEMMA ResumeStarts == Picking!ResumeInit => ResumeInv
BY DEF Picking!ResumeInit, ResumeInv, Picking!Searching

\* A finished frame highlights the row at the cursor of the rows it drew.
LEMMA FrameStays ==
  ASSUME ResumeInv, Picking!Frame
  PROVE  ResumeInv'
<1> DEFINE rows == Picking!Choices
           n == Picking!Count
           shown == SubSeq(rows, 1, n)
<1>1. PICK S : rows \in Seq(S)
  BY ChoicesAre DEF IsSeq
<1>2. /\ Limit \in Nat /\ Limit >= 1 /\ Len(rows) \in Nat
      /\ n \in Nat /\ n <= Len(rows) /\ (n = 0 => Len(rows) = 0)
  BY <1>1, PanelsAssumption DEF PanelsAssumption, Picking!Count
<1>3. /\ at' = IF at < n THEN at ELSE IF n = 0 THEN 0 ELSE n - 1
      /\ frame' = Picking!Chosen(shown, at') /\ at \in Nat
      /\ due' = FALSE /\ fresh' = FALSE
      /\ UNCHANGED <<like, tab, text, search, pending, picked>>
  BY DEF Picking!Frame, Picking!ClampedCursor, ResumeInv
<1> HIDE DEF rows, n
<1>4. Len(shown) = n /\ \A i \in 1 .. n : shown[i] = rows[i]
  BY <1>1, <1>2
<1> HIDE DEF shown
<1>5. at' \in Nat /\ (at' < n <=> at' < Len(rows)) /\ (at' < n => at' + 1 \in 1 .. n)
  BY <1>2, <1>3
<1>6. Picking!Chosen(shown, at') = Picking!Chosen(rows, at')
  BY <1>4, <1>5 DEF Picking!Chosen
<1>7. Picking!Chosen(rows, at') = Picking!Chosen(Picking!Choices, at)'
  BY <1>3 DEF Picking!Chosen, Picking!Choices, Picking!visibleRows, Picking!Recent, Picking!Searching,
     rows
<1> QED BY <1>3, <1>5, <1>6, <1>7 DEF ResumeInv, Picking!Searching

LEMMA ResumeInvStays == ResumeInv /\ (Picking!ResumeNext \/ UNCHANGED resume) => ResumeInv'
<1> SUFFICES ASSUME ResumeInv, Picking!ResumeNext \/ UNCHANGED resume PROVE ResumeInv'
  OBVIOUS
<1>1. ASSUME Picking!Key, at' \in Nat, search' \in {search, <<>>} PROVE ResumeInv'
  BY <1>1 DEF Picking!Key, ResumeInv, Picking!Searching
<1>2. at \in Nat
  BY DEF ResumeInv
<1>3. ASSUME Picking!Up \/ Picking!Down PROVE ResumeInv'
  <2>1. at' \in Nat
    BY <1>2, <1>3 DEF Picking!Up, Picking!Down
  <2> QED BY <1>1, <1>3, <2>1 DEF Picking!Up, Picking!Down
<1>7. ASSUME \/ Picking!Escape \/ Picking!Interrupt \/ Picking!Tab \/ Picking!Edit
             \/ Picking!runSearch \/ Picking!Enter
      PROVE ResumeInv'
  BY <1>1, <1>2, <1>7 DEF Picking!Escape, Picking!Interrupt, Picking!Tab, Picking!Edit,
     Picking!runSearch, Picking!Enter
<1>4. ASSUME Picking!Answered PROVE ResumeInv'
  <2>1. PICK found \in SUBSET Session : search' = <<Picking!Recent(found)>>
    BY <1>4 DEF Picking!Answered
  <2>2. IsFiniteSet(found)
    BY PanelsAssumption, FS_Subset DEF PanelsAssumption
  <2>3. IsSeq(search'[1])
    BY <2>1, <2>2, OrderedIs
  <2> QED BY <1>4, <2>3 DEF Picking!Answered, ResumeInv, Picking!Searching
<1>5. ASSUME Picking!SearchFails PROVE ResumeInv'
  <2>1. IsSeq(<<>>)
    <3>1. <<>> \in Seq({})
      OBVIOUS
    <3> QED BY <3>1 DEF IsSeq
  <2> QED BY <1>2, <1>5, <2>1 DEF Picking!SearchFails, ResumeInv, Picking!Searching
<1>6. ASSUME UNCHANGED resume PROVE ResumeInv'
  <2>1. Picking!Chosen(Picking!Choices, at)' = Picking!Chosen(Picking!Choices, at)
    BY <1>6 DEF resume, Picking!Searching, Picking!Chosen, Picking!Choices, Picking!visibleRows
  <2> QED BY <1>6, <2>1 DEF resume, ResumeInv, Picking!Searching
<1> QED BY <1>3, <1>4, <1>5, <1>6, <1>7, FrameStays DEF Picking!ResumeNext

\* Enter on a finished frame.
LEMMA EnterStep ==
  ASSUME ResumeInv, Picking!ResumeNext \/ UNCHANGED resume
  PROVE  Picking!Enters /\ ~due /\ ~fresh => picked' = frame
<1>1. ASSUME picked' \in {picked, Picking!Dismissed}
      PROVE ~Picking!Enters
  BY <1>1 DEF Picking!Enters, Picking!Browsing, Picking!Undecided, Picking!Dismissed
<1>2. CASE Picking!Enter
  BY <1>2 DEF Picking!Enter, ResumeInv
<1> QED
  BY <1>1, <1>2 DEF Picking!ResumeNext, Picking!Frame, Picking!Escape, Picking!Interrupt, Picking!Tab,
     Picking!Edit, Picking!Up, Picking!Down, Picking!runSearch, Picking!Answered, Picking!SearchFails,
     resume

-----------------------------------------------------------------------------
(* The rail                                                                *)

\* Named, so that the provers do not look into it.
Concatenates(a, b, c) == c = a \o b

\* Two sequences one behind the other.
LEMMA Joins ==
  ASSUME NEW a, IsSeq(a), NEW b, IsSeq(b), NEW c, Concatenates(a, b, c)
  PROVE  /\ IsSeq(c) /\ Len(c) = Len(a) + Len(b) /\ Len(a) \in Nat /\ Len(b) \in Nat
         /\ \A i \in DOMAIN a : i \in DOMAIN c /\ c[i] = a[i]
         /\ \A i \in DOMAIN b : Len(a) + i \in DOMAIN c /\ c[Len(a) + i] = b[i]
<1>1. PICK S, T : a \in Seq(S) /\ b \in Seq(T)
  BY DEF IsSeq
<1>2. a \in Seq(S \cup T) /\ b \in Seq(S \cup T)
  BY <1>1
<1>3. Follows(a, b, c, S \cup T)
  BY <1>2, Joined DEF Concatenates
<1>4. Len(a) \in Nat /\ Len(b) \in Nat /\ DOMAIN a = 1 .. Len(a) /\ DOMAIN b = 1 .. Len(b)
  BY <1>1
<1>5. /\ c \in Seq(S \cup T) /\ Len(c) = Len(a) + Len(b)
      /\ \A i \in 1 .. Len(a) : c[i] = a[i]
      /\ \A i \in 1 .. Len(b) : c[Len(a) + i] = b[i]
  BY <1>3 DEF Follows
<1>6. DOMAIN c = 1 .. Len(a) + Len(b)
  BY <1>5
<1>7. \A i \in 1 .. Len(a) : i \in 1 .. Len(a) + Len(b)
  BY <1>4
<1>8. \A i \in 1 .. Len(b) : Len(a) + i \in 1 .. Len(a) + Len(b)
  BY <1>4
<1>9. IsSeq(c)
  BY <1>5 DEF IsSeq
<1> QED BY <1>4, <1>5, <1>6, <1>7, <1>8, <1>9

\* A bounded set of numbers has a greatest member.
LEMMA GreatestOf ==
  ASSUME NEW n \in Nat, NEW S, S \subseteq 0 .. n, S # {}
  PROVE  \E i \in S : \A j \in S : j <= i
<1> DEFINE behind == {d \in 0 .. n : n - d \in S}
<1>1. PICK v \in S : v \in 0 .. n
  OBVIOUS
<1>2. n - v \in behind /\ behind \subseteq Nat
  BY <1>1
<1>3. PICK d \in behind : \A x \in behind : ~(<<x, d>> \in OpToRel(<, Nat))
  <2> HIDE DEF behind
  <2> QED BY <1>2, NatLessThanWellFounded, WFMin
<1>4. \A x \in behind : ~(x < d)
  BY <1>2, <1>3 DEF OpToRel
<1>5. n - d \in S /\ d \in 0 .. n
  OBVIOUS
<1>6. ASSUME NEW j \in S PROVE j <= n - d
  <2>1. n - j \in 0 .. n /\ n - (n - j) = j /\ j \in 0 .. n
    BY <1>1
  <2>2. n - j \in behind
    BY <2>1
  <2> HIDE DEF behind
  <2>3. ~(n - j < d)
    BY <1>4, <2>2
  <2> QED BY <1>5, <2>1, <2>3
<1> QED BY <1>5, <1>6

\* The first of the rows that are this one.
LEMMA IndexIs ==
  ASSUME NEW rows, IsSeq(rows), NEW r, NEW else \in Nat
  PROVE  Railing!IndexOf(rows, r, else) \in Nat
<1>1. CASE \E i \in DOMAIN rows : rows[i] = r
  <2> DEFINE S == {i \in Nat : i + 1 \in DOMAIN rows /\ rows[i + 1] = r}
  <2>1. PICK i \in DOMAIN rows : rows[i] = r
    BY <1>1
  <2>2. DOMAIN rows = 1 .. Len(rows) /\ Len(rows) \in Nat
    BY DEF IsSeq
  <2>3. i - 1 \in S
    BY <2>1, <2>2
  <2>4. PICK m \in S : \A x \in S : ~(<<x, m>> \in OpToRel(<, Nat))
    <3>1. S \subseteq Nat
      OBVIOUS
    <3> HIDE DEF S
    <3> QED BY <2>3, <3>1, NatLessThanWellFounded, WFMin
  <2>5. \A x \in S : ~(x < m)
    BY <2>4 DEF OpToRel
  <2>6. m \in 0 .. Len(rows) - 1 /\ rows[m + 1] = r
    BY <2>2
  <2>7. ASSUME NEW j \in 1 .. m, rows[j] = r PROVE FALSE
    <3>1. j - 1 \in S /\ j - 1 < m
      BY <2>2, <2>6, <2>7
    <3> HIDE DEF S
    <3> QED BY <2>5, <3>1
  <2> HIDE DEF S
  <2>8. \E k \in 0 .. Len(rows) - 1 : rows[k + 1] = r /\ \A j \in 1 .. k : rows[j] # r
    BY <2>6, <2>7
  <2> DEFINE found == CHOOSE k \in 0 .. Len(rows) - 1 : rows[k + 1] = r /\ \A j \in 1 .. k : rows[j] # r
  <2>9. found \in 0 .. Len(rows) - 1
    BY <2>8
  <2>10. Railing!IndexOf(rows, r, else) = found
    BY <1>1 DEF Railing!IndexOf
  <2> HIDE DEF found
  <2> QED BY <2>2, <2>9, <2>10
<1>2. CASE ~\E i \in DOMAIN rows : rows[i] = r
  BY <1>2 DEF Railing!IndexOf
<1> QED BY <1>1, <1>2

\* Those of a set, in the order of the list, are a sequence.
LEMMA KeptIs ==
  ASSUME IsSeq(order), NEW set
  PROVE  IsSeq(Railing!Kept(set))
<1> DEFINE where == {i \in DOMAIN order : order[i] \in set}
           kept == Railing!Kept(set)
<1>1. IsFiniteSet(where)
  <2>1. DOMAIN order = 1 .. Len(order) /\ Len(order) \in Nat
    BY DEF IsSeq
  <2>2. IsFiniteSet(1 .. Len(order))
    BY <2>1, FS_Interval
  <2> QED BY <2>1, <2>2, FS_Subset
<1>2. Cardinality(where) \in Nat /\ Railing!Cardinality(where) = Cardinality(where)
  BY <1>1, FS_CardinalityType DEF Railing!Cardinality, Cardinality
<1>3. kept = [n \in 1 .. Cardinality(where) |-> kept[n]]
  BY <1>2 DEF Railing!Kept
<1> HIDE DEF where, kept
<1>4. IsSeq(kept)
  BY <1>2, <1>3, Numbered
<1> QED BY <1>4 DEF kept

\* The first page reaches the last row that needs attention, up to the largest page.
LEMMA PageIs ==
  ASSUME NEW rows, IsSeq(rows), area \in Areas
  PROVE  /\ Railing!PageLimit(rows) \in Nat
         /\ \A i \in Railing!Attention(rows) : i <= PageMax => i <= Railing!PageLimit(rows)
<1> DEFINE marked == Railing!Attention(rows)
           last == CHOOSE i \in marked \cup {0} : \A j \in marked : j <= i
<1>1. Len(rows) \in Nat /\ marked \subseteq 1 .. Len(rows)
  BY DEF IsSeq, Railing!Attention
<1>2. last \in marked \cup {0} /\ \A j \in marked : j <= last
  <2> HIDE DEF marked
  <2>1. marked \cup {0} \subseteq 0 .. Len(rows)
    BY <1>1
  <2>2. \E i \in marked \cup {0} : \A j \in marked \cup {0} : j <= i
    BY <1>1, <2>1, GreatestOf
  <2>3. \E i \in marked \cup {0} : \A j \in marked : j <= i
    BY <2>2
  <2> QED BY <2>3
<1>3. Railing!PageLimit(rows) =
        IF last > Railing!BaseLimit THEN Railing!Lesser(PageMax, last) ELSE Railing!BaseLimit
  BY DEF Railing!PageLimit
<1>4. Railing!BaseLimit \in Nat /\ PageMax \in Nat
  BY PanelsAssumption DEF PanelsAssumption, Railing!BaseLimit, Railing!Lesser
<1> HIDE DEF marked, last
<1>5. last \in Nat
  BY <1>1, <1>2
<1>6. Railing!PageLimit(rows) \in Nat /\ \A i \in marked : i <= PageMax => i <= Railing!PageLimit(rows)
  BY <1>1, <1>2, <1>3, <1>4, <1>5 DEF Railing!Lesser
<1> QED BY <1>6 DEF marked

\* The rows of this directory that are shown.
PageShown == IF Railing!Filtered THEN Railing!Pick(RailHere) ELSE Railing!firstPage(Railing!Pick(RailHere))

\* The page reaches every row that needs attention, up to the greatest page.
LEMMA PageShownIs ==
  ASSUME IsSeq(order), area \in Areas
  PROVE  /\ IsSeq(Railing!Pick(RailHere)) /\ IsSeq(PageShown)
         /\ \A i \in Railing!Attention(Railing!Pick(RailHere)) :
              i <= PageMax => i \in DOMAIN PageShown /\ PageShown[i] = Railing!Pick(RailHere)[i]
<1> DEFINE rows == Railing!Pick(RailHere)
           n == Railing!Lesser(Len(rows), Railing!PageLimit(rows))
<1>1. IsSeq(rows)
  BY KeptIs DEF Railing!Pick
<1>2. \/ PageShown = rows
      \/ PageShown = SubSeq(rows, 1, n)
  BY DEF PageShown, Railing!firstPage
<1>3. Railing!Attention(rows) \subseteq DOMAIN rows
  BY DEF Railing!Attention
<1> HIDE DEF rows
<1>4. /\ Railing!PageLimit(rows) \in Nat
      /\ \A i \in Railing!Attention(rows) : i <= PageMax => i <= Railing!PageLimit(rows)
  BY <1>1, PageIs
<1>5. PICK S : rows \in Seq(S)
  BY <1>1 DEF IsSeq
<1>6. Len(rows) \in Nat /\ DOMAIN rows = 1 .. Len(rows) /\ n \in Nat /\ n <= Len(rows)
  BY <1>4, <1>5 DEF Railing!Lesser
<1>7. \A i \in Railing!Attention(rows) : i <= PageMax => i \in 1 .. n
  BY <1>3, <1>4, <1>6 DEF Railing!Lesser
<1> HIDE DEF n
<1>8. SubSeq(rows, 1, n) \in Seq(S) /\ DOMAIN SubSeq(rows, 1, n) = 1 .. n
      /\ \A i \in 1 .. n : SubSeq(rows, 1, n)[i] = rows[i]
  BY <1>5, <1>6
<1>9. IsSeq(PageShown)
  BY <1>1, <1>2, <1>8 DEF IsSeq
<1>10. \A i \in Railing!Attention(rows) : i <= PageMax => i \in DOMAIN PageShown /\ PageShown[i] = rows[i]
  BY <1>2, <1>3, <1>7, <1>8
<1> QED BY <1>1, <1>9, <1>10 DEF rows

\* The rows of the cursor: the first, the page, and what follows it.
LEMMA RowsAre ==
  ASSUME IsSeq(order), area \in Areas
  PROVE  /\ IsSeq(Railing!rowsOf) /\ Len(Railing!rowsOf) \in Nat /\ Len(Railing!rowsOf) >= 1
         /\ \A i \in DOMAIN PageShown :
              \E j \in DOMAIN Railing!rowsOf : Railing!rowsOf[j] = Railing!SessionRow(PageShown[i])
<1> DEFINE ordered == Railing!Pick(RailHere)
           foreign == IF allExpanded THEN Railing!Pick(RailElsewhere) ELSE <<>>
           more == \/ revealed /\ Len(ordered) > PageSize
                   \/ ~revealed /\ Len(PageShown) < Len(ordered)
           fst == <<Railing!NewRow>>
           snd == [i \in DOMAIN PageShown |-> Railing!SessionRow(PageShown[i])]
           third == IF more THEN <<Railing!MoreRow>> ELSE <<>>
           fourth == [i \in DOMAIN foreign |-> Railing!SessionRow(foreign[i])]
<1>1. Railing!rowsOf = fst \o snd \o third \o fourth
  BY DEF Railing!rowsOf, PageShown
<1>2. IsSeq(<<>>)
  <2>1. <<>> \in Seq({})
    OBVIOUS
  <2> QED BY <2>1 DEF IsSeq
<1>3. \A x : IsSeq(<<x>>) /\ Len(<<x>>) = 1
  <2>1. \A x : <<x>> \in Seq({x})
    OBVIOUS
  <2> QED BY <2>1 DEF IsSeq
<1>4. IsSeq(foreign)
  <2>1. IsSeq(Railing!Pick(RailElsewhere))
    BY KeptIs DEF Railing!Pick
  <2> QED BY <1>2, <2>1
<1>5. IsSeq(PageShown)
  BY PageShownIs
<1>6. ASSUME NEW s, IsSeq(s)
      PROVE  IsSeq([i \in DOMAIN s |-> Railing!SessionRow(s[i])])
  <2> DEFINE a == [i \in DOMAIN s |-> Railing!SessionRow(s[i])]
  <2>1. DOMAIN s = 1 .. Len(s) /\ Len(s) \in Nat
    BY <1>6 DEF IsSeq
  <2>2. a = [i \in 1 .. Len(s) |-> a[i]]
    BY <2>1
  <2> HIDE DEF a
  <2>3. IsSeq(a)
    BY <2>1, <2>2, Numbered
  <2> QED BY <2>3 DEF a
<1>7. IsSeq(fst) /\ Len(fst) = 1 /\ IsSeq(snd) /\ IsSeq(third) /\ IsSeq(fourth)
  <2>1. IsSeq(fst) /\ Len(fst) = 1
    BY <1>3
  <2>2. IsSeq(snd)
    BY <1>5, <1>6
  <2>3. IsSeq(third)
    BY <1>2, <1>3
  <2> HIDE DEF foreign
  <2>4. IsSeq(fourth)
    BY <1>4, <1>6
  <2> QED BY <2>1, <2>2, <2>3, <2>4
<1>8. DOMAIN snd = DOMAIN PageShown /\ \A i \in DOMAIN PageShown : snd[i] = Railing!SessionRow(PageShown[i])
  OBVIOUS
<1> HIDE DEF fst, snd, third, fourth
<1> DEFINE two == fst \o snd
           three == two \o third
<1>9. /\ IsSeq(two) /\ Len(two) \in Nat /\ Len(two) >= 1
      /\ \A i \in DOMAIN snd : \E j \in DOMAIN two : two[j] = snd[i]
  <2>1. /\ IsSeq(two) /\ Len(two) = Len(fst) + Len(snd) /\ Len(snd) \in Nat
        /\ \A i \in DOMAIN snd : Len(fst) + i \in DOMAIN two /\ two[Len(fst) + i] = snd[i]
    <3>1. IsSeq(fst) /\ IsSeq(snd) /\ Concatenates(fst, snd, two)
      BY <1>7 DEF Concatenates
    <3> HIDE DEF two
    <3> QED BY <3>1, Joins
  <2> HIDE DEF two
  <2> QED BY <1>7, <2>1
<1> HIDE DEF two
<1>10. /\ IsSeq(three) /\ Len(three) \in Nat /\ Len(three) >= 1
       /\ \A i \in DOMAIN two : \E j \in DOMAIN three : three[j] = two[i]
  <2>1. /\ IsSeq(three) /\ Len(three) = Len(two) + Len(third) /\ Len(third) \in Nat
        /\ \A i \in DOMAIN two : i \in DOMAIN three /\ three[i] = two[i]
    <3>1. Concatenates(two, third, three)
      BY DEF Concatenates
    <3> HIDE DEF three
    <3> QED BY <1>7, <1>9, <3>1, Joins
  <2> HIDE DEF three
  <2> QED BY <1>9, <2>1
<1> HIDE DEF three
<1>11. /\ IsSeq(Railing!rowsOf) /\ Len(Railing!rowsOf) \in Nat /\ Len(Railing!rowsOf) >= 1
       /\ \A i \in DOMAIN three : \E j \in DOMAIN Railing!rowsOf : Railing!rowsOf[j] = three[i]
  <2>1. Concatenates(three, fourth, Railing!rowsOf)
    BY <1>1 DEF three, two, Concatenates
  <2>2. /\ IsSeq(Railing!rowsOf) /\ Len(Railing!rowsOf) = Len(three) + Len(fourth) /\ Len(fourth) \in Nat
        /\ \A i \in DOMAIN three : i \in DOMAIN Railing!rowsOf /\ Railing!rowsOf[i] = three[i]
    BY <1>7, <1>10, <2>1, Joins
  <2> QED BY <1>10, <2>2
<1>12. ASSUME NEW i \in DOMAIN PageShown
       PROVE  \E j \in DOMAIN Railing!rowsOf : Railing!rowsOf[j] = Railing!SessionRow(PageShown[i])
  <2>1. PICK j \in DOMAIN two : two[j] = snd[i]
    BY <1>8, <1>9
  <2>2. PICK k \in DOMAIN three : three[k] = two[j]
    BY <1>10
  <2>3. PICK l \in DOMAIN Railing!rowsOf : Railing!rowsOf[l] = three[k]
    BY <1>11
  <2>4. Railing!rowsOf[l] = Railing!SessionRow(PageShown[i])
    BY <1>8, <2>1, <2>2, <2>3
  <2> QED BY <2>4
<1> QED BY <1>11, <1>12

\* A frame's window holds the cursor that is on a row.
LEMMA WindowFollows ==
  ASSUME NEW rows, Len(rows) \in Nat, Len(rows) >= 1, NEW where \in Nat, offset \in Nat, area \in Areas
  PROVE  LET first == Railing!clampWindow(rows, where)
         IN  /\ first \in Nat
             /\ where < Len(rows) => where \in first .. first + area - 1
<1> DEFINE n == Len(rows)
           scroll == IF where < n - 1 THEN where ELSE n - 1
           up == IF scroll < offset THEN scroll ELSE offset
           down == IF scroll >= up + area THEN scroll - area + 1 ELSE up
           low == IF down < n - area THEN down ELSE n - area
           first == Railing!clampWindow(rows, where)
<1>1. area \in Nat /\ area >= 1
  BY PanelsAssumption DEF PanelsAssumption
<1>2. first = IF n <= area THEN 0 ELSE IF 0 > low THEN 0 ELSE low
  BY DEF Railing!clampWindow, Railing!Lesser, Railing!Larger
<1> HIDE DEF n, first
<1>3. n \in Nat /\ n >= 1
  BY DEF n
<1>4. first \in Nat /\ (where < n => first <= where /\ where <= first + area - 1)
  BY <1>1, <1>2, <1>3
<1>5. where < n => where \in first .. first + area - 1
  BY <1>1, <1>4
<1> QED BY <1>4, <1>5 DEF n, first

-----------------------------------------------------------------------------
\* The types of the rail.
RailTypes == IsSeq(order) /\ area \in Areas /\ railCursor \in Nat /\ offset \in Nat
\* The rail has a row: the one that opens a new Session.
RowsOf == IsSeq(Railing!rowsOf) /\ Len(Railing!rowsOf) \in Nat /\ Len(Railing!rowsOf) >= 1
OrderThere == IsSeq(order) /\ area \in Areas

\* A rail drawn since the last change shows the row under its cursor.
RailInv == RailTypes /\ (~dirty => Railing!CursorPainted)

\* The rows of the rail are a sequence, and never none.
LEMMA RowsThere == OrderThere => RowsOf
BY RowsAre DEF OrderThere, RowsOf

LEMMA RailStarts == Railing!RailInit => RailInv
<1>1. IsSeq(<<>>)
  <2>1. <<>> \in Seq({})
    OBVIOUS
  <2> QED BY <2>1 DEF IsSeq
<1> QED BY <1>1 DEF Railing!RailInit, RailInv, RailTypes

LEMMA RailInvStays == RailInv /\ (Railing!RailNext \/ UNCHANGED rail) => RailInv'
<1> SUFFICES ASSUME RailInv, Railing!RailNext \/ UNCHANGED rail PROVE RailInv'
  OBVIOUS
<1>1. OrderThere' => RowsOf'
  BY RowsThere, PTL
<1>2. RowsOf
  BY RowsThere DEF OrderThere, RailInv, RailTypes
<1>3. ASSUME dirty', IsSeq(order'), area' \in Areas, offset' \in Nat, RowsOf' => railCursor' \in Nat
      PROVE RailInv'
  <2>1. RowsOf'
    BY <1>1, <1>3 DEF OrderThere
  <2> QED BY <1>3, <2>1 DEF RailInv, RailTypes
<1>4. ASSUME NEW r, Railing!CursorTo(r), RowsOf' PROVE railCursor' \in Nat
  <2>1. railCursor' = Railing!IndexOf(Railing!rowsOf', r, railCursor)
    BY <1>4 DEF Railing!CursorTo
  <2>2. railCursor \in Nat
    BY DEF RailInv, RailTypes
  <2> QED BY <1>4, <2>1, <2>2, IndexIs DEF RowsOf
<1>5. ASSUME Railing!render PROVE RailInv'
  <2> DEFINE rows == Railing!rowsOf
  <2>1. /\ railCursor' = Railing!ClampedCursor(rows) /\ offset' = Railing!clampWindow(rows, railCursor')
        /\ UNCHANGED <<order, area>>
    BY <1>5 DEF Railing!render
  <2>7. UNCHANGED <<order, running, current, matches, searching, allExpanded, revealed, area>>
    BY <1>5 DEF Railing!render
  <2>2. Len(rows) \in Nat /\ Len(rows) >= 1
    BY <1>2 DEF RowsOf
  <2>3. rows' = rows
    BY <2>7 DEF Railing!rowsOf, Railing!Pick, Railing!Filtered, Railing!Kept, Railing!firstPage,
       Railing!PageLimit, Railing!Attention, Railing!BaseLimit
  <2> HIDE DEF rows
  <2>4. railCursor' \in Nat
    BY <2>1, <2>2 DEF Railing!ClampedCursor, Railing!Lesser, RailInv, RailTypes
  <2>5. offset' \in Nat /\ (railCursor' < Len(rows) => railCursor' \in offset' .. offset' + area - 1)
    BY <2>1, <2>2, <2>4, WindowFollows DEF RailInv, RailTypes
  <2>6. Railing!CursorPainted'
    BY <2>1, <2>3, <2>5 DEF Railing!CursorPainted, rows
  <2> QED BY <2>1, <2>4, <2>5, <2>6 DEF RailInv, RailTypes
<1>6. ASSUME Railing!Listed PROVE RailInv'
  <2>1. PICK s \in Railing!Sessions : order' \in {<<s>> \o Railing!Without(s), Railing!Without(s), order}
    BY <1>6 DEF Railing!Listed
  <2>2. IsSeq(order) /\ IsSeq(Railing!Without(s)) /\ IsSeq(<<s>>)
    <3>1. <<s>> \in Seq({s})
      OBVIOUS
    <3> QED BY <3>1, KeptIs DEF RailInv, RailTypes, Railing!Without, IsSeq
  <2>3. IsSeq(order')
    <3>1. \A a, b : IsSeq(a) /\ IsSeq(b) => IsSeq(a \o b)
      BY Joins DEF Concatenates
    <3> QED BY <2>1, <2>2, <3>1
  <2> QED BY <1>3, <1>4, <1>6, <2>3 DEF Railing!Listed, Railing!Touch, RailInv, RailTypes
<1>7. ASSUME Railing!SessionOpened PROVE RailInv'
  BY <1>3, <1>4, <1>7 DEF Railing!SessionOpened, Railing!Touch, RailInv, RailTypes
<1>8. ASSUME Railing!Resized PROVE RailInv'
  BY <1>3, <1>8 DEF Railing!Resized, Railing!Touch, RailInv, RailTypes
<1>9. ASSUME Railing!startEditing PROVE RailInv'
  BY <1>3, <1>4, <1>9 DEF Railing!startEditing, Railing!Touch, RailInv, RailTypes
<1>10. ASSUME NEW delta \in {-1, 1}, Railing!move(delta) PROVE RailInv'
  <2>1. railCursor' \in Nat
    BY <1>2, <1>10 DEF Railing!move, Railing!Larger, Railing!Lesser, RowsOf, RailInv, RailTypes
  <2> QED BY <1>3, <1>10, <2>1 DEF Railing!move, Railing!Touch, RailInv, RailTypes
<1>11. ASSUME Railing!StartFilter PROVE RailInv'
  BY <1>3, <1>11 DEF Railing!StartFilter, Railing!Touch, RailInv, RailTypes
<1>12. ASSUME Railing!setQuery PROVE RailInv'
  <2>1. railCursor' \in Nat /\ offset' \in Nat
    BY <1>12 DEF Railing!setQuery
  <2> QED BY <1>3, <1>12, <2>1 DEF Railing!setQuery, Railing!Touch, RailInv, RailTypes
<1>13. ASSUME NEW moves \in BOOLEAN, Railing!fold(moves), Railing!Touch PROVE RailInv'
  <2>1. RowsOf' => railCursor' \in Nat
    BY <1>13 DEF Railing!fold, RowsOf, RailInv, RailTypes
  <2> QED BY <1>3, <1>13, <2>1 DEF Railing!fold, Railing!Touch, RailInv, RailTypes
<1>14. ASSUME Railing!reveal, Railing!Touch PROVE RailInv'
  BY <1>3, <1>4, <1>14 DEF Railing!reveal, Railing!Touch, RailInv, RailTypes
<1>15. ASSUME UNCHANGED rail PROVE RailInv'
  <2>1. Railing!rowsOf' = Railing!rowsOf
    BY <1>15 DEF rail, Railing!rowsOf, Railing!Pick, Railing!Filtered, Railing!Kept, Railing!firstPage,
       Railing!PageLimit, Railing!Attention, Railing!BaseLimit
  <2> QED BY <1>15, <2>1 DEF rail, RailInv, RailTypes, Railing!CursorPainted
<1> QED
  BY <1>5, <1>6, <1>7, <1>8, <1>9, <1>10, <1>11, <1>12, <1>13, <1>14, <1>15
  DEF Railing!RailNext, Railing!activate

\* The invariant is enough for every row that needs attention to be in reach.
LEMMA RailHolds == RailInv => Railing!RowsInReach
<1> SUFFICES ASSUME RailInv PROVE Railing!RowsInReach
  OBVIOUS
<1>1. IsSeq(order) /\ area \in Areas
  BY DEF RailInv, RailTypes
<1>2. Railing!AttentionBeforeFold
  <2> SUFFICES ASSUME NEW i \in Railing!Attention(Railing!Pick(RailHere)), i <= PageMax
               PROVE  \E j \in DOMAIN Railing!rowsOf :
                        Railing!rowsOf[j] = Railing!SessionRow(Railing!Pick(RailHere)[i])
    BY DEF Railing!AttentionBeforeFold
  <2>1. i \in DOMAIN PageShown /\ PageShown[i] = Railing!Pick(RailHere)[i]
    BY <1>1, PageShownIs
  <2> QED BY <1>1, <2>1, RowsAre
<1> QED BY <1>2 DEF RailInv, Railing!RowsInReach

-----------------------------------------------------------------------------
(* The editor's files                                                      *)

\* The windows that publish the editor now, and a part of the home while one writes it.
Publishers == Publishing!Publishing
Files(v) == [of |-> {v}, whole |-> TRUE]
Begun(v) == [of |-> {v}, whole |-> FALSE]

\* What a window that published alone has written so far.
Progress(u) ==
    /\ doing[u] > 1 => home["binaries"] = Files(version[u])
    /\ doing[u] = 3 => home["runtime"] = Publishing!Absent
    /\ doing[u] = 4 => home["runtime"] = Begun(version[u]) /\ u \notin hurt
    /\ doing[u] > 4 => home["runtime"] = Files(version[u])
    /\ doing[u] = 6 => home["plugins"] = Publishing!Absent
    /\ doing[u] = 7 => home["plugins"] = Begun(version[u]) /\ u \notin hurt
    /\ doing[u] > 7 => home["plugins"] = Files(version[u])

\* The types of the editor's home.
EditorTypes ==
    /\ version \in [Window -> Package] /\ doing \in [Window -> 0 .. 9]
    /\ DOMAIN home = Publishing!Part
    /\ marker \in Package \cup {0}

\* A window that publishes alone finds what it has written. While no two overlapped
\* and only those of the marker's version ended early, the marker stands for a whole home.
EditorInv ==
    /\ EditorTypes
    /\ \A u \in alone : Publishers = {u} /\ Progress(u)
    /\ ~overlapped => Publishers \subseteq alone
    /\ ~overlapped /\ marker # 0 /\ torn \subseteq {marker} =>
         /\ Publishers = {} => Publishing!Whole(marker)
         /\ \A u \in Publishers : version[u] # marker

\* A window publishes from its first step to its last.
LEMMA PublishersAre ==
  /\ Publishers = {u \in Window : doing[u] \in 1 .. 8}
  /\ Publishers' = {u \in Window : doing'[u] \in 1 .. 8}
<1>1. DOMAIN Publishing!Steps = 1 .. 8
  BY DEF Publishing!Steps
<1> QED BY <1>1 DEF Publishers, Publishing!Publishing

LEMMA EditorStarts == Publishing!HomeInit => EditorInv
<1> SUFFICES ASSUME Publishing!HomeInit PROVE EditorInv
  OBVIOUS
<1>1. Publishers = {}
  BY PublishersAre DEF Publishing!HomeInit, Publishing!Idle
<1> QED BY <1>1 DEF Publishing!HomeInit, Publishing!Idle, EditorInv, EditorTypes

\* A window publishes step by step.
StepOf(u) ==
    /\ doing[u] \in 1 .. 7 /\ doing' = [doing EXCEPT ![u] = doing[u] + 1]
    /\ UNCHANGED <<version, marker, alone, torn, overlapped>>

LEMMA PublisherSteps ==
  ASSUME EditorInv, NEW u \in Window, StepOf(u), DOMAIN home' = Publishing!Part,
         u \in alone => Progress(u)'
  PROVE  EditorInv'
<1>1. Publishers' = Publishers /\ u \in Publishers
  <2>1. Publishers' = {v \in Window : doing'[v] \in 1 .. 8}
    BY PublishersAre
  <2>2. \A v \in Window : doing'[v] \in 1 .. 8 <=> doing[v] \in 1 .. 8
    BY DEF StepOf, EditorInv, EditorTypes
  <2> QED BY <2>1, <2>2, PublishersAre DEF StepOf
<1>2. EditorTypes'
  BY DEF StepOf, EditorInv, EditorTypes
<1>3. \A v \in alone : v = u
  BY <1>1 DEF EditorInv
<1>4. \A v \in alone' : Publishers' = {v} /\ Progress(v)'
  BY <1>1, <1>3 DEF StepOf, EditorInv
<1> QED BY <1>1, <1>2, <1>4 DEF StepOf, EditorInv

LEMMA NowIs ==
  ASSUME EditorTypes, NEW u \in Window
  PROVE  /\ Publishing!Now(u, "install") => doing[u] = 1
         /\ Publishing!Now(u, "remove") => \/ doing[u] = 2 /\ Publishing!PartOf(u) = "runtime"
                                           \/ doing[u] = 5 /\ Publishing!PartOf(u) = "plugins"
         /\ Publishing!Now(u, "copy") => \/ doing[u] = 3 /\ Publishing!PartOf(u) = "runtime"
                                         \/ doing[u] = 6 /\ Publishing!PartOf(u) = "plugins"
         /\ Publishing!Now(u, "copied") => \/ doing[u] = 4 /\ Publishing!PartOf(u) = "runtime"
                                           \/ doing[u] = 7 /\ Publishing!PartOf(u) = "plugins"
         /\ Publishing!Now(u, "mark") => doing[u] = 8
<1>1. doing[u] \in {0, 1, 2, 3, 4, 5, 6, 7, 8, 9}
  BY DEF EditorTypes
<1> QED BY <1>1 DEF Publishing!Now, Publishing!PartOf, Publishing!Steps

LEMMA InstallStays ==
  ASSUME EditorInv, NEW u \in Window, Publishing!installBinary(u)
  PROVE  EditorInv'
<1>1. doing[u] = 1
  BY NowIs DEF Publishing!installBinary, EditorInv
<1>2. StepOf(u)
  BY <1>1 DEF StepOf, Publishing!installBinary, Publishing!Go, Publishing!Ghosts
<1>3. /\ DOMAIN home' = Publishing!Part /\ home'["binaries"] = Files(version[u]) /\ doing'[u] = 2
      /\ version' = version
  BY <1>1 DEF Publishing!installBinary, Publishing!Go, Files, EditorInv, EditorTypes, Publishing!Part
<1>4. Progress(u)'
  BY <1>3 DEF Progress, Files
<1> QED BY <1>2, <1>3, <1>4, PublisherSteps

LEMMA RemoveStays ==
  ASSUME EditorInv, NEW u \in Window, Publishing!Remove(u)
  PROVE  EditorInv'
<1>1. \/ doing[u] = 2 /\ Publishing!PartOf(u) = "runtime"
      \/ doing[u] = 5 /\ Publishing!PartOf(u) = "plugins"
  BY NowIs DEF Publishing!Remove, EditorInv
<1>2. StepOf(u)
  BY <1>1 DEF StepOf, Publishing!Remove, Publishing!Go, Publishing!Ghosts
<1>3. /\ DOMAIN home' = Publishing!Part /\ home'[Publishing!PartOf(u)] = Publishing!Absent
      /\ \A part \in Publishing!Part \ {Publishing!PartOf(u)} : home'[part] = home[part]
      /\ doing'[u] = doing[u] + 1 /\ version' = version
  BY <1>1 DEF Publishing!Remove, Publishing!Go, EditorInv, EditorTypes, Publishing!Part
<1>4. u \in alone => Progress(u)'
  <2>1. CASE doing[u] = 2
    <3>1. home'["runtime"] = Publishing!Absent /\ home'["binaries"] = home["binaries"] /\ doing'[u] = 3
      BY <1>1, <1>3, <2>1 DEF Publishing!Part
    <3> QED BY <1>3, <2>1, <3>1 DEF EditorInv, Progress, Files, Publishing!Absent
  <2>2. CASE doing[u] = 5
    <3>1. /\ home'["plugins"] = Publishing!Absent /\ home'["binaries"] = home["binaries"]
          /\ home'["runtime"] = home["runtime"] /\ doing'[u] = 6
      BY <1>1, <1>3, <2>2 DEF Publishing!Part
    <3> QED BY <1>3, <2>2, <3>1 DEF EditorInv, Progress, Files, Publishing!Absent
  <2> QED BY <1>1, <2>1, <2>2
<1> QED BY <1>2, <1>3, <1>4, PublisherSteps

LEMMA CopyStays ==
  ASSUME EditorInv, NEW u \in Window, Publishing!Copy(u)
  PROVE  EditorInv'
<1>1. \/ doing[u] = 3 /\ Publishing!PartOf(u) = "runtime"
      \/ doing[u] = 6 /\ Publishing!PartOf(u) = "plugins"
  BY NowIs DEF Publishing!Copy, EditorInv
<1>2. StepOf(u)
  BY <1>1 DEF StepOf, Publishing!Copy, Publishing!Go, Publishing!Ghosts
<1>3. home'[Publishing!PartOf(u)] =
        [of |-> home[Publishing!PartOf(u)].of \cup {version[u]}, whole |-> FALSE]
  BY <1>1 DEF Publishing!Copy, Publishing!Go, EditorInv, EditorTypes, Publishing!Part
<1>6. /\ DOMAIN home' = Publishing!Part
      /\ \A part \in Publishing!Part \ {Publishing!PartOf(u)} : home'[part] = home[part]
      /\ doing'[u] = doing[u] + 1 /\ version' = version /\ u \notin hurt'
  BY <1>1 DEF Publishing!Copy, Publishing!Go, EditorInv, EditorTypes, Publishing!Part
<1>4. u \in alone => home'[Publishing!PartOf(u)] = Begun(version[u])
  <2> SUFFICES ASSUME u \in alone PROVE home'[Publishing!PartOf(u)] = Begun(version[u])
    OBVIOUS
  <2>1. home[Publishing!PartOf(u)] = Publishing!Absent
    BY <1>1 DEF EditorInv, Progress
  <2>2. Publishing!Absent.of \cup {version[u]} = {version[u]}
    BY DEF Publishing!Absent
  <2> QED BY <1>3, <2>1, <2>2 DEF Begun
<1>5. u \in alone => Progress(u)'
  <2>1. CASE doing[u] = 3
    <3>1. /\ u \in alone => home'["runtime"] = Begun(version[u])
          /\ home'["binaries"] = home["binaries"] /\ doing'[u] = 4
      BY <1>1, <1>6, <1>4, <2>1 DEF Publishing!Part
    <3> QED BY <1>6, <2>1, <3>1 DEF EditorInv, Progress, Files, Begun
  <2>2. CASE doing[u] = 6
    <3>1. /\ u \in alone => home'["plugins"] = Begun(version[u])
          /\ home'["binaries"] = home["binaries"]
          /\ home'["runtime"] = home["runtime"] /\ doing'[u] = 7
      BY <1>1, <1>6, <1>4, <2>2 DEF Publishing!Part
    <3> QED BY <1>6, <2>2, <3>1 DEF EditorInv, Progress, Files, Begun
  <2> QED BY <1>1, <2>1, <2>2
<1> QED BY <1>2, <1>6, <1>5, PublisherSteps

LEMMA CopiedStays ==
  ASSUME EditorInv, NEW u \in Window, Publishing!Copied(u)
  PROVE  EditorInv'
<1>1. \/ doing[u] = 4 /\ Publishing!PartOf(u) = "runtime"
      \/ doing[u] = 7 /\ Publishing!PartOf(u) = "plugins"
  BY NowIs DEF Publishing!Copied, EditorInv
<1>2. StepOf(u)
  BY <1>1 DEF StepOf, Publishing!Copied, Publishing!Go, Publishing!Ghosts
<1>3. /\ DOMAIN home' = Publishing!Part
      /\ home'[Publishing!PartOf(u)] =
           [of |-> home[Publishing!PartOf(u)].of \cup {version[u]}, whole |-> u \notin hurt]
      /\ \A part \in Publishing!Part \ {Publishing!PartOf(u)} : home'[part] = home[part]
      /\ doing'[u] = doing[u] + 1 /\ version' = version
  BY <1>1 DEF Publishing!Copied, Publishing!Go, EditorInv, EditorTypes, Publishing!Part
<1>4. u \in alone => home'[Publishing!PartOf(u)] = Files(version[u])
  <2> SUFFICES ASSUME u \in alone PROVE home'[Publishing!PartOf(u)] = Files(version[u])
    OBVIOUS
  <2>1. home[Publishing!PartOf(u)] = Begun(version[u]) /\ u \notin hurt
    BY <1>1 DEF EditorInv, Progress
  <2>2. Begun(version[u]).of \cup {version[u]} = {version[u]} /\ (u \notin hurt) = TRUE
    BY <2>1 DEF Begun
  <2> QED BY <1>3, <2>1, <2>2 DEF Files
<1>5. u \in alone => Progress(u)'
  <2>1. CASE doing[u] = 4
    <3>1. /\ u \in alone => home'["runtime"] = Files(version[u])
          /\ home'["binaries"] = home["binaries"] /\ doing'[u] = 5
      BY <1>1, <1>3, <1>4, <2>1 DEF Publishing!Part
    <3> QED BY <1>3, <2>1, <3>1 DEF EditorInv, Progress, Files
  <2>2. CASE doing[u] = 7
    <3>1. /\ u \in alone => home'["plugins"] = Files(version[u])
          /\ home'["binaries"] = home["binaries"]
          /\ home'["runtime"] = home["runtime"] /\ doing'[u] = 8
      BY <1>1, <1>3, <1>4, <2>2 DEF Publishing!Part
    <3> QED BY <1>3, <2>2, <3>1 DEF EditorInv, Progress, Files
  <2> QED BY <1>1, <2>1, <2>2
<1> QED BY <1>2, <1>3, <1>5, PublisherSteps

\* The marker is written last, over a home that is whole when nobody else published.
LEMMA MarkStays ==
  ASSUME EditorInv, NEW u \in Window, Publishing!Mark(u)
  PROVE  EditorInv'
<1>1. doing[u] = 8
  BY NowIs DEF Publishing!Mark, EditorInv
<1>2. /\ doing' = [doing EXCEPT ![u] = 9] /\ marker' = version[u] /\ torn' = {}
      /\ overlapped' = (overlapped /\ u \notin alone) /\ alone' = alone \ {u}
      /\ UNCHANGED <<version, home, hurt>>
  BY DEF Publishing!Mark, Publishing!Go, Publishing!Ready, Publishing!Steps
<1>3. u \in Publishers /\ Publishers' = Publishers \ {u}
  <2>1. Publishers' = {v \in Window : doing'[v] \in 1 .. 8}
    BY PublishersAre
  <2>2. \A v \in Window : doing'[v] \in 1 .. 8 <=> doing[v] \in 1 .. 8 /\ v # u
    BY <1>2 DEF EditorInv, EditorTypes
  <2> QED BY <1>1, <2>1, <2>2, PublishersAre
<1>4. EditorTypes'
  BY <1>2 DEF EditorInv, EditorTypes
<1>5. \A v \in alone : v = u
  BY <1>3 DEF EditorInv
<1>6. alone' = {}
  BY <1>2, <1>5
<1>7. ~overlapped' => u \in alone
  BY <1>2, <1>3 DEF EditorInv
<1>8. u \in alone => Publishing!Whole(version[u]) /\ Publishers' = {}
  <2> SUFFICES ASSUME u \in alone PROVE Publishing!Whole(version[u]) /\ Publishers' = {}
    OBVIOUS
  <2>1. Publishers = {u} /\ Progress(u)
    BY DEF EditorInv
  <2>2. Publishing!Whole(version[u])
    BY <1>1, <2>1 DEF Progress, Files, Publishing!Whole, Publishing!Part
  <2> QED BY <1>3, <2>1, <2>2
<1>9. Publishing!Whole(version[u]) => Publishing!Whole(marker)'
  BY <1>2 DEF Publishing!Whole
<1> QED BY <1>4, <1>6, <1>7, <1>8, <1>9 DEF EditorInv

\* A window that finds its package published is ready; any other publishes.
LEMMA PrepareStays ==
  ASSUME EditorInv, NEW u \in Window, Publishing!prepare(u)
  PROVE  EditorInv'
<1>1. /\ doing[u] = 0 /\ UNCHANGED <<version, home, hurt, marker, torn>>
  BY DEF Publishing!prepare, Publishing!Idle, Publishing!Files, Publishing!Ghosts
<1>2. u \notin Publishers
  BY <1>1, PublishersAre
<1>3. Publishing!Whole(marker)' = Publishing!Whole(marker)
  BY <1>1 DEF Publishing!Whole
<1>4. Publishers' = {v \in Window : doing'[v] \in 1 .. 8}
  BY PublishersAre
<1>5. CASE Publishing!published(u)
  <2>1. doing' = [doing EXCEPT ![u] = 9] /\ UNCHANGED <<alone, torn, overlapped>>
    BY <1>5 DEF Publishing!prepare, Publishing!Go, Publishing!Ready, Publishing!Steps, Publishing!Ghosts
  <2>2. \A v \in Window : doing'[v] \in 1 .. 8 <=> doing[v] \in 1 .. 8
    BY <1>1, <2>1 DEF EditorInv, EditorTypes
  <2>3. Publishers' = Publishers
    BY <1>4, <2>2, PublishersAre
  <2>4. EditorTypes'
    BY <1>1, <2>1 DEF EditorInv, EditorTypes
  <2>5. \A v \in alone : Progress(v)'
    <3> SUFFICES ASSUME NEW v \in alone PROVE Progress(v)'
      OBVIOUS
    <3>1. v \in Publishers /\ Progress(v)
      BY DEF EditorInv
    <3>2. doing'[v] = doing[v]
      BY <1>2, <2>1, <3>1, PublishersAre DEF EditorInv, EditorTypes
    <3> QED BY <1>1, <3>1, <3>2 DEF Progress, Files, Begun, Publishing!Absent
  <2> QED BY <1>1, <1>3, <2>1, <2>3, <2>4, <2>5 DEF EditorInv
<1>6. CASE ~Publishing!published(u)
  <2>1. /\ doing' = [doing EXCEPT ![u] = 1]
        /\ alone' = IF Publishers = {} THEN {u} ELSE {}
        /\ overlapped' = (overlapped \/ Publishers # {})
    BY <1>6 DEF Publishing!prepare, Publishing!Go, Publishers
  <2>2. Publishers' = Publishers \cup {u}
    <3>1. \A v \in Window : doing'[v] \in 1 .. 8 <=> doing[v] \in 1 .. 8 \/ v = u
      BY <2>1 DEF EditorInv, EditorTypes
    <3> QED BY <1>4, <3>1, PublishersAre
  <2>3. EditorTypes'
    BY <1>1, <2>1 DEF EditorInv, EditorTypes
  <2>4. Progress(u)'
    <3>1. doing'[u] = 1
      BY <2>1 DEF EditorInv, EditorTypes
    <3> QED BY <3>1 DEF Progress
  <2>5. \A v \in alone' : Publishers' = {v} /\ Progress(v)'
    BY <2>1, <2>2, <2>4
  <2>6. ~overlapped' => Publishers' \subseteq alone'
    BY <2>1, <2>2
  <2>7. ASSUME ~overlapped', marker' # 0, torn' \subseteq {marker'} PROVE version'[u] # marker' /\ Publishers' = {u}
    <3>1. Publishing!Whole(marker) /\ Publishers = {}
      BY <1>1, <2>1, <2>7 DEF EditorInv
    <3>2. home["runtime"].of # {} /\ home["binaries"].of # {}
      BY <3>1 DEF Publishing!Whole, Publishing!Part
    <3> QED BY <1>1, <1>6, <2>2, <3>1, <3>2 DEF Publishing!published
  <2> QED BY <2>2, <2>3, <2>5, <2>6, <2>7 DEF EditorInv
<1> QED BY <1>5, <1>6

\* A window dies, or a step is refused.
LEMMA StopsStays ==
  ASSUME EditorInv, NEW u \in Window, Publishing!Stops(u)
  PROVE  EditorInv'
<1>1. /\ doing' = [doing EXCEPT ![u] = 0] /\ alone' = alone \ {u}
      /\ torn' = torn \cup (IF u \in Publishers THEN {version[u]} ELSE {})
      /\ UNCHANGED <<home, hurt, marker, overlapped>>
  BY DEF Publishing!Stops, Publishing!Go, Publishing!Idle, Publishing!Files, Publishers
<1>2. version' \in [Window -> Package] /\ \A v \in Window \ {u} : version'[v] = version[v]
  BY DEF Publishing!Stops, EditorInv, EditorTypes
<1>3. Publishers' = Publishers \ {u}
  <2>1. Publishers' = {v \in Window : doing'[v] \in 1 .. 8}
    BY PublishersAre
  <2>2. \A v \in Window : doing'[v] \in 1 .. 8 <=> doing[v] \in 1 .. 8 /\ v # u
    BY <1>1 DEF EditorInv, EditorTypes
  <2> QED BY <2>1, <2>2, PublishersAre
<1>4. EditorTypes'
  <2>1. doing' \in [Window -> 0 .. 9]
    BY <1>1 DEF EditorInv, EditorTypes
  <2>2. home' = home /\ marker' = marker
    BY <1>1
  <2> QED BY <1>2, <2>1, <2>2 DEF EditorInv, EditorTypes
<1>5. Publishing!Whole(marker)' = Publishing!Whole(marker)
  BY <1>1 DEF Publishing!Whole
<1>6. ASSUME NEW v \in alone' PROVE Publishers' = {v} /\ Progress(v)'
  <2>1. v # u /\ Publishers = {v} /\ Progress(v)
    BY <1>1, <1>6 DEF EditorInv
  <2>2. v \in Window
    BY <2>1, PublishersAre
  <2>3. doing'[v] = doing[v] /\ version'[v] = version[v]
    BY <1>1, <1>2, <2>1, <2>2 DEF EditorInv, EditorTypes
  <2>4. Publishers' = {v}
    BY <1>3, <2>1
  <2> QED BY <1>1, <2>1, <2>3, <2>4 DEF Progress, Files, Begun, Publishing!Absent
<1>7. ~overlapped' => Publishers' \subseteq alone'
  BY <1>1, <1>3 DEF EditorInv
<1>8. ASSUME ~overlapped', marker' # 0, torn' \subseteq {marker'}
      PROVE  /\ Publishers' = {} => Publishing!Whole(marker)'
             /\ \A v \in Publishers' : version'[v] # marker'
  <2>1. torn \subseteq {marker} /\ (u \in Publishers => version[u] = marker)
    BY <1>1, <1>8
  <2>2. /\ Publishers = {} => Publishing!Whole(marker)
        /\ \A v \in Publishers : version[v] # marker
    BY <1>1, <1>8, <2>1 DEF EditorInv
  <2>3. u \notin Publishers /\ Publishers' = Publishers
    BY <1>3, <2>1, <2>2
  <2>4. Publishers \subseteq Window
    BY PublishersAre
  <2> QED BY <1>1, <1>2, <1>5, <2>2, <2>3, <2>4
<1> QED BY <1>4, <1>6, <1>7, <1>8 DEF EditorInv

LEMMA EditorInvStays == EditorInv /\ (Publishing!HomeNext \/ UNCHANGED editorHome) => EditorInv'
<1> SUFFICES ASSUME EditorInv, Publishing!HomeNext \/ UNCHANGED editorHome PROVE EditorInv'
  OBVIOUS
<1>1. CASE UNCHANGED editorHome
  <2>1. Publishers' = Publishers
    BY <1>1 DEF editorHome, Publishers, Publishing!Publishing
  <2>2. Publishing!Whole(marker)' = Publishing!Whole(marker)
    BY <1>1 DEF editorHome, Publishing!Whole
  <2>3. \A u \in alone : Progress(u)' = Progress(u)
    BY <1>1 DEF editorHome, Progress, Files, Begun
  <2> QED BY <1>1, <2>1, <2>2, <2>3 DEF editorHome, EditorInv, EditorTypes
<1> QED
  BY <1>1, InstallStays, RemoveStays, CopyStays, CopiedStays, MarkStays, PrepareStays, StopsStays
  DEF Publishing!HomeNext

\* The invariant is enough for a started editor to be of one package.
LEMMA EditorHolds == EditorInv => Publishing!EditorIsOnePackage
BY DEF EditorInv, Publishing!EditorIsOnePackage, Publishers

-----------------------------------------------------------------------------
(* The panels together                                                     *)

\* Every part keeps its own invariant.
PanelsInv ==
    /\ PickerInv /\ ResumeInv /\ CardInv /\ ListInv /\ RailInv
    /\ LoginInv /\ AutosaveInv /\ EditorInv

\* The invariant from which the theorems below follow: what is drawn, answered and
\* highlighted is what the user sees; every row of the Session list is the Host's or has
\* an event under way; what a window read of the profile stands; the editor's files are
\* those that a lone publication has written so far.
THEOREM PanelsInvariant == PanelsSpec => []PanelsInv
<1>1. PanelsInit => PanelsInv
  BY PickerStarts, ResumeStarts, CardStarts, ListStarts, RailStarts, LoginStarts, AutosaveStarts,
     EditorStarts
  DEF PanelsInit, PanelsInv
<1>2. PanelsInv /\ [PanelsNext]_panels => PanelsInv'
  BY PanelSteps, PickerInvStays, ResumeInvStays, CardInvStays, ListInvStays, RailInvStays,
     LoginInvStays, AutosaveInvStays, EditorInvStays
  DEF PanelsInv
<1> QED BY <1>1, <1>2, PTL DEF PanelsSpec

\* What the user is shown is what the answer says: a list answers with the highlighted row
\* and its effort, a question with rows or a text of the user, a finished frame of the
\* rail has the row under the cursor, and a model the user picked stands.
THEOREM UsersAnswer == PanelsSpec => []AnswersAreTheUsers
<1>1. PanelsInv => AnswersAreTheUsers
  BY PickerHolds, CardHolds, RailHolds, PickHolds DEF PanelsInv, AnswersAreTheUsers
<1> QED BY <1>1, PanelsInvariant, PTL

\* With every event applied the list of a window is the Host's, however creations,
\* prompts, removals, re-reads and answers were interleaved.
THEOREM ListSettles == PanelsSpec => []ListIsCurrent
<1>1. PanelsInv => ListIsCurrent
  BY ListHolds DEF PanelsInv, ListIsCurrent
<1> QED BY <1>1, PanelsInvariant, PTL

\* No step writes over what another wrote: between two re-reads a Session that has spoken
\* or has a title stays so, a key keeps its profile and the profile its owner's name, and a
\* file that changed on disk is written over by the editor only when the user said so.
THEOREM NobodyIsOverwritten == PanelsSpec => NobodyOverwritten
<1>1. PanelsInv /\ [PanelsNext]_panels =>
        [\A s \in Here :
           sessions[s].there /\ sessions'[s].there /\ reads' = reads /\ reread' = reread =>
             /\ ~sessions[s].blank => ~sessions'[s].blank
             /\ sessions[s].title => sessions'[s].title]_(Listing!list)
  BY PanelSteps, SpokenStep DEF PanelsInv, SpokenStands
<1>2. PanelsInv /\ [PanelsNext]_panels =>
        [/\ named = "own" => named' = "own"
         /\ keys' # keys => named' # "none"]_(LoggingIn!login)
  BY PanelSteps, NamedStep DEF PanelsInv
<1>3. PanelsInv /\ [PanelsNext]_panels =>
        [\A f \in File :
           /\ disk'[f] # disk[f] /\ disk'[f].by = "editor" /\ known[f] # Saving!At(f) =>
                said'.choice = "keep"
           /\ f \in modified \ modified' =>
                disk'[f] # disk[f] \/ said'.choice \in {"reload", "discard"}]_(Saving!autosave)
  BY PanelSteps, OverwritingStep DEF PanelsInv, Overwrites
<1>4. PanelsSpec => Listing!SpokenStays
  BY <1>1, PanelsInvariant, PTL DEF PanelsSpec, Listing!SpokenStays
<1>5. PanelsSpec => LoggingIn!NamedStays
  BY <1>2, PanelsInvariant, PTL DEF PanelsSpec, LoggingIn!NamedStays
<1>6. PanelsSpec => Saving!NothingOverwritten
  BY <1>3, PanelsInvariant, PTL DEF PanelsSpec, Saving!NothingOverwritten
<1> QED BY <1>4, <1>5, <1>6 DEF NobodyOverwritten

\* Enter on a frame that shows all there is opens what that frame highlights.
THEOREM EnterOpens == PanelsSpec => EnterOpensTheHighlighted
<1>1. PanelsInv /\ [PanelsNext]_panels =>
        [Picking!Enters /\ ~due /\ ~fresh => picked' = frame]_(Picking!resume)
  BY PanelSteps, EnterStep DEF PanelsInv
<1> QED BY <1>1, PanelsInvariant, PTL
        DEF PanelsSpec, EnterOpensTheHighlighted, Picking!EnterOpensTheHighlighted

\* The editor that is started is that of one package, whatever publications died before.
THEOREM EditorIsWhole == PanelsSpec => []Publishing!EditorIsOnePackage
<1>1. PanelsInv => Publishing!EditorIsOnePackage
  BY EditorHolds DEF PanelsInv
<1> QED BY <1>1, PanelsInvariant, PTL
=============================================================================
