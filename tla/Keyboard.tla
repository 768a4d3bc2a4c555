-------------------------------- MODULE Keyboard --------------------------------
(***************************************************************************)
(* The terminal that successive windows take and give back, and the keys a *)
(* column's program receives.  A window pushes the Kitty protocol's flag   *)
(* "disambiguate", so that Command chords are reported at all; from then   *)
(* on the terminal reports other keys otherwise too, and legacyKeys turns  *)
(* these reports back into the bytes the program would have read.          *)
(***************************************************************************)
EXTENDS Integers, Sequences, FiniteSets, SequencesExt

CONSTANT Windows   \* the windows of one terminal, each started after the one before gave it back

VARIABLES
    knows,    \* the terminal has the Kitty protocol
    flags,    \* its stack of keyboard flags
    raw, shellRaw, paste,
    window,   \* the window that has the terminal, 0 for the shell
    started,  \* the last window that was started
    stopped,  \* the windows whose screen was stopped
    wasRaw,   \* window -> the mode it found
    typed,    \* the key on its way, and the form the terminal gave it
    got       \* the bytes that were read last
keyboard == <<knows, flags, raw, shellRaw, paste, window, started, stopped, wasRaw, typed, got>>

-----------------------------------------------------------------------------
\* Keys, the bytes of the legacy encoding, and reports.

\* A letter, a key with a control byte, one without, and the keys with names.
Code == {"p", "[", "1", "space", "esc", "tab", "enter", "backspace"}
Modifier == {"shift", "alt", "ctrl", "super"}
Key == [code : Code, mods : SUBSET Modifier]
Nothing == [code |-> "none", mods |-> {}]

Bytes(alt, byte) == [alt |-> alt, byte |-> byte]
Report(key) == [code |-> key.code, mods |-> key.mods]
NoBytes == Bytes(FALSE, "")

Upper == [c \in Code |-> CASE c = "p" -> "P" [] c = "[" -> "{" [] c = "1" -> "!" [] OTHER -> c]
Control == [c \in Code |-> CASE c = "p" -> "C-p" [] c = "[" -> "esc" [] c = "space" -> "nul"
                             [] c = "backspace" -> "bs" [] OTHER -> c]

\* What a terminal without the protocol sends: nothing for Command, a control byte
\* or the shifted character, and an escape before it for Alt.
Legacy(key) ==
    LET shifted == IF "shift" \notin key.mods THEN key.code
                   ELSE IF key.code = "tab" THEN "backtab" ELSE Upper[key.code]
    IN IF "super" \in key.mods THEN NoBytes
       ELSE Bytes("alt" \in key.mods, IF "ctrl" \in key.mods THEN Control[key.code] ELSE shifted)

\* With the flag, text and the bare Enter, Tab and Backspace stay as they are;
\* every other key is a report of its unshifted code and its modifiers.
TextCode == {"p", "[", "1", "space"}
Encoded(key) ==
    IF knows /\ flags[Len(flags)] = 1 /\
       \/ key.mods \cap {"alt", "ctrl", "super"} # {}
       \/ key.code = "esc"
       \/ key.code \notin TextCode /\ key.mods # {}
    THEN Report(key) ELSE Legacy(key)

-----------------------------------------------------------------------------
\* legacyKeys

Known == {"p", "["}
controlByte(code) == Control[code]

\* Mutant: Alt loses its escape where Ctrl is held too.
legacyForCtrl(key) ==
    IF "super" \in key.mods THEN NoBytes
    ELSE IF "ctrl" \in key.mods
    THEN CASE key.code \in {"tab", "enter"} -> Bytes(FALSE, key.code)
           [] key.code = "backspace" -> Bytes(FALSE, "backspace")
           [] key.code \in Known -> Bytes(FALSE, controlByte(key.code))
           [] OTHER -> Report(key)
    ELSE IF "alt" \in key.mods THEN Bytes(TRUE, key.code)
    ELSE IF "shift" \in key.mods THEN Bytes(FALSE, IF key.code = "tab" THEN "backtab" ELSE key.code)
    ELSE IF key.code = "esc" THEN Bytes(FALSE, "esc")
    ELSE Report(key)

\* Backspace keeps its byte under Ctrl; a key without a control byte stays a report.
legacyFor(key) ==
    IF "super" \in key.mods THEN NoBytes
    ELSE IF "ctrl" \in key.mods
    THEN CASE key.code \in {"tab", "enter", "backspace"} -> Bytes("alt" \in key.mods, key.code)
           [] key.code \in Known -> Bytes("alt" \in key.mods, controlByte(key.code))
           [] OTHER -> Report(key)
    ELSE IF "alt" \in key.mods THEN Bytes(TRUE, key.code)
    ELSE IF "shift" \in key.mods THEN Bytes(FALSE, IF key.code = "tab" THEN "backtab" ELSE key.code)
    ELSE IF key.code = "esc" THEN Bytes(FALSE, "esc")
    ELSE Report(key)

legacyKeys(data) == IF data \in Key THEN legacyFor(data) ELSE data

-----------------------------------------------------------------------------
KeyboardInit ==
    /\ knows \in BOOLEAN /\ shellRaw \in BOOLEAN /\ raw = shellRaw
    /\ flags = <<0>> /\ paste = FALSE
    /\ window = 0 /\ started = 0 /\ stopped = {}
    /\ wasRaw = [w \in 1 .. Windows |-> FALSE]
    /\ typed = <<>> /\ got = NoBytes

start ==
    /\ window = 0 /\ started < Windows
    /\ started' = started + 1 /\ window' = started'
    /\ wasRaw' = [wasRaw EXCEPT ![started'] = raw]
    /\ raw' = TRUE /\ paste' = TRUE
    /\ flags' = IF knows THEN Append(flags, 1) ELSE flags
    /\ UNCHANGED <<knows, shellRaw, stopped, typed, got>>

\* The modes that one call of the terminal's stop sets.
GivesBack(w) ==
    /\ flags' = IF Len(flags) > 1 THEN Front(flags) ELSE flags
    /\ paste' = FALSE /\ raw' = wasRaw[w]
    /\ window' = IF window = w THEN 0 ELSE window

\* Mutant: the second stop writes the sequences again.
stopTwice(w) ==
    /\ w \in 1 .. started /\ GivesBack(w)
    /\ stopped' = stopped \cup {w}
    /\ UNCHANGED <<knows, shellRaw, started, wasRaw, typed, got>>
\* The stop that hands the terminal over, and that of the context's disposal, which
\* may come when the successor has the terminal: the screen's guard lets one through.
stop(w) ==
    /\ w \in 1 .. started
    /\ IF w \in stopped THEN UNCHANGED <<flags, paste, raw, window>> ELSE GivesBack(w)
    /\ stopped' = stopped \cup {w}
    /\ UNCHANGED <<knows, shellRaw, started, wasRaw, typed, got>>

Press(key) ==
    /\ typed = <<>> /\ typed' = <<key, Encoded(key)>> /\ got' = NoBytes
    /\ UNCHANGED <<knows, flags, raw, shellRaw, paste, window, started, stopped, wasRaw>>
\* The bytes reach whoever reads the terminal by then: the shell as they are, the
\* column's program through legacyKeys.
Read ==
    /\ typed # <<>> /\ typed' = <<>>
    /\ got' = IF window = 0 THEN typed[2] ELSE legacyKeys(typed[2])
    /\ UNCHANGED <<knows, flags, raw, shellRaw, paste, window, started, stopped, wasRaw>>

KeyboardNext ==
    \/ start \/ Read
    \/ \E w \in 1 .. Windows : stop(w)
    \/ \E key \in Key : Press(key)

-----------------------------------------------------------------------------
\* The keys that reach the program otherwise than in the legacy encoding.
Exception ==
    {key \in Key : "super" \notin key.mods /\
        \/ "ctrl" \in key.mods /\ key.code \in {"space", "1", "esc", "backspace"}
        \/ {"alt", "shift"} \subseteq key.mods /\ "ctrl" \notin key.mods /\ key.code \in {"p", "[", "1", "tab"}}

\* Every other key means to the column's program what it means without the protocol,
\* whichever terminal the window runs in.
MeansTheSame ==
    [][typed # <<>> /\ typed' = <<>> /\ window # 0 /\ typed[1] \notin Exception => got' = Legacy(typed[1])]_keyboard

\* Disagreement with legacyKeys.ts: "so a keystroke means the same thing before and
\* after the protocol was switched on".
AlwaysMeansTheSame ==
    [][typed # <<>> /\ typed' = <<>> /\ window # 0 => got' = Legacy(typed[1])]_keyboard

\* A terminal that no window has is as the first one found it, and the window that
\* has it has its modes on, also when the window before is disposed of late.
ModesGivenBack ==
    IF window = 0 THEN flags = <<0>> /\ ~paste /\ raw = shellRaw
    ELSE flags = (IF knows THEN <<0, 1>> ELSE <<0>>) /\ paste /\ raw

\* What the shell reads is in the encoding it expects.  A key typed just before a
\* window stops is read after it as a report.
ShellReadsLegacy == [][typed # <<>> /\ typed' = <<>> /\ window = 0 => got' = Legacy(typed[1])]_keyboard
=============================================================================
