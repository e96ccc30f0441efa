------------------------------ MODULE Terminal ------------------------------
(***************************************************************************)
(* From the keys to the words of a command: the interrupt handler of       *)
(* device/keyboard.c, which turns the bytes of scan codes into characters, *)
(* kbd_buf between it and the shell (module IoQueue shows that it is a     *)
(* queue), and readline() and cmd_parse() of shell/shell.c.                *)
(*                                                                         *)
(* A scan code is a key, sent after the byte 0xe0 if the key is one of the *)
(* extended ones, when it is pressed, again while it is held, and when it  *)
(* is released.  Of the keys with characters there is one of each sort.    *)
(***************************************************************************)
EXTENDS Integers, Sequences, SequencesExt

CONSTANTS
  Key,          \* the keys of the keyboard
  Room,         \* characters kbd_buf has room for (2047 in the code)
  Count,        \* characters of cmd_line (512 in the code)
  MAX_ARG_NR    \* words of argv (16 in the code)

VARIABLES
  kbd,       \* ctrl_status, shift_status, alt_status, caps_lock_status, ext_scancode
  sent,      \* bytes on their way from the keyboard
  kbd_buf,   \* characters for the shell
  buf,       \* cmd_line, with the byte that follows it
  pos,       \* pos - buf in readline()
  shell,     \* what the shell does: "read", "parse", or "over" its buffer
  down,      \* history: the modifier keys that are held
  mixed,     \* history: modifiers one of whose keys is released, the other held
  line       \* history: the line as it has been edited

terminal_vars == <<kbd, sent, kbd_buf, buf, pos, shell, down, mixed, line>>

-----------------------------------------------------------------------------
\* keymap[][2], of a letter, the letters of the short cuts, a key with two
\* signs, and the others; the characters of modifiers are invisible, 0.
keymap ==
  [a |-> <<"a", "A">>, l |-> <<"l", "L">>, u |-> <<"u", "U">>, one |-> <<"1", "!">>,
   space |-> <<"SP", "SP">>, enter |-> <<"NL", "NL">>, backspace |-> <<"BS", "BS">>]
Twofold == {"one"}
Extended == {"ctrl_r", "alt_r", "up"}

KeysOf ==
  [ctrl |-> {"ctrl_l", "ctrl_r"}, shift |-> {"shift_l", "shift_r"}, alt |-> {"alt_l", "alt_r"}]
Modifier == DOMAIN KeysOf
ModifierKey == UNION {KeysOf[m] : m \in Modifier}

ASSUME TerminalAssumption ==
  /\ Key \subseteq DOMAIN keymap \cup ModifierKey \cup {"caps_lock", "up"}
  /\ Room \in Nat \ {0} /\ Count \in Nat \ {0} /\ MAX_ARG_NR \in Nat \ {0}

End == "end"
Char == {keymap[key][1] : key \in DOMAIN keymap} \cup {keymap[key][2] : key \in DOMAIN keymap}
          \cup {"^l", "^u", End}
ScanByte == [key : {"e0"} \cup Key, break : BOOLEAN]
E0 == [key |-> "e0", break |-> FALSE]

-----------------------------------------------------------------------------
\* The handler's character for a key: shift turns over the signs of a key with
\* two, shift or else caps lock a letter, and ctrl makes short cuts.
character(key) ==
  LET shift == IF key \in Twofold THEN kbd.shift ELSE kbd.shift # kbd.caps_lock
      c == keymap[key][IF shift THEN 2 ELSE 1]
  IN  IF kbd.ctrl /\ c = "l" THEN "^l" ELSE IF kbd.ctrl /\ c = "u" THEN "^u" ELSE c

\* Mutant: the right ctrl is forgotten.
IsOf_ctrl_l(m, key, ext) == key \in KeysOf[m] \ {"ctrl_r"}

\* The modifier of a scan code, with or without 0xe0 before it.
IsOf(m, key, ext) == key \in KeysOf[m] /\ ext = (key \in Extended)

\* What the handler records when a key is pressed or released.
Pressed(s, key, ext) ==
  [s EXCEPT !.ctrl = @ \/ IsOf("ctrl", key, ext), !.shift = @ \/ IsOf("shift", key, ext),
            !.alt = @ \/ IsOf("alt", key, ext), !.caps_lock = (@ # (key = "caps_lock"))]
Released(s, key, ext) ==
  [s EXCEPT !.ctrl = @ /\ ~IsOf("ctrl", key, ext), !.shift = @ /\ ~IsOf("shift", key, ext),
            !.alt = @ /\ ~IsOf("alt", key, ext)]

\* intr_keyboard_handler(): one byte.
intr_keyboard_handler ==
  /\ sent # <<>>
  /\ LET byte == Head(sent)
         s == [kbd EXCEPT !.ext_scancode = FALSE]
     IN  IF byte = E0
         THEN kbd' = [kbd EXCEPT !.ext_scancode = TRUE] /\ UNCHANGED kbd_buf
         ELSE IF byte.break
         THEN kbd' = Released(s, byte.key, kbd.ext_scancode) /\ UNCHANGED kbd_buf
         ELSE IF byte.key \in DOMAIN keymap /\ ~kbd.ext_scancode
         THEN /\ kbd' = s
              /\ kbd_buf' = IF Len(kbd_buf) < Room THEN Append(kbd_buf, character(byte.key))
                            ELSE kbd_buf
         ELSE kbd' = Pressed(s, byte.key, kbd.ext_scancode) /\ UNCHANGED kbd_buf
  /\ sent' = Tail(sent)
  /\ UNCHANGED <<buf, pos, shell, down, mixed, line>>

\* The keyboard sends what a key makes of itself.
Sends(key, break) ==
  LET byte == [key |-> key, break |-> break]
  IN  sent' = IF key \in Extended THEN <<E0, byte>> ELSE <<byte>>

\* A key is pressed, or goes on being held.
Press(key) ==
  /\ sent = <<>>
  /\ Sends(key, FALSE)
  /\ down' = down \cup ({key} \cap ModifierKey)
  /\ mixed' = mixed \ {m \in Modifier : key \in KeysOf[m]}
  /\ UNCHANGED <<kbd, kbd_buf, buf, pos, shell, line>>

Release(key) ==
  /\ sent = <<>> /\ (key \in ModifierKey => key \in down)
  /\ Sends(key, TRUE)
  /\ down' = down \ {key}
  /\ mixed' = LET of == {m \in Modifier : key \in KeysOf[m]}
              IN  (mixed \ of) \cup {m \in of : KeysOf[m] \cap (down \ {key}) # {}}
  /\ UNCHANGED <<kbd, kbd_buf, buf, pos, shell, line>>

-----------------------------------------------------------------------------
\* Mutant: the position stays where it was.
erase_keeps_pos(b, p) == [buf |-> [i \in 0..Count |-> IF i \in 1..p THEN End ELSE b[i]], pos |-> p]

\* ctrl+u: the characters are erased back to the first.
erase(b, p) == [buf |-> [i \in 0..Count |-> IF i \in 1..p THEN End ELSE b[i]], pos |-> 0]

\* What readline() does with a character that it has read to *pos.
Edited(b, p) ==
  LET c == b[p]
  IN  IF c = "BS" THEN [buf |-> b, pos |-> IF b[0] # "BS" THEN p - 1 ELSE p]
      ELSE IF c = "^l" THEN [buf |-> [b EXCEPT ![p] = End], pos |-> p]
      ELSE IF c = "^u" THEN erase(b, p)
      ELSE [buf |-> b, pos |-> p + 1]

\* The same for the line as it is meant.
Meant(l, c) ==
  IF c = "BS" THEN IF l = <<>> THEN l ELSE Front(l)
  ELSE IF c = "^l" THEN l ELSE IF c = "^u" THEN <<>> ELSE Append(l, c)

\* One turn of readline(): a character is read before the test whether there
\* is room for it.
readline ==
  /\ shell = "read" /\ kbd_buf # <<>>
  /\ kbd_buf' = Tail(kbd_buf)
  /\ LET c == Head(kbd_buf)
         b == [buf EXCEPT ![pos] = c]
     IN  IF pos >= Count THEN shell' = "over" /\ buf' = b /\ UNCHANGED <<pos, line>>
         ELSE IF c = "NL"
         THEN shell' = "parse" /\ buf' = [buf EXCEPT ![pos] = End] /\ UNCHANGED <<pos, line>>
         ELSE /\ buf' = Edited(b, pos).buf /\ pos' = Edited(b, pos).pos
              /\ line' = Meant(line, c)
              /\ UNCHANGED shell
  /\ UNCHANGED <<kbd, sent, down, mixed>>

-----------------------------------------------------------------------------
\* Mutant: every character begins a word.
parse_split(r, i) ==
  IF r.argc = -1 \/ buf[i] = "SP" THEN [r EXCEPT !.in_word = FALSE]
  ELSE [argc |-> IF r.argc > MAX_ARG_NR THEN -1 ELSE r.argc + 1, in_word |-> FALSE,
        argv |-> Append(r.argv, i)]

\* cmd_parse(): the pointers it stores in argv, all of them, and what it
\* returns.  The number of words is tested after a word has been stored.
parse_step(r, i) ==
  IF r.argc = -1 \/ buf[i] = "SP" THEN [r EXCEPT !.in_word = FALSE]
  ELSE IF r.in_word THEN r
  ELSE [argc |-> IF r.argc > MAX_ARG_NR THEN -1 ELSE r.argc + 1, in_word |-> TRUE,
        argv |-> Append(r.argv, i)]
Length == CHOOSE n \in 0..Count : buf[n] = End /\ \A i \in 0..n - 1 : buf[i] # End
cmd_parse ==
  LET parsed[n \in 0..Length] ==
        IF n = 0 THEN [argc |-> 0, in_word |-> FALSE, argv |-> <<>>]
        ELSE parse_step(parsed[n - 1], n - 1)
  IN  parsed[Length]

Clear == [i \in 0..Count |-> End]

\* my_shell() goes on with the next command, its buffer cleared.  A line of
\* spaces has no word, and argv[0] is NULL.
my_shell ==
  /\ shell = "parse"
  /\ shell' = IF cmd_parse.argc = 0 /\ buf[0] # End THEN "null" ELSE "read"
  /\ buf' = Clear /\ pos' = 0 /\ line' = <<>>
  /\ UNCHANGED <<kbd, sent, kbd_buf, down, mixed>>

TerminalInit ==
  /\ kbd = [ctrl |-> FALSE, shift |-> FALSE, alt |-> FALSE, caps_lock |-> FALSE,
            ext_scancode |-> FALSE]
  /\ sent = <<>> /\ kbd_buf = <<>>
  /\ buf = Clear /\ pos = 0 /\ shell = "read"
  /\ down = {} /\ mixed = {} /\ line = <<>>

TerminalNext ==
  \/ \E key \in Key : Press(key) \/ Release(key)
  \/ intr_keyboard_handler
  \/ readline \/ my_shell

TerminalSpec == TerminalInit /\ [][TerminalNext]_terminal_vars

-----------------------------------------------------------------------------
\* The types of the variables.
TerminalTypeOK ==
  /\ kbd \in [ctrl : BOOLEAN, shift : BOOLEAN, alt : BOOLEAN, caps_lock : BOOLEAN,
              ext_scancode : BOOLEAN]
  /\ sent \in Seq(ScanByte) /\ kbd_buf \in Seq(Char)
  /\ buf \in [0..Count -> Char] /\ pos \in 0..Count
  /\ shell \in {"read", "parse", "over", "null"}
  /\ down \subseteq ModifierKey /\ mixed \subseteq Modifier /\ line \in Seq(Char)

\* Once all bytes of a key are handled, the handler knows which modifiers are
\* held, on either side and by keys of two bytes too; except that it takes one
\* for released as soon as one of its two keys is.
ModifiersExact ==
  sent = <<>> =>
    /\ ~kbd.ext_scancode
    /\ \A m \in Modifier : IF m \in mixed THEN ~kbd[m] ELSE kbd[m] = (KeysOf[m] \cap down # {})

\* As long as the line fits its buffer, readline() has it there as it was
\* edited, and ends it by 0 when it returns; it never moves before the buffer.
LineExact ==
  shell \in {"read", "parse"} =>
    /\ pos = Len(line) /\ \A i \in 1..pos : buf[i - 1] = line[i]
    /\ shell = "parse" => Length = Len(line)

\* cmd_parse() stores in argv where words of the line begin, in order and each
\* once, and finds all words of a line that has no more than argv has room for.
ArgsExact ==
  LET starts == {i \in 0..Length - 1 : buf[i] # "SP" /\ (i = 0 \/ buf[i - 1] = "SP")}
      n == Cardinality(starts)
      stored == cmd_parse.argv
  IN  shell = "parse" =>
        /\ ToSet(stored) \subseteq starts /\ \A i, j \in 1..Len(stored) : i < j => stored[i] < stored[j]
        /\ n <= MAX_ARG_NR => cmd_parse.argc = n /\ Len(stored) = n

\* shell.c:114, said of the test of argc: argv is not overrun, and a line with
\* too many words is refused.
ArgvHolds == shell = "parse" => Len(cmd_parse.argv) <= MAX_ARG_NR

\* shell.c:27, said of readline(): it reads at most count bytes into buf.
LineHolds == shell # "over"
=============================================================================
