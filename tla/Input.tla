------------------------------- MODULE Input --------------------------------
(***************************************************************************)
(* From the keys to a line: the interrupt handler of device/keyboard.c,    *)
(* the queue of characters, and the line editor of the shell (readline in  *)
(* shell/shell.c).                                                         *)
(*                                                                         *)
(* A stroke of a character key is a make and a break code; a modifier is   *)
(* pressed and released apart.  held, lock and typed are what the user     *)
(* does and expects; the program has kb, queue and line.                   *)
(***************************************************************************)
EXTENDS Integers, Sequences, SequencesExt

CONSTANTS Keys,     \* the keys that are used (a bound)
          LineLen,  \* cmd_len
          QueueLen  \* characters that kbd_buf holds: bufsize - 1

VARIABLES kb,       \* shift_status, ctrl_status, alt_status, caps_lock_status, ext_scancode
          queue,    \* kbd_buf
          line,     \* buf and pos of readline; over: written past the end
          held,     \* modifiers that are down
          lock,     \* caps lock is on
          typed     \* the line as the user sees it

inputVars == <<kb, queue, line, held, lock, typed>>

Shifts == {"lshift", "rshift"}
Ctrls == {"lctrl", "rctrl"}
Alts == {"lalt", "ralt"}
Modifiers == Shifts \cup Ctrls \cup Alts

\* The keymap: the character without and with shift.  "^L" and "^U" stand for
\* the values 'l' - 'a' and 'u' - 'a'.
keymap == [a |-> <<"a", "A">>, l |-> <<"l", "L">>, u |-> <<"u", "U">>,
           bar |-> <<"\\", "|">>, enter |-> <<"CR", "CR">>, back |-> <<"BS", "BS">>]
Symbols == {"bar"}  \* caps lock does not change these

ASSUME InputAssumption ==
  /\ Keys \subseteq DOMAIN keymap \cup Modifiers \cup {"caps", "up"}
  /\ LineLen \in Nat \ {0} /\ QueueLen \in Nat \ {0}

\* Scan codes: right ctrl, right alt and the arrow keys come after a byte 0xe0;
\* the two ctrl keys, and the two alt keys, have the same second byte.
Second(k) == IF k \in Ctrls THEN "ctrl" ELSE IF k \in Alts THEN "alt" ELSE k
Prefixed(k) == k \in {"rctrl", "ralt", "up"}
E0 == [key |-> "e0", up |-> FALSE]
Codes(k, up) == (IF Prefixed(k) THEN <<E0>> ELSE << >>) \o <<[key |-> Second(k), up |-> up]>>

EmptyLine == [buf |-> [i \in 0..LineLen |-> ""], pos |-> 0, over |-> FALSE]

InputInit ==
  /\ kb = [shift |-> FALSE, ctrl |-> FALSE, alt |-> FALSE, caps |-> FALSE, ext |-> FALSE]
  /\ queue = << >> /\ line = EmptyLine
  /\ held = {} /\ lock = FALSE /\ typed = << >>

-----------------------------------------------------------------------------
(* intr_keyboard_handler.                                                  *)

\* (Faulty variant: the flag of the prefix stays.)
Unprefixed_kept(k) == k
Unprefixed(k) == [k EXCEPT !.ext = FALSE]

Break(k, key) ==
  CASE key \in Shifts /\ ~k.ext -> [k EXCEPT !.shift = FALSE]
    [] key = "alt" -> [k EXCEPT !.alt = FALSE]
    [] key = "ctrl" -> [k EXCEPT !.ctrl = FALSE]
    [] OTHER -> k

\* shift and caps lock make a small letter of each other's capital.
Char(k, key) ==
  LET shift == IF key \in Symbols THEN k.shift ELSE k.shift # k.caps
      c == keymap[key][IF shift THEN 2 ELSE 1]
  IN IF k.ctrl /\ c = "l" THEN "^L" ELSE IF k.ctrl /\ c = "u" THEN "^U" ELSE c

Modify(k, key) ==
  CASE key = "ctrl" -> [k EXCEPT !.ctrl = TRUE]
    [] key = "alt" -> [k EXCEPT !.alt = TRUE]
    [] key \in Shifts -> [k EXCEPT !.shift = TRUE]
    [] key = "caps" -> [k EXCEPT !.caps = ~@]
    [] OTHER -> k

\* One interrupt.  s holds the flags and the queue; with the prefix only the
\* right ctrl and the right alt are known; a character is lost if the queue is
\* full.
intr_keyboard_handler(s, code) ==
  LET k == s.kb
      k1 == Unprefixed(k)
      known == ~k.ext \/ code.key \in {"ctrl", "alt"}
  IN IF code = E0 THEN [s EXCEPT !.kb.ext = TRUE]
     ELSE IF code.up THEN [s EXCEPT !.kb = Unprefixed(Break(k, code.key))]
     ELSE IF known /\ code.key \in DOMAIN keymap
          THEN [kb |-> k1, queue |-> IF Len(s.queue) < QueueLen
                                     THEN Append(s.queue, Char(k, code.key)) ELSE s.queue]
     ELSE [s EXCEPT !.kb = IF known THEN Modify(k1, code.key) ELSE k1]

Interrupts(codes) ==
  LET s[k \in 0..Len(codes)] ==
        IF k = 0 THEN [kb |-> kb, queue |-> queue]
        ELSE intr_keyboard_handler(s[k - 1], codes[k])
  IN kb' = s[Len(codes)].kb /\ queue' = s[Len(codes)].queue

-----------------------------------------------------------------------------
(* The user.  Characters are struck only while a shell reads, up to the    *)
(* end of the line, enter with no modifier down and symbols with shift     *)
(* (bounds); what is lost at a full queue is not expected.                 *)

\* What a stroke means, from the keys that are down.
Meant(key) ==
  Char([shift |-> held \cap Shifts # {}, ctrl |-> held \cap Ctrls # {}, caps |-> lock], key)

Edited(s, c) ==
  CASE c = "BS" -> IF s = << >> THEN s ELSE Front(s)
    [] c = "^U" -> << >>
    [] c \in {"^L", "CR"} -> s
    [] OTHER -> Append(s, c)

Strike(key) ==
  /\ key \in DOMAIN keymap \cup {"up"} /\ "CR" \notin Range(queue) /\ ~line.over
  /\ key = "enter" => held = {}
  /\ key \in Symbols => held \cap Shifts # {}
  /\ Interrupts(Codes(key, FALSE) \o Codes(key, TRUE))
  /\ typed' = IF key = "up" \/ Len(queue) = QueueLen THEN typed ELSE Edited(typed, Meant(key))
  /\ UNCHANGED <<line, held, lock>>

\* One modifier at a time (a bound): of two shift keys that are down, the first
\* release clears the flag.
Press(key) ==
  /\ key \in Modifiers /\ held = {} /\ "CR" \notin Range(queue)
  /\ Interrupts(Codes(key, FALSE))
  /\ held' = held \cup {key}
  /\ UNCHANGED <<line, lock, typed>>

Release(key) ==
  /\ key \in held
  /\ Interrupts(Codes(key, TRUE))
  /\ held' = held \ {key}
  /\ UNCHANGED <<line, lock, typed>>

\* At the start of a line (a bound).
CapsLock ==
  /\ "caps" \in Keys /\ held = {} /\ line = EmptyLine /\ queue = << >>
  /\ Interrupts(Codes("caps", FALSE) \o Codes("caps", TRUE))
  /\ lock' = ~lock
  /\ UNCHANGED <<line, held, typed>>

-----------------------------------------------------------------------------
(* readline.                                                               *)

\* The character is stored at pos before it is looked at.  What is beyond pos
\* afterwards is overwritten before it is read: it is left out.
readline_char(ln, c) ==
  LET b == [ln.buf EXCEPT ![ln.pos] = c]
      pos == CASE c = "BS" -> IF b[0] # "BS" THEN ln.pos - 1 ELSE ln.pos
               [] c = "^U" -> 0
               [] c \in {"^L", "CR"} -> ln.pos
               [] OTHER -> ln.pos + 1
  IN [ln EXCEPT !.buf = [i \in DOMAIN b |-> IF i < pos THEN b[i] ELSE ""], !.pos = pos]

\* At the end of the buffer one more character is read, and written past it: what
\* the line is then is left out.
readline_step(ln, c) == IF ln.pos < LineLen THEN readline_char(ln, c)
                        ELSE [EmptyLine EXCEPT !.over = TRUE]

\* The string at the start of the buffer.
String(ln) == [i \in 1..ln.pos |-> ln.buf[i - 1]]

\* The line once the characters of q are read too.
ReadAll(ln, q) ==
  LET at[k \in 0..Len(q)] == IF k = 0 THEN ln ELSE readline_step(at[k - 1], q[k])
  IN at[Len(q)]

\* What has been typed is what readline has made, or will make, of the characters
\* it has and those in the queue: shift, ctrl, caps lock and the prefix byte are
\* followed correctly through the interrupts, and the editing keys act on the
\* line as they do on the user's (keyboard.c:101-178, shell.c:55-91).
LineAsTyped ==
  LET ln == ReadAll(line, queue)
  IN ~ln.over => String(ln) = typed
=============================================================================
