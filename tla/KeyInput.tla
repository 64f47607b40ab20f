------------------------------- MODULE KeyInput -------------------------------
(***************************************************************************)
(* Keyboard input, from the keys of a PS/2 keyboard to the kernel loop     *)
(* that waits for a key: the scan code decoder and the ring buffer of      *)
(* src/src/kernel/drivers/pc/ps2_core.c, filled by the interrupt handler,  *)
(* and the reader of tty_core_readline_ex and of the TIOCGETKEY request,   *)
(* which empties it one memory access at a time and sleeps with HLT.       *)
(*                                                                         *)
(* The interrupt gates clear IF, so a handler is one step; the reader runs *)
(* with interrupts on, so a handler may come between any two of its steps. *)
(* Scan codes are classes of codes the decoder treats alike.               *)
(***************************************************************************)
EXTENDS Integers, Sequences, FiniteSets

CONSTANTS
    BufferSize,   \* KEY_BUFFER_SIZE
    WireCap,      \* bytes the keyboard and its controller hold at most
    Pressable     \* the keys somebody presses

ASSUME BufferAssumption == BufferSize \in Nat /\ BufferSize >= 2
ASSUME WireAssumption == WireCap \in Nat \ {0}

VARIABLES
    down,         \* the modifier keys held down
    wire,         \* bytes sent by the keyboard and not yet read, oldest first
    eaten,        \* the LED exchange has swallowed a byte
    shift, ctrl, alt, caps, num, prefix,   \* the decoder's flags
    buffer, head, tail,                    \* key_buffer, key_head, key_tail
    pc, loaded, got   \* the reader: where it is, the key read, the key returned

flags == <<shift, ctrl, alt, caps, num, prefix>>
ring == <<buffer, head, tail>>
reader == <<pc, loaded, got>>
vars == <<down, wire, eaten, shift, ctrl, alt, caps, num, prefix,
          buffer, head, tail, pc, loaded, got>>

KEY_NONE == "none"

\* The keys of the keyboard: the byte that identifies each, and whether E0
\* comes before it.
Shifts == {"LShift", "RShift"}
Ctrls == {"LCtrl", "RCtrl"}
Alts == {"LAlt", "RAlt"}
Modifiers == Shifts \cup Ctrls \cup Alts
Extended == {"RCtrl", "RAlt", "Up", "Delete", "PadSlash"}

Code(k) ==
    CASE k \in Shifts -> "shift"
      [] k \in Ctrls -> "ctrl"
      [] k \in Alts -> "alt"
      [] k \in {"Up", "Pad8"} -> "48"
      [] k \in {"Delete", "PadDot"} -> "53"
      [] k \in {"Slash", "PadSlash"} -> "35"
      [] OTHER -> k

\* held records the modifiers down when Delete was pressed.
Byte(c, up) == [code |-> c, up |-> up, held |-> IF c = "53" THEN down ELSE {}]
Bytes(k, up) ==
    (IF k \in Extended THEN <<Byte("E0", FALSE)>> ELSE <<>>) \o <<Byte(Code(k), up)>>

KeySlots == 0 .. BufferSize - 1
Key == {"letter", "LETTER", "^letter", "digit", "symbol", "arrow", "number", "delete",
        ".", "reset", "/", "?"}

Init ==
    /\ down = {} /\ wire = <<>> /\ eaten = FALSE
    /\ shift = FALSE /\ ctrl = FALSE /\ alt = FALSE
    /\ caps = FALSE /\ num = FALSE /\ prefix = FALSE
    /\ buffer = [i \in KeySlots |-> KEY_NONE] /\ head = 0 /\ tail = 0
    /\ pc = "check" /\ loaded = KEY_NONE /\ got = KEY_NONE
-----------------------------------------------------------------------------
\* The keyboard, external: a modifier goes down and comes up, any other key is
\* struck (the driver ignores its release) and a held one repeats.
Press(k) ==
    /\ k \notin down
    /\ wire' = wire \o Bytes(k, FALSE) /\ Len(wire') <= WireCap
    /\ down' = IF k \in Modifiers THEN down \cup {k} ELSE down
    /\ UNCHANGED <<eaten, flags, ring, reader>>

Release(k) ==
    /\ k \in down
    /\ wire' = wire \o Bytes(k, TRUE) /\ Len(wire') <= WireCap
    /\ down' = down \ {k}
    /\ UNCHANGED <<eaten, flags, ring, reader>>

\* A HLT ends with the next interrupt.
Woken == IF pc = "halted" THEN "check" ELSE pc

Succ(i) == (i + 1) % BufferSize

\* Mutant: the ring is taken for full one slot late.
QueuePushFull(key) ==
    IF key = KEY_NONE THEN UNCHANGED ring
    ELSE /\ buffer' = [buffer EXCEPT ![head] = key]
         /\ head' = Succ(head)
         /\ UNCHANGED tail

\* queue_push; a full ring drops the key.
QueuePush(key) ==
    IF key = KEY_NONE \/ Succ(head) = tail THEN UNCHANGED ring
    ELSE /\ buffer' = [buffer EXCEPT ![head] = key]
         /\ head' = Succ(head)
         /\ UNCHANGED tail

\* translate_scancode and the keypad table, for a key pressed without E0.
Translate(c) ==
    LET numbers == num # shift
    IN  CASE c = "letter" -> IF ctrl THEN "^letter"
                             ELSE IF shift # caps THEN "LETTER" ELSE "letter"
          [] c = "digit" -> IF shift THEN "symbol" ELSE "digit"
          [] c = "35" -> IF shift THEN "?" ELSE "/"
          [] c = "48" -> IF numbers THEN "number" ELSE "arrow"
          [] c = "Pad7" -> IF numbers THEN "number" ELSE KEY_NONE
          [] c = "53" -> "."
          [] OTHER -> KEY_NONE

\* Mutant: one of Ctrl and Alt is enough for the reset chord.
TranslateExtendedEither(c) ==
    CASE c = "48" -> "arrow"
      [] c = "53" -> IF ctrl \/ alt THEN "reset" ELSE "delete"
      [] c = "35" -> "/"
      [] OTHER -> KEY_NONE

\* The keys that follow E0.
TranslateExtended(c) ==
    CASE c = "48" -> "arrow"
      [] c = "53" -> IF ctrl /\ alt THEN "reset" ELSE "delete"
      [] c = "35" -> "/"
      [] OTHER -> KEY_NONE

\* keyboard_sync_leds: in each of two attempts the driver takes the next byte
\* of the port for the keyboard's ACK; a scan code that is ahead of it is gone.
SyncLeds(rest) ==
    \E n \in 0 .. 2 :
        /\ n <= Len(rest)
        /\ wire' = SubSeq(rest, n + 1, Len(rest))
        /\ eaten' = (eaten \/ n > 0)

\* Mutant: only the left Ctrl and Alt are seen to come up.
ModifiersStick(b) ==
    /\ shift' = IF b.code = "shift" /\ ~prefix THEN ~b.up ELSE shift
    /\ ctrl' = IF b.code = "ctrl" THEN ~b.up \/ prefix ELSE ctrl
    /\ alt' = IF b.code = "alt" THEN ~b.up \/ prefix ELSE alt

\* The modifier flags: Ctrl and Alt also count after E0, Shift does not.
SetModifiers(b) ==
    /\ shift' = IF b.code = "shift" /\ ~prefix THEN ~b.up ELSE shift
    /\ ctrl' = IF b.code = "ctrl" THEN ~b.up ELSE ctrl
    /\ alt' = IF b.code = "alt" THEN ~b.up ELSE alt

\* ps2_irq_handler: keyboard_process_scancode of the byte in the port.
KeyIrq ==
    /\ wire # <<>>
    /\ LET b == Head(wire)
           toggle == ~prefix /\ ~b.up
       IN  /\ prefix' = (b.code = "E0")
           /\ SetModifiers(b)
           /\ caps' = IF toggle /\ b.code = "Caps" THEN ~caps ELSE caps
           /\ num' = IF toggle /\ b.code = "Num" THEN ~num ELSE num
           /\ QueuePush(IF b.up THEN KEY_NONE
                        ELSE IF prefix THEN TranslateExtended(b.code) ELSE Translate(b.code))
           /\ IF toggle /\ b.code \in {"Caps", "Num"}
              THEN SyncLeds(Tail(wire))
              ELSE wire' = Tail(wire) /\ UNCHANGED eaten
    /\ pc' = Woken
    /\ UNCHANGED <<down, loaded, got>>

\* Mutant: the timer does not interrupt (its line is masked).
TimerIrqMasked == UNCHANGED vars

\* The periodic timer interrupt, of which only the wake-up matters here.
TimerIrq ==
    /\ pc' = Woken
    /\ UNCHANGED <<down, wire, eaten, flags, ring, loaded, got>>

(***************************************************************************)
(* The reader: input_take_key (queue_pop) and, when the ring is empty,     *)
(* platform_cpu_idle.                                                      *)
(***************************************************************************)
Check ==
    /\ pc = "check"
    /\ pc' = IF head = tail THEN "idle" ELSE "load"
    /\ UNCHANGED <<down, wire, eaten, flags, ring, loaded, got>>

Idle ==
    /\ pc = "idle"
    /\ pc' = "halted"
    /\ UNCHANGED <<down, wire, eaten, flags, ring, loaded, got>>

Load ==
    /\ pc = "load"
    /\ loaded' = buffer[tail]
    /\ pc' = "advance"
    /\ UNCHANGED <<down, wire, eaten, flags, ring, got>>

Advance ==
    /\ pc = "advance"
    /\ tail' = Succ(tail)
    /\ got' = loaded /\ loaded' = KEY_NONE
    /\ pc' = "check"
    /\ UNCHANGED <<down, wire, eaten, flags, buffer, head>>

Reader == Check \/ Idle \/ Load \/ Advance

Next ==
    \/ \E k \in Pressable : Press(k) \/ Release(k)
    \/ KeyIrq \/ TimerIrq
    \/ Reader

\* The processor runs the reader's instructions until it halts, and the timer
\* is periodic; nobody has to press a key.
Spec == Init /\ [][Next]_vars /\ WF_vars(Reader) /\ WF_vars(TimerIrq)
-----------------------------------------------------------------------------
\* Type correctness of the ring indices, the bytes and the reader's place.
TypeOK ==
    /\ down \subseteq Modifiers
    /\ Len(wire) <= WireCap
    /\ {shift, ctrl, alt, caps, num, prefix, eaten} \subseteq BOOLEAN
    /\ buffer \in [KeySlots -> Key \cup {KEY_NONE}]
    /\ head \in KeySlots /\ tail \in KeySlots
    /\ pc \in {"check", "load", "advance", "idle", "halted"}
    /\ {loaded, got} \subseteq Key \cup {KEY_NONE}

Waiting == (head - tail) % BufferSize
Fifo == INSTANCE KeyFifo WITH
            Capacity <- BufferSize - 1,
            queue <- [i \in 1 .. Waiting |-> buffer[(tail + i - 1) % BufferSize]]

\* The ring behaves as a bounded queue although the interrupt handler fills it
\* between any two instructions of queue_pop: no key is overwritten between
\* being read and being removed, returned twice, or out of order.
ImplementsFifo == Fifo!Spec

\* A key in the ring is taken, even when it comes between the reader's look at
\* the empty ring and its HLT: the timer interrupt bounds the wait.
KeysTaken == \A i \in KeySlots : (tail = i /\ head # i) ~> tail # i

\* Once the bytes sent have been handled, a modifier flag is set only while a
\* key of that modifier is held, and no E0 is pending: no order of presses and
\* releases, left and right, leaves one stuck, unless the LED exchange has
\* swallowed a byte.  The types hold.
NoStuckModifier ==
    /\ TypeOK
    /\ (wire = <<>> /\ ~eaten) =>
          /\ shift => down \cap Shifts # {}
          /\ ctrl => down \cap Ctrls # {}
          /\ alt => down \cap Alts # {}
          /\ ~prefix

\* A key is queued as Ctrl+Alt+Del, which resets the machine, only when a Ctrl
\* and an Alt key were down as Delete was pressed, however late the bytes are
\* handled, unless the LED exchange has swallowed one of them.
ResetOnlyOnChord ==
    [][(head' # head /\ buffer'[head] = "reset" /\ ~eaten) =>
          Head(wire).held \cap Ctrls # {} /\ Head(wire).held \cap Alts # {}]_vars
=============================================================================
