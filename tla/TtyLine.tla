------------------------------- MODULE TtyLine -------------------------------
(***************************************************************************)
(* Line editing on the console: tty_core_readline_ex                       *)
(* (src/src/kernel/core/tty/tty_core.c) over the VGA text driver, and the  *)
(* kernel shell's history and completion hooks                             *)
(* (src/src/kernel/core/shell/shell_core.c), which get the reader's buffer *)
(* and replace the line.                                                   *)
(*                                                                         *)
(* The buffer is the shell's array line[], which keeps what earlier lines  *)
(* left in it; len is the reader's own count and no NUL follows the text   *)
(* until the line is finished.                                             *)
(***************************************************************************)
EXTENDS VgaText, FiniteSets

CONSTANTS
    Cap,        \* capacity of the buffer
    Chars,      \* the characters typed, Space among them or not
    HistoryCap, \* SHELL_HISTORY_CAP
    Commands,   \* what the first word of a line completes to
    Names,      \* what the other words complete to, as the file system is
    LineBound   \* bound on the lines read

ASSUME CapAssumption == Cap \in Nat \ {0} /\ HistoryCap \in Nat \ {0}
ASSUME LineAssumption == LineBound \in Nat

Space == " "
NUL == "0"

VARIABLES
    hooked,     \* the reader has the shell's hooks; a program's has none
    vga,        \* the display
    line,       \* line[i + 1] is buf[i]
    len, cursor, insertMode,   \* the reader's locals
    base,       \* the screen position the line starts at
    reading,    \* a readline is in progress
    above,      \* the screen when it began
    hist, histCount, histHead, nav, draft,   \* the shell's history
    lines,      \* lines begun
    entered     \* the newest HistoryCap lines entered, without blank ones and direct repeats

histVars == <<hist, histCount, histHead, nav, draft, lines, entered>>
vars == <<hooked, vga, line, len, cursor, insertMode, base, reading, above,
          hist, histCount, histHead, nav, draft, lines, entered>>

Slots == 0 .. HistoryCap - 1

\* Init: nothing is known of the bytes of an array on the stack but its type;
\* it is taken to be cleared, so what shows up in it later was typed.
Init ==
    /\ hooked \in BOOLEAN
    /\ vga = VgaInit
    /\ line = [i \in 1 .. Cap |-> NUL] /\ len = 0 /\ cursor = 0 /\ insertMode = TRUE
    /\ base = 0 /\ reading = FALSE /\ above = vga.cells
    /\ hist = [s \in Slots |-> <<>>] /\ histCount = 0 /\ histHead = 0
    /\ nav = -1 /\ draft = <<>> /\ lines = 0 /\ entered = <<>>
-----------------------------------------------------------------------------
Text == SubSeq(line, 1, len)

\* The C string at the start of the array.
CString(a) ==
    LET nuls == {i \in 1 .. Cap : a[i] = NUL}
    IN  IF nuls = {} THEN a ELSE SubSeq(a, 1, (CHOOSE i \in nuls : \A j \in nuls : i <= j) - 1)

\* The array after the bytes of s have been written from index i on.
Written(a, i, s) ==
    [k \in 1 .. Cap |-> IF k - i \in 0 .. Len(s) - 1 THEN s[k - i + 1] ELSE a[k]]

\* The prompt, and the start of tty_core_readline_ex.
ReadLine ==
    /\ ~reading /\ lines < LineBound
    /\ LET prompted == Putc(vga, ">")
       IN  /\ vga' = TextBegin(prompted, prompted.pos)
           /\ base' = prompted.pos
           /\ above' = prompted.cells
    /\ line' = [line EXCEPT ![1] = NUL]
    /\ len' = 0 /\ cursor' = 0 /\ insertMode' = TRUE /\ reading' = TRUE
    /\ nav' = -1 /\ draft' = <<>> /\ lines' = lines + 1
    /\ UNCHANGED <<hooked, hist, histCount, histHead, entered>>

\* tty_insert_char and the display's copy of the character; a full line takes
\* no character, not even over another one.
InsertChar(e, c) ==
    IF e.len >= Cap - 1 THEN e
    ELSE IF ~insertMode /\ e.cursor < e.len
         THEN [line |-> [e.line EXCEPT ![e.cursor + 1] = c], len |-> e.len,
               cursor |-> e.cursor + 1, vga |-> TextPutc(e.vga, c)]
         ELSE [line |-> Written(e.line, e.cursor + 1,
                                <<c>> \o SubSeq(e.line, e.cursor + 1, e.len)),
               len |-> e.len + 1, cursor |-> e.cursor + 1, vga |-> TextPutc(e.vga, c)]

\* The characters cs are typed one after the other.
TypeAll(cs) ==
    LET e == FoldLeft(InsertChar, [line |-> line, len |-> len, cursor |-> cursor, vga |-> vga], cs)
    IN  /\ line' = e.line /\ len' = e.len /\ cursor' = e.cursor /\ vga' = e.vga
        /\ UNCHANGED <<insertMode, base, reading, hooked, above, histVars>>

TypeChar(c) == reading /\ TypeAll(<<c>>)

\* Tab without hooks.
TabSpaces == reading /\ ~hooked /\ TypeAll(<<Space, Space, Space, Space>>)

\* tty_delete_left.
Backspace ==
    /\ reading /\ cursor > 0
    /\ line' = Written(line, cursor, SubSeq(line, cursor + 1, len))
    /\ len' = len - 1 /\ cursor' = cursor - 1
    /\ vga' = TextBackspace(vga)
    /\ UNCHANGED <<insertMode, base, reading, hooked, above, histVars>>

\* tty_delete_at_cursor.
Delete ==
    /\ reading /\ cursor < len
    /\ line' = Written(line, cursor + 1, SubSeq(line, cursor + 2, len))
    /\ len' = len - 1
    /\ vga' = TextDelete(vga)
    /\ UNCHANGED <<cursor, insertMode, base, reading, hooked, above, histVars>>

Left ==
    /\ reading /\ cursor > 0
    /\ cursor' = cursor - 1 /\ vga' = TextLeft(vga)
    /\ UNCHANGED <<line, len, insertMode, base, reading, hooked, above, histVars>>

Right ==
    /\ reading /\ cursor < len
    /\ cursor' = cursor + 1 /\ vga' = TextRight(vga)
    /\ UNCHANGED <<line, len, insertMode, base, reading, hooked, above, histVars>>

Insert ==
    /\ reading
    /\ insertMode' = ~insertMode /\ vga' = TextToggleInsert(vga)
    /\ UNCHANGED <<line, len, cursor, base, reading, hooked, above, histVars>>

\* tty_redraw_line, after which the display inserts.
Redrawn(text, cur) ==
    LET drawn == FoldLeft(TextPutc, TextBegin(vga, base), text)
    IN  FoldLeft(LAMBDA v, c : TextLeft(v), drawn, SubSeq(text, cur + 1, Len(text)))
-----------------------------------------------------------------------------
\* Mutant: the ring is entered one slot off.
HistorySlotOff(r) == (histHead + HistoryCap - r) % HistoryCap

\* shell_history_slot: the slot of the r-th newest line.
HistorySlot(r) == (histHead + HistoryCap - 1 - r) % HistoryCap

\* shell_replace_line and the redraw that follows the hook.
Replace(text) ==
    LET t == SubSeq(text, 1, IF Len(text) >= Cap THEN Cap - 1 ELSE Len(text))
    IN  /\ line' = Written(line, 1, Append(t, NUL))
        /\ len' = Len(t) /\ cursor' = Len(t)
        /\ vga' = Redrawn(t, Len(t))

\* shell_history_hook, upwards.  The first time, the buffer is copied as a C
\* string into the draft.
Up ==
    /\ reading /\ hooked /\ nav + 1 < histCount
    /\ nav' = nav + 1
    /\ draft' = IF nav < 0 THEN CString(line) ELSE draft
    /\ Replace(hist[HistorySlot(nav + 1)])
    /\ UNCHANGED <<insertMode, base, reading, hooked, above, hist, histCount, histHead, lines, entered>>

Down ==
    /\ reading /\ hooked /\ nav >= 0
    /\ nav' = nav - 1
    /\ Replace(IF nav = 0 THEN draft ELSE hist[HistorySlot(nav - 1)])
    /\ UNCHANGED <<insertMode, base, reading, hooked, above,
                   hist, histCount, histHead, draft, lines, entered>>

\* The word around the cursor: it starts after the last space before the
\* cursor and ends before the first one at or after it.
WordStart == LET S == {i \in 1 .. cursor : line[i] = Space}
             IN  IF S = {} THEN 0 ELSE CHOOSE i \in S : \A j \in S : j <= i
WordEnd == LET S == {i \in cursor .. len - 1 : line[i + 1] = Space}
           IN  IF S = {} THEN len ELSE CHOOSE i \in S : \A j \in S : i <= j

\* shell_replace_token's copy of the rest of the line, one byte after another
\* from the front: where the two places overlap a byte copied is copied again.
Moved(a, to, from, n) ==
    LET c[k \in 0 .. n] ==
            IF k = 0 THEN a ELSE [c[k - 1] EXCEPT ![to + k] = c[k - 1][from + k]]
    IN  c[n]

\* shell_find_unique_command and shell_find_unique_path_match: nothing, or the
\* only completion of the word.
Completion(word, words) ==
    {c \in words : /\ IsPrefix(word, c) /\ word # <<>>
                   /\ \A d \in words : IsPrefix(word, d) => d = c}

\* shell_tab_hook, and the redraw that follows whatever it did.
Tab ==
    /\ reading /\ hooked
    /\ LET first == \A i \in 1 .. WordStart : line[i] = Space
           found == {c \in Completion(SubSeq(line, WordStart + 1, cursor),
                                      IF first THEN Commands ELSE Names) :
                        WordStart + Len(c) + len - WordEnd < Cap}
       IN  IF found = {} THEN UNCHANGED <<line, len, cursor>>
           ELSE \E c \in found :
                  LET end == WordStart + Len(c)
                      rest == len - WordEnd
                  IN  /\ line' = Written(Written(Moved(line, end, WordEnd, rest), WordStart + 1, c),
                                         end + rest + 1, <<NUL>>)
                      /\ len' = end + rest /\ cursor' = end
    /\ vga' = Redrawn(SubSeq(line', 1, len'), cursor')
    /\ UNCHANGED <<insertMode, base, reading, hooked, above, histVars>>

\* Ctrl+C gives the line up.
Cancel ==
    /\ reading
    /\ line' = [line EXCEPT ![1] = NUL]
    /\ reading' = FALSE
    /\ vga' = Putc(Putc(Putc(vga, "^"), "C"), Newline)
    /\ UNCHANGED <<len, cursor, insertMode, base, hooked, above, histVars>>

\* What shell_tokenize leaves of a line without quotes: its words, moved
\* together, each with a NUL after it.
Tokenized(a, text) ==
    LET Squeeze(acc, c) ==
            IF c # Space THEN Append(acc, c)
            ELSE IF acc = <<>> \/ Last(acc) = NUL THEN acc ELSE Append(acc, NUL)
    IN  Written(a, 1, FoldLeft(Squeeze, <<>>, Append(text, NUL)))

\* shell_history_push of a line that differs from the newest one.
Pushed(text) ==
    /\ hist' = [hist EXCEPT ![histHead] = text]
    /\ histHead' = (histHead + 1) % HistoryCap
    /\ histCount' = IF histCount < HistoryCap THEN histCount + 1 ELSE histCount

\* Enter finishes the line; the shell splits it into words and, unless there
\* are none, keeps a copy in the history.
Enter ==
    /\ reading
    /\ reading' = FALSE
    /\ vga' = Putc(vga, Newline)
    /\ IF hooked /\ \E i \in 1 .. len : Text[i] # Space
       THEN /\ line' = Tokenized([line EXCEPT ![len + 1] = NUL], Text)
            /\ IF histCount > 0 /\ hist[HistorySlot(0)] = Text
               THEN UNCHANGED <<hist, histHead, histCount, entered>>
               ELSE /\ Pushed(Text)
                    /\ entered' = SubSeq(<<Text>> \o entered, 1,
                                         IF Len(entered) < HistoryCap THEN Len(entered) + 1
                                         ELSE HistoryCap)
       ELSE /\ line' = [line EXCEPT ![len + 1] = NUL]
            /\ UNCHANGED <<hist, histHead, histCount, entered>>
    /\ UNCHANGED <<len, cursor, insertMode, base, hooked, above, nav, draft, lines>>

Next ==
    \/ ReadLine \/ \E c \in Chars : TypeChar(c)
    \/ Backspace \/ Delete \/ Left \/ Right \/ Insert
    \/ Up \/ Down \/ Tab \/ TabSpaces
    \/ Cancel \/ Enter

Spec == Init /\ [][Next]_vars
-----------------------------------------------------------------------------
\* Type correctness; the NUL that ends a line fits the buffer.
TypeOK ==
    /\ line \in [1 .. Cap -> STRING]
    /\ cursor \in 0 .. len /\ len \in 0 .. Cap - 1
    /\ {insertMode, reading} \subseteq BOOLEAN
    /\ vga.pos \in Cells /\ base \in Cells
    /\ vga.cursor \in 0 .. Len(vga.data) /\ Len(vga.path) = Len(vga.data) + 1
    /\ histCount \in 0 .. HistoryCap /\ histHead \in Slots /\ nav \in -1 .. histCount - 1

\* The display's text model follows the reader's: after every key the two
\* hold the same characters, the same cursor and the same insert mode.  (The
\* redraw after a hook makes the display insert while the reader overwrites.)
LineMirrored ==
    (reading /\ ~hooked) => vga.data = Text /\ vga.cursor = cursor /\ vga.insert = insertMode

\* While a line that ends above the bottom of the screen is edited by a
\* reader without hooks, the screen shows what was there before it, then exactly
\* the line, and the hardware cursor stands on the character the next key acts on.
ScreenShowsLine ==
    (reading /\ ~hooked /\ base + Cap - 1 < Width * Height) =>
        /\ \A p \in Cells :
              vga.cells[p] = IF p < base THEN above[p]
                             ELSE IF p < base + len THEN line[p - base + 1] ELSE Blank
        /\ vga.pos = base + cursor

\* The ring of lines the shell keeps is, from the newest slot back, the lines
\* entered last, whatever has been recalled and edited since.  The types hold.
HistoryRecent ==
    /\ TypeOK
    /\ histCount = Len(entered)
    /\ \A r \in 0 .. histCount - 1 : hist[HistorySlot(r)] = entered[r + 1]
=============================================================================
