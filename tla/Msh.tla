--------------------------------- MODULE Msh ---------------------------------
(***************************************************************************)
(* MultiShell, the user's shell: src/src/userland/smu/shell/msh.c and      *)
(* redir.c.  One process: it edits a line key by key, records it in memory *)
(* and in the history file, splits it into tokens and runs the commands of *)
(* the list one after the other, each with its own redirections.           *)
(*                                                                         *)
(* The shell's descriptor table is in the model, since a redirection is    *)
(* open, dup, dup2 and close on it; a command is a call of execve, which   *)
(* returns when the program has exited and leaves the caller's table as it *)
(* was (ProcessCore).  The exit codes 1, 2 and 127 are one value, Failure. *)
(* The screen is left out: after each key the shell has the kernel redraw  *)
(* the whole line (TtyLine).                                               *)
(***************************************************************************)
EXTENDS MshText

CONSTANTS
    FdCap,        \* POSIX_FD_CAP
    Extra,        \* the descriptors beyond the streams the shell may inherit
    HistoryCap,   \* HISTORY_CAP
    MaxBytes,     \* history_max_bytes
    Stored,       \* the contents the history file may have at the start
    Keys,         \* the characters typed
    LineBound, EditBound   \* bounds on the lines entered and the edits made

ASSUME TableAssumption == FdCap \in Nat /\ FdCap >= 3 /\ Extra \subseteq SUBSET (3 .. FdCap - 1)
ASSUME HistoryAssumption == HistoryCap \in Nat \ {0} /\ MaxBytes \in Nat
ASSUME BoundAssumption == LineBound \in Nat /\ EditBound \in Nat

FDs == 0 .. FdCap - 1
Streams == 0 .. 2

\* What an entry of the table names: the redirection that opened it, or what
\* the shell was started with.
Description(op, path) == [op |-> op, path |-> path]
Closed == Description(<<>>, <<>>)
Terminal(t) == Description(<<"tty">>, <<t>>)
Inherited == Description(<<"file">>, <<>>)

Success == 0
Failure == 1
Unsaved == -1   \* redir.saved[] as msh_redir_init sets it

VARIABLES
    text, cursor, insert, nav, draft,  \* read_line: the line and its locals
    hist, histCount, histHead,         \* g_history
    stored,                            \* the lines of the history file
    tokens, start, last, shouldRun,    \* execute_tokens
    next, argv, saved,                 \* run_segment: the next token, argv, redir
    fds,                               \* the descriptor table of the shell
    home,                              \* the table it started with
    phase,                             \* where the shell is
    ran,                               \* what the current line has run so far
    faithful,                          \* nothing came between the ring and the file
    lines, edits                       \* lines entered, edits made

editVars == <<text, cursor, insert, nav, draft>>
histVars == <<hist, histCount, histHead, stored, faithful>>
listVars == <<tokens, start, last, shouldRun>>
segVars == <<next, argv, saved>>
vars == <<editVars, histVars, listVars, segVars, fds, home, phase, ran, lines, edits>>

Slots == 0 .. HistoryCap - 1
Ring == [hist |-> hist, count |-> histCount, head |-> histHead]

\* history_mem_get's slot of the r-th newest line.
RingSlot(r, k) == (r.head + HistoryCap - 1 - k) % HistoryCap

\* history_mem_push.
Push(r, line) ==
    IF line = <<>> \/ (r.count > 0 /\ r.hist[RingSlot(r, 0)] = line) THEN r
    ELSE [hist |-> [r.hist EXCEPT ![r.head] = line], head |-> (r.head + 1) % HistoryCap,
          count |-> IF r.count < HistoryCap THEN r.count + 1 ELSE r.count]

\* load_history: the ring after the lines of the file.
Loaded(file) ==
    LET L[k \in 0 .. Len(file)] ==
            IF k = 0 THEN [hist |-> [s \in Slots |-> <<>>], count |-> 0, head |-> 0]
            ELSE Push(L[k - 1], file[k])
    IN  L[Len(file)]

\* A ring from the newest line to the oldest.
Newest(r) == [k \in 1 .. r.count |-> r.hist[RingSlot(r, k - 1)]]

\* The bytes of a file that has a newline after each line.
Bytes(file) ==
    LET B[k \in 0 .. Len(file)] == IF k = 0 THEN 0 ELSE B[k - 1] + Len(file[k]) + 1
    IN  B[Len(file)]

\* main up to the first prompt.  The standard streams are open, as they are in
\* a table the kernel sets up and in every copy of it; stdin may be a file.
Init ==
    /\ text = <<>> /\ cursor = 0 /\ insert = TRUE /\ nav = -1 /\ draft = <<>>
    /\ stored \in Stored /\ faithful = TRUE
    /\ LET r == Loaded(stored) IN hist = r.hist /\ histCount = r.count /\ histHead = r.head
    /\ tokens = <<>> /\ start = 1 /\ last = Success /\ shouldRun = TRUE
    /\ next = 1 /\ argv = <<>> /\ saved = [t \in Streams |-> Unsaved]
    /\ \E open \in Extra, in \in {Terminal("0"), Inherited} :
          home = [fd \in FDs |-> IF fd = 0 THEN in
                                 ELSE IF fd \in Streams THEN Terminal(IF fd = 1 THEN "1" ELSE "2")
                                 ELSE IF fd \in open THEN Inherited ELSE Closed]
    /\ fds = home
    /\ phase = "read" /\ ran = <<>> /\ lines = 0 /\ edits = 0
-----------------------------------------------------------------------------
\* read_line gets a key: TIOCGETKEY fails unless stdin is the terminal.
Reading == phase = "read" /\ fds[0] = Terminal("0")

\* The locals of a read_line that begins.
FreshLine == text' = <<>> /\ cursor' = 0 /\ insert' = TRUE /\ nav' = -1 /\ draft' = <<>>

\* The line and the cursor after a key that edits.  The draft is not looked at
\* again once nav is -1: it is cleared then.
Edited(t, c) ==
    /\ text' = t /\ cursor' = c /\ nav' = -1 /\ draft' = <<>>
    /\ edits < EditBound /\ edits' = edits + 1
    /\ UNCHANGED <<insert, histVars, listVars, segVars, fds, home, phase, ran, lines>>

Before(k) == SubSeq(text, 1, k)
After(k) == SubSeq(text, k + 1, Len(text))

Type(c) ==
    /\ Reading /\ Len(text) + 1 < LineCap
    /\ Edited(Before(cursor) \o <<c>> \o After(IF insert \/ cursor = Len(text) THEN cursor ELSE cursor + 1),
              cursor + 1)

Backspace ==
    /\ Reading /\ cursor > 0
    /\ Edited(Before(cursor - 1) \o After(cursor), cursor - 1)

Delete ==
    /\ Reading /\ cursor < Len(text)
    /\ Edited(Before(cursor) \o After(cursor + 1), cursor)

\* Tab leaves the place in the history as it is.
Tab ==
    /\ Reading
    /\ LET c == Completed(text, cursor)
       IN  c.text # text /\ text' = c.text /\ cursor' = c.cursor
    /\ edits < EditBound /\ edits' = edits + 1
    /\ UNCHANGED <<insert, nav, draft, histVars, listVars, segVars, fds, home, phase, ran, lines>>

\* A key that changes no text.
Moved ==
    UNCHANGED <<histVars, listVars, segVars, fds, home, phase, ran, lines, edits>>

Left == Reading /\ cursor > 0 /\ cursor' = cursor - 1 /\ UNCHANGED <<text, insert, nav, draft>> /\ Moved
Right ==
    Reading /\ cursor < Len(text) /\ cursor' = cursor + 1 /\ UNCHANGED <<text, insert, nav, draft>> /\ Moved
Insert == Reading /\ insert' = ~insert /\ UNCHANGED <<text, cursor, nav, draft>> /\ Moved

\* set_line.
SetLine(t) ==
    /\ text' = SubSeq(t, 1, IF Len(t) < LineCap THEN Len(t) ELSE LineCap - 1)
    /\ cursor' = Len(text')

Up ==
    /\ Reading /\ histCount > 0
    /\ draft' = IF nav < 0 THEN text ELSE draft
    /\ nav' = IF nav + 1 < histCount THEN nav + 1 ELSE nav
    /\ SetLine(hist[RingSlot(Ring, nav')])
    /\ UNCHANGED insert /\ Moved

Down ==
    /\ Reading /\ nav >= 0
    /\ nav' = nav - 1
    /\ SetLine(IF nav = 0 THEN draft ELSE hist[RingSlot(Ring, nav - 1)])
    /\ draft' = IF nav = 0 THEN <<>> ELSE draft
    /\ UNCHANGED insert /\ Moved

\* Ctrl+C, and Enter on an empty line.
Discard == Reading /\ FreshLine /\ Moved

\* stdin is no terminal: main reports it and returns.
InputFails ==
    /\ phase = "read" /\ ~Reading
    /\ phase' = "done"
    /\ UNCHANGED <<editVars, histVars, listVars, segVars, fds, home, ran, lines, edits>>
-----------------------------------------------------------------------------
\* Mutant: the record is written over the first one, without the lseek.
RecordedAtStart(line) ==
    IF Bytes(stored) + Len(line) + 1 > MaxBytes \/ stored = <<>> THEN <<line>>
    ELSE <<line>> \o Tail(stored)

\* The history file once append_history has written the line: a file that
\* would grow past the limit is cut to nothing first.
Recorded(line) ==
    IF Bytes(stored) + Len(line) + 1 > MaxBytes THEN <<line>> ELSE Append(stored, line)

\* append_history.  Opening may fail; a write that fails leaves the file as it
\* was or, where FAT12 had freed it for the new contents, empty.
AppendHistory(line) ==
    /\ stored' \in IF Len(line) + 1 > MaxBytes THEN {stored} ELSE {Recorded(line), stored, <<>>}
    /\ faithful' = \/ stored' \in {<<>>, <<line>>}
                   \/ faithful /\ Len(line) + 1 <= MaxBytes /\ stored' = Recorded(line)

\* Enter ends read_line; main records the line and parses it.  A line that does
\* not parse, or holds no token, is dropped.
Enter ==
    /\ Reading /\ text # <<>> /\ lines < LineBound
    /\ AppendHistory(text)
    /\ LET r == Push(Ring, text)
           parsed == ParseLine(text)
       IN  /\ hist' = r.hist /\ histCount' = r.count /\ histHead' = r.head
           /\ tokens' = parsed.tokens
           /\ phase' = IF parsed.tokens = <<>> THEN "read" ELSE "list"
    /\ FreshLine
    /\ lines' = lines + 1
    /\ UNCHANGED <<start, last, shouldRun, segVars, fds, home, ran, edits>>
-----------------------------------------------------------------------------
\* The first operator of the list at or behind start, or the end of the line.
SegmentEnd ==
    LET ops == {k \in start .. Len(tokens) : tokens[k].text \in ListOps}
    IN  IF ops = {} THEN Len(tokens) + 1 ELSE Least(ops)

\* Mutant: a list goes on by the status of its first command.
GoesOnByFirst(op, rc) ==
    LET st == IF ran = <<>> THEN rc ELSE ran[1].status
    IN  IF op = AndAnd THEN st = Success ELSE IF op = OrOr THEN st # Success ELSE TRUE

\* Whether the command behind the operator op is run after the status rc.
GoesOn(op, rc) ==
    IF op = AndAnd THEN rc = Success ELSE IF op = OrOr THEN rc # Success ELSE TRUE

\* The rest of an iteration of execute_tokens.  The list ends with the last
\* token and also, with an error, at an operator nothing follows.
AfterSegment(rc) ==
    /\ last' = rc
    /\ phase' = IF SegmentEnd >= Len(tokens) THEN "listed" ELSE "list"
    /\ start' = SegmentEnd + 1
    /\ shouldRun' = IF SegmentEnd >= Len(tokens) THEN shouldRun
                    ELSE GoesOn(tokens[SegmentEnd].text, rc)
    /\ UNCHANGED tokens

\* Mutant: a command that is not run is not passed over.
NextSegmentStays ==
    /\ phase = "list"
    /\ IF SegmentEnd = start
       THEN phase' = "listed" /\ UNCHANGED <<listVars, next>>
       ELSE IF shouldRun
       THEN phase' = "segment" /\ next' = start /\ UNCHANGED listVars
       ELSE UNCHANGED <<phase, listVars, next>>
    /\ UNCHANGED <<editVars, argv, saved, histVars, fds, home, ran, lines, edits>>

\* An iteration of execute_tokens up to run_segment.  An operator without a
\* command before it ends the list.
NextSegment ==
    /\ phase = "list"
    /\ IF SegmentEnd = start
       THEN phase' = "listed" /\ UNCHANGED <<listVars, next>>
       ELSE IF shouldRun
       THEN phase' = "segment" /\ next' = start /\ UNCHANGED listVars
       ELSE AfterSegment(last) /\ UNCHANGED next
    /\ UNCHANGED <<editVars, argv, saved, histVars, fds, home, ran, lines, edits>>

\* execute_tokens returns to main.
EndOfList ==
    /\ phase = "listed"
    /\ phase' = "read"
    /\ tokens' = <<>> /\ start' = 1 /\ last' = Success /\ shouldRun' = TRUE
    /\ next' = 1 /\ ran' = <<>>
    /\ UNCHANGED <<editVars, histVars, argv, saved, fds, home, lines, edits>>
-----------------------------------------------------------------------------
FreeIn(table) == {fd \in FDs : table[fd] = Closed}

\* The stream a redirection is for.
Target(op) == IF op = <<"<">> THEN 0 ELSE IF op[1] = "2" THEN 2 ELSE 1

\* msh_redir_apply saves the stream unless it has done so before.
Saves(t) == saved[t] = Unsaved

\* Mutant: a stream that is redirected already stays as it is.
AppliedOnce(t, d) ==
    LET fd == Least(FreeIn(fds))
        opened == [fds EXCEPT ![fd] = d]
        copy == Least(FreeIn(opened))
    IN  /\ FreeIn(fds) # {}
        /\ IF Saves(t)
           THEN /\ FreeIn(opened) # {}
                /\ saved' = [saved EXCEPT ![t] = copy]
                /\ fds' = [opened EXCEPT ![copy] = fds[t], ![t] = d, ![fd] = Closed]
           ELSE UNCHANGED <<saved, fds>>

\* msh_redir_apply succeeds: the file takes the lowest free descriptor, the
\* copy of the stream the next one, and dup2 and close move the file onto the
\* stream.
Applied(t, d) ==
    LET fd == Least(FreeIn(fds))
        opened == [fds EXCEPT ![fd] = d]
        copy == Least(FreeIn(opened))
    IN  /\ FreeIn(fds) # {}
        /\ IF Saves(t)
           THEN /\ FreeIn(opened) # {}
                /\ saved' = [saved EXCEPT ![t] = copy]
                /\ fds' = [opened EXCEPT ![copy] = fds[t], ![t] = d, ![fd] = Closed]
           ELSE saved' = saved /\ fds' = [opened EXCEPT ![t] = d, ![fd] = Closed]

\* Mutant: the copies are left open.
RestoreOneLeaks(table, t) ==
    IF saved[t] < 0 THEN table ELSE [table EXCEPT ![t] = table[saved[t]]]

\* msh_redir_restore for one stream: dup2 and close.
RestoreOne(table, t) ==
    IF saved[t] < 0 THEN table ELSE [table EXCEPT ![t] = table[saved[t]], ![saved[t]] = Closed]

\* msh_redir_restore.
Restored == RestoreOne(RestoreOne(RestoreOne(fds, 0), 1), 2)

InSegment == phase = "segment" /\ next < SegmentEnd /\ Len(argv) < ArgCap - 1
AtRedirect == InSegment /\ tokens[next].text \in RedirectOps

Redirect ==
    /\ AtRedirect /\ next + 1 < SegmentEnd
    /\ Applied(Target(tokens[next].text), Description(tokens[next].text, tokens[next + 1].text))
    /\ next' = next + 2
    /\ UNCHANGED <<editVars, histVars, listVars, argv, home, phase, ran, lines, edits>>

\* The end of run_segment: the streams are put back.
EndSegment(rc) ==
    /\ fds' = Restored
    /\ saved' = [t \in Streams |-> Unsaved] /\ argv' = <<>>
    /\ AfterSegment(rc)
    /\ UNCHANGED <<editVars, next, home, lines, edits>>

\* A redirection without a name, or one that cannot be opened, or finds no
\* descriptor for itself or for the copy: the command is not run.
RedirectFails ==
    /\ AtRedirect
    /\ EndSegment(Failure)
    /\ ran' = Append(ran, [at |-> start, status |-> Failure, args |-> <<>>, streams |-> <<>>])
    /\ UNCHANGED histVars

Word ==
    /\ InSegment /\ tokens[next].text \notin RedirectOps
    /\ argv' = argv \o IF tokens[next].glob THEN Expansion(tokens[next].text, argv)
                       ELSE <<tokens[next].text>>
    /\ next' = next + 1
    /\ UNCHANGED <<editVars, histVars, listVars, saved, fds, home, phase, ran, lines, edits>>

\* The command of a segment all of whose tokens have been seen, or whose argv
\* is full.  The program of history -c empties the history file.
Command(rc) ==
    /\ phase = "segment" /\ ~InSegment
    /\ argv # <<>> /\ argv[1] # ExitWord
    /\ argv[1] \notin Programs \cup {CdWord} => rc = Failure
    /\ argv[1] = CdWord /\ Len(argv) > 2 => rc = Failure
    /\ EndSegment(rc)
    /\ ran' = Append(ran, [at |-> start, status |-> rc, args |-> argv,
                           streams |-> [t \in Streams |-> fds[t]]])
    /\ IF argv[1] \in Programs /\ rc = Success
       THEN /\ stored' \in {stored, <<>>}
            /\ faithful' = (faithful \/ stored' = <<>>)
            /\ UNCHANGED <<hist, histCount, histHead>>
       ELSE UNCHANGED histVars

\* A segment of redirections only succeeds.
NoCommand ==
    /\ phase = "segment" /\ ~InSegment /\ argv = <<>>
    /\ EndSegment(Success)
    /\ ran' = Append(ran, [at |-> start, status |-> Success, args |-> <<>>, streams |-> <<>>])
    /\ UNCHANGED histVars

\* exit: the rest of the line is not run and main returns.
Exit ==
    /\ phase = "segment" /\ ~InSegment
    /\ argv # <<>> /\ argv[1] = ExitWord
    /\ fds' = Restored
    /\ saved' = [t \in Streams |-> Unsaved]
    /\ phase' = "done"
    /\ UNCHANGED <<editVars, histVars, listVars, next, argv, home, ran, lines, edits>>

Key ==
    \/ \E c \in Keys : Type(c)
    \/ Backspace \/ Delete \/ Tab \/ Left \/ Right \/ Insert \/ Up \/ Down \/ Discard \/ Enter

Execute ==
    \/ NextSegment \/ EndOfList \/ Redirect \/ RedirectFails \/ Word
    \/ \E rc \in {Success, Failure} : Command(rc)
    \/ NoCommand \/ Exit

Next == Key \/ InputFails \/ Execute

\* The shell goes on with a line it has read: nothing else runs until the
\* command it waits for has exited, and commands are taken to exit.
Spec == Init /\ [][Next]_vars /\ WF_vars(Execute)
-----------------------------------------------------------------------------
\* Type correctness; the line leaves room for its NUL, argv for its null, and
\* the history file never grows past history_max_bytes.
TypeOK ==
    /\ Len(text) < LineCap /\ cursor \in 0 .. Len(text) /\ insert \in BOOLEAN
    /\ histCount \in 0 .. HistoryCap /\ histHead \in Slots /\ nav \in -1 .. histCount - 1
    /\ Bytes(stored) <= MaxBytes
    /\ Len(tokens) <= TokenCap /\ start \in 1 .. Len(tokens) + 2
    /\ {last} \cup {ran[k].status : k \in 1 .. Len(ran)} \subseteq {Success, Failure}
    /\ Len(argv) < ArgCap
    /\ saved \in [Streams -> FDs \cup {Unsaved}]
    /\ phase \in {"read", "list", "segment", "listed", "done"}

\* Whatever was redirected, twice or in vain, with however few descriptors
\* free: between two commands the shell's table is the one it started with, no
\* copy left behind; and while a command runs the shell holds a reference to
\* each of its own streams, as the comment at redir.c:6 has it.
StreamsRestored ==
    /\ phase # "segment" => fds = home
    /\ phase = "segment" => \A t \in Streams : \E fd \in FDs : fds[fd] = home[t]

\* The redirections of the tokens from..to - 1 of the line, read from the left.
RedirectionsOf(from, to) ==
    LET R[k \in from .. to] ==
            IF k >= to - 1 THEN <<>>
            ELSE IF tokens[k].text \in RedirectOps
                 THEN <<[op |-> tokens[k].text, path |-> tokens[k + 1].text]>>
                      \o (IF k + 2 <= to THEN R[k + 2] ELSE <<>>)
                 ELSE R[k + 1]
    IN  R[from]

SegmentStarts == {1} \cup {k + 1 : k \in {k \in 1 .. Len(tokens) : tokens[k].text \in ListOps}}
EndOf(k) == LET later == {j \in SegmentStarts : j > k}
            IN  IF later = {} THEN Len(tokens) + 1 ELSE Least(later) - 1

\* A program that is run finds on each stream the file of the last redirection
\* of that stream in its own part of the line, and without one the stream of the
\* shell, whatever the commands before it were given: unless its arguments fill
\* argv, where run_segment stops looking at the tokens.
CommandStreams ==
    \A e \in {ran[k] : k \in 1 .. Len(ran)} :
        (e.args # <<>> /\ Len(e.args) < ArgCap - 1) =>
            LET rs == RedirectionsOf(e.at, EndOf(e.at))
            IN  \A t \in Streams :
                  LET mine == {k \in 1 .. Len(rs) : Target(rs[k].op) = t}
                  IN  e.streams[t] = IF mine = {} THEN home[t]
                                     ELSE LET r == rs[Greatest(mine)] IN Description(r.op, r.path)

\* The commands of a list run from the left, each at most once, and the one
\* behind an operator runs exactly when the list to its left has the status the
\* operator asks for, where a command that was skipped passes on the status of
\* what is to its left.
ListSemantics ==
    LET passed == {k \in SegmentStarts : k < start}
        Runs(k) == {j \in 1 .. Len(ran) : ran[j].at = k}
        Left_(k) == Greatest({j \in SegmentStarts : j < k})
        Value[k \in SegmentStarts] ==
            IF Runs(k) # {} THEN ran[Least(Runs(k))].status ELSE Value[Left_(k)]
        Wanted(k) == \/ k = 1 \/ tokens[k - 1].text = Semicolon
                     \/ tokens[k - 1].text = AndAnd /\ Value[Left_(k)] = Success
                     \/ tokens[k - 1].text = OrOr /\ Value[Left_(k)] # Success
    IN  /\ \A i, j \in 1 .. Len(ran) : i < j => ran[i].at < ran[j].at
        /\ \A k \in passed : Runs(k) # {} <=> Wanted(k)

\* A shell started now finds in the history file the newest lines of this one,
\* in the same order and without the repeats this one dropped, whether or not
\* the file was cut in between, as long as every line since could be recorded.
\* The types hold.
RestartKeepsHistory ==
    /\ TypeOK
    /\ faithful => StartsWith(Newest(Ring), Newest(Loaded(stored)))

\* Every line entered is worked off: the shell comes back to its prompt or exits.
LineFinishes == phase = "list" ~> phase \in {"read", "done"}
=============================================================================
