------------------------------ MODULE MshProofs ------------------------------
(***************************************************************************)
(* Proofs about the redirections of Msh, for every size of the descriptor  *)
(* table, every table the shell may inherit and every line.                *)
(***************************************************************************)
EXTENDS Msh, NaturalsInduction, WellFoundedInduction, TLAPS

NoneSaved == [t \in Streams |-> Unsaved]

\* The table the shell started with has its streams open.
HomeOK ==
    /\ home = [fd \in FDs |-> home[fd]]
    /\ \A t \in Streams : home[t] # Closed

\* The table between msh_redir_init and msh_redir_restore: a stream is as it
\* was or has a copy of its own above the streams, in a place that was free;
\* everything else is as it was.
Kept ==
    /\ fds = [fd \in FDs |-> fds[fd]]
    /\ saved \in [Streams -> (FDs \ Streams) \cup {Unsaved}]
    /\ \A t \in Streams : fds[t] # Closed
    /\ \A t \in Streams : saved[t] = Unsaved => fds[t] = home[t]
    /\ \A t \in Streams : saved[t] # Unsaved =>
          home[saved[t]] = Closed /\ fds[saved[t]] = home[t]
    /\ \A t, u \in Streams : t # u /\ saved[t] # Unsaved => saved[t] # saved[u]
    /\ \A fd \in FDs \ Streams : (\A t \in Streams : saved[t] # fd) => fds[fd] = home[fd]

\* The inductive invariant.
IInv ==
    /\ HomeOK
    /\ Kept
    /\ phase # "segment" => fds = home /\ saved = NoneSaved

\* The standard streams are places of the table.
LEMMA StreamsInTable == Streams \subseteq FDs /\ FDs \subseteq Nat
BY TableAssumption DEF Streams, FDs

\* A non-empty set of numbers has the least element the table search returns.
LEMMA LeastMember ==
    ASSUME NEW S \in SUBSET Nat, S # {}
    PROVE  Least(S) \in S
<1> DEFINE R == {ss \in Nat \X Nat : ss[1] < ss[2]}
<1>1. IsWellFoundedOn(R, Nat)
  BY NatLessThanWellFounded DEF OpToRel
<1> HIDE DEF R
<1>2. PICK x \in S : \A y \in S : ~ (<<y, x>> \in R)
  BY <1>1, WFMin
<1>3. \A y \in S : x <= y
  <2>1. SUFFICES ASSUME NEW y \in S, y < x PROVE FALSE
    OBVIOUS
  <2>2. <<y, x>> \in R
    BY <2>1 DEF R
  <2> QED
    BY <1>2, <2>2
<1> QED
  BY <1>3 DEF Least

\* A free place of a table is above the streams and holds no copy.
LEMMA FreePlace ==
    ASSUME IInv, NEW fd \in FreeIn(fds)
    PROVE  /\ fd \in FDs \ Streams
           /\ \A t \in Streams : saved[t] # fd
           /\ home[fd] = Closed
<1>1. fd \in FDs /\ fds[fd] = Closed /\ fd # Unsaved
  BY StreamsInTable DEF FreeIn, Unsaved
<1>2. fd \notin Streams
  BY <1>1 DEF IInv, Kept
<1>3. \A t \in Streams : saved[t] # fd
  BY <1>1 DEF IInv, Kept, HomeOK
<1> QED
  BY <1>1, <1>2, <1>3 DEF IInv, Kept

\* msh_redir_apply keeps the table in order.
LEMMA AppliedKept ==
    ASSUME IInv, NEW t \in Streams, NEW d, d # Closed, Applied(t, d), home' = home
    PROVE  Kept'
<1> DEFINE fd == Least(FreeIn(fds))
           opened == [fds EXCEPT ![fd] = d]
           copy == Least(FreeIn(opened))
<1>1. FreeIn(fds) # {} /\ FreeIn(fds) \in SUBSET Nat
  BY StreamsInTable DEF Applied, FreeIn
<1>2. fd \in FreeIn(fds)
  BY <1>1, LeastMember
<1>3. fd \in FDs \ Streams /\ home[fd] = Closed /\ fds[fd] = Closed /\ \A u \in Streams : saved[u] # fd
  BY <1>2, FreePlace DEF FreeIn
<1>4. CASE Saves(t)
  <2>1. FreeIn(opened) # {} /\ FreeIn(opened) \in SUBSET Nat
    BY <1>4, StreamsInTable DEF Applied, FreeIn
  <2>2. copy \in FreeIn(opened)
    BY <2>1, LeastMember
  <2>3. copy \in FDs /\ opened[copy] = Closed
    BY <2>2 DEF FreeIn
  <2>4. saved' = [saved EXCEPT ![t] = copy]
    BY <1>4 DEF Applied
  <2>5. fds' = [opened EXCEPT ![copy] = fds[t], ![t] = d, ![fd] = Closed]
    BY <1>4 DEF Applied
  <2> HIDE DEF fd, copy
  <2>6. copy # fd /\ fds[copy] = Closed
    BY <2>3, <1>3, StreamsInTable DEF IInv, Kept
  <2>7. copy \in FDs \ Streams /\ home[copy] = Closed /\ \A u \in Streams : saved[u] # copy
    BY <2>3, <2>6, FreePlace DEF FreeIn
  <2>8. saved[t] = Unsaved /\ fds[t] = home[t]
    BY <1>4 DEF Saves, IInv, Kept
  <2>9. /\ fds' = [x \in FDs |-> fds'[x]]
        /\ \A x \in FDs : fds'[x] = IF x = copy THEN home[t] ELSE IF x = t THEN d ELSE fds[x]
    BY <2>5, <2>6, <2>7, <2>8, <1>3, StreamsInTable DEF IInv, Kept
  <2>10. saved' \in [Streams -> (FDs \ Streams) \cup {Unsaved}]
    BY <2>4, <2>7 DEF IInv, Kept
  <2>11. \A u \in Streams : saved'[u] = IF u = t THEN copy ELSE saved[u]
    BY <2>4 DEF IInv, Kept
  <2>12. copy # Unsaved
    BY <2>7, StreamsInTable DEF Unsaved
  <2>13. \A u \in Streams : fds'[u] # Closed
    BY <2>7, <2>9, StreamsInTable DEF IInv, Kept
  <2>14. \A u \in Streams : saved'[u] = Unsaved => fds'[u] = home[u]
    BY <2>7, <2>9, <2>11, <2>12, StreamsInTable DEF IInv, Kept
  <2>15. \A u \in Streams : saved'[u] # Unsaved =>
            home[saved'[u]] = Closed /\ fds'[saved'[u]] = home[u]
    <3>1. SUFFICES ASSUME NEW u \in Streams, saved'[u] # Unsaved
                   PROVE  home[saved'[u]] = Closed /\ fds'[saved'[u]] = home[u]
      OBVIOUS
    <3>2. CASE u = t
      BY <3>2, <2>7, <2>9, <2>11
    <3>3. CASE u # t
      <4>1. saved'[u] = saved[u] /\ saved[u] \in FDs \ Streams /\ saved[u] # copy
        BY <3>1, <3>3, <2>7, <2>11 DEF IInv, Kept
      <4>2. home[saved[u]] = Closed /\ fds[saved[u]] = home[u]
        BY <3>1, <4>1 DEF IInv, Kept
      <4> QED
        BY <4>1, <4>2, <2>9
    <3> QED
      BY <3>2, <3>3
  <2>16. \A u, v \in Streams : u # v /\ saved'[u] # Unsaved => saved'[u] # saved'[v]
    BY <2>7, <2>11, <2>12 DEF IInv, Kept
  <2>17. \A x \in FDs \ Streams : (\A u \in Streams : saved'[u] # x) => fds'[x] = home[x]
    <3>1. SUFFICES ASSUME NEW x \in FDs \ Streams, \A u \in Streams : saved'[u] # x
                   PROVE  fds'[x] = home[x]
      OBVIOUS
    <3>2. x # copy /\ x # t /\ x # Unsaved
      BY <3>1, <2>11, StreamsInTable DEF Unsaved
    <3>3. \A u \in Streams : saved[u] # x
      BY <3>1, <3>2, <2>8, <2>11
    <3> QED
      BY <3>2, <3>3, <2>9 DEF IInv, Kept
  <2> QED
    BY <2>9, <2>10, <2>13, <2>14, <2>15, <2>16, <2>17 DEF Kept
<1>5. CASE ~Saves(t)
  <2>1. saved' = saved /\ fds' = [opened EXCEPT ![t] = d, ![fd] = Closed]
    BY <1>5 DEF Applied
  <2> HIDE DEF fd
  <2>2. /\ fds' = [x \in FDs |-> fds'[x]]
        /\ \A x \in FDs : fds'[x] = IF x = t THEN d ELSE fds[x]
    BY <2>1, <1>3, StreamsInTable DEF IInv, Kept
  <2>3. saved[t] # Unsaved
    BY <1>5 DEF Saves
  <2>4. saved' \in [Streams -> (FDs \ Streams) \cup {Unsaved}]
    BY <2>1 DEF IInv, Kept
  <2>5. \A u \in Streams : fds'[u] # Closed /\ (saved[u] = Unsaved => fds'[u] = home[u])
    BY <2>2, <2>3, StreamsInTable DEF IInv, Kept
  <2>6. \A u \in Streams : saved[u] # Unsaved =>
            home[saved[u]] = Closed /\ fds'[saved[u]] = home[u]
    <3>1. SUFFICES ASSUME NEW u \in Streams, saved[u] # Unsaved
                   PROVE  home[saved[u]] = Closed /\ fds'[saved[u]] = home[u]
      OBVIOUS
    <3>2. saved[u] \in FDs \ Streams /\ home[saved[u]] = Closed /\ fds[saved[u]] = home[u]
      BY <3>1 DEF IInv, Kept
    <3> QED
      BY <3>2, <2>2
  <2>7. \A x \in FDs \ Streams : (\A u \in Streams : saved[u] # x) => fds'[x] = home[x]
    BY <2>2 DEF IInv, Kept
  <2>8. \A u, v \in Streams : u # v /\ saved[u] # Unsaved => saved[u] # saved[v]
    BY DEF IInv, Kept
  <2> QED
    BY <2>1, <2>2, <2>4, <2>5, <2>6, <2>7, <2>8 DEF Kept
<1> QED
  BY <1>4, <1>5

\* msh_redir_restore puts the table back as it was.
LEMMA RestoredIsHome ==
    ASSUME IInv
    PROVE  Restored = home
<1> DEFINE Back(T, t) == [x \in FDs |-> IF x = t THEN home[t]
                                        ELSE IF x = saved[t] THEN Closed ELSE T[x]]
<1>1. ASSUME NEW T, NEW t \in Streams, T = [x \in FDs |-> T[x]],
             saved[t] = Unsaved => T[t] = home[t],
             saved[t] # Unsaved => T[saved[t]] = home[t]
      PROVE  RestoreOne(T, t) = Back(T, t)
  <2>1. CASE saved[t] = Unsaved
    <3>1. RestoreOne(T, t) = T
      BY <2>1 DEF RestoreOne, Unsaved
    <3>2. \A x \in FDs : x # saved[t]
      BY <2>1, StreamsInTable DEF Unsaved
    <3> QED
      BY <3>1, <3>2, <1>1, <2>1
  <2>2. CASE saved[t] # Unsaved
    <3>1. saved[t] \in FDs \ Streams /\ ~(saved[t] < 0)
      BY <2>2, StreamsInTable DEF IInv, Kept
    <3>2. RestoreOne(T, t) = [T EXCEPT ![t] = T[saved[t]], ![saved[t]] = Closed]
      BY <3>1 DEF RestoreOne
    <3> QED
      BY <3>1, <3>2, <1>1, <2>2, StreamsInTable
  <2> QED
    BY <2>1, <2>2
<1>2. 0 \in Streams /\ 1 \in Streams /\ 2 \in Streams /\ \A t \in Streams : t \in {0, 1, 2}
  BY DEF Streams
<1> DEFINE T0 == RestoreOne(fds, 0)
           T1 == RestoreOne(T0, 1)
           T2 == RestoreOne(T1, 2)
<1>3. \A t \in Streams : saved[t] # Unsaved => saved[t] \in FDs \ Streams
  BY DEF IInv, Kept
<1>4. T0 = Back(fds, 0)
  BY <1>1, <1>2 DEF IInv, Kept
<1> HIDE DEF T0
<1>5. T1 = Back(T0, 1)
  <2>1. T0 = [x \in FDs |-> T0[x]]
    BY <1>4
  <2>2. saved[1] = Unsaved => T0[1] = home[1]
    BY <1>2, <1>3, <1>4, StreamsInTable DEF IInv, Kept, Unsaved
  <2>3. saved[1] # Unsaved => T0[saved[1]] = home[1]
    BY <1>2, <1>3, <1>4, StreamsInTable DEF IInv, Kept, Unsaved
  <2> QED
    BY <1>1, <1>2, <2>1, <2>2, <2>3
<1> HIDE DEF T1
<1>6. T2 = Back(T1, 2)
  <2>1. T1 = [x \in FDs |-> T1[x]]
    BY <1>5
  <2>2. saved[2] = Unsaved => T1[2] = home[2]
    BY <1>2, <1>3, <1>4, <1>5, StreamsInTable DEF IInv, Kept, Unsaved
  <2>3. saved[2] # Unsaved => T1[saved[2]] = home[2]
    BY <1>2, <1>3, <1>4, <1>5, StreamsInTable DEF IInv, Kept, Unsaved
  <2> QED
    BY <1>1, <1>2, <2>1, <2>2, <2>3
<1> HIDE DEF T2
<1>7. T2 = [x \in FDs |-> T2[x]] /\ home = [x \in FDs |-> home[x]]
  BY <1>6 DEF IInv, HomeOK
<1>8. \A x \in FDs : T2[x] = home[x]
  BY <1>2, <1>3, <1>4, <1>5, <1>6, StreamsInTable DEF IInv, Kept, HomeOK, Unsaved
<1>9. T2 = home
  BY <1>7, <1>8
<1> QED
  BY <1>9 DEF Restored, T0, T1, T2

\* A table as it was, with nothing saved, is in order.
LEMMA HomeKept ==
    ASSUME HomeOK, fds' = home, home' = home, saved' = NoneSaved
    PROVE  HomeOK' /\ Kept'
BY StreamsInTable DEF HomeOK, Kept, NoneSaved, Unsaved

\* The end of a segment leaves the table as it was.
LEMMA EndSegmentIInv ==
    ASSUME IInv, fds' = Restored, saved' = NoneSaved, home' = home
    PROVE  IInv'
BY RestoredIsHome, HomeKept DEF IInv

\* The invariant holds of every table the shell may start with.
LEMMA InitIInv == ASSUME Init PROVE IInv
<1>1. fds = home /\ saved = NoneSaved /\ phase = "read"
  BY DEF Init, NoneSaved
<1>2. PICK open \in Extra, in \in {Terminal("0"), Inherited} :
          home = [fd \in FDs |-> IF fd = 0 THEN in
                                 ELSE IF fd \in Streams THEN Terminal(IF fd = 1 THEN "1" ELSE "2")
                                 ELSE IF fd \in open THEN Inherited ELSE Closed]
  BY DEF Init
<1>3. \A t : Terminal(t) # Closed
  BY DEF Terminal, Closed, Description
<1>4. Inherited # Closed
  BY DEF Inherited, Closed, Description
<1>5. HomeOK
  BY <1>2, <1>3, <1>4, StreamsInTable DEF HomeOK
<1> QED
  BY <1>1, <1>5, StreamsInTable DEF IInv, HomeOK, Kept, NoneSaved, Unsaved

\* A step that leaves the table and the saved copies alone, and neither begins
\* nor ends a segment.
LEMMA SameTableIInv ==
    ASSUME IInv, UNCHANGED <<fds, home, saved>>, phase' # "segment" => phase # "segment"
    PROVE  IInv'
BY DEF IInv, HomeOK, Kept, NoneSaved

\* Every step keeps the invariant: only run_segment touches the table.
LEMMA NextIInv == ASSUME IInv, [Next]_vars PROVE IInv'
<1> USE DEF segVars
<1>1. CASE UNCHANGED vars
  BY <1>1, SameTableIInv DEF vars
<1>2. CASE Key
  <2>1. UNCHANGED <<fds, home, saved>> /\ phase = "read"
    BY <1>2 DEF Key, Type, Backspace, Delete, Tab, Left, Right, Insert, Up, Down, Discard, Enter,
                Edited, Moved, Reading
  <2> QED
    BY <2>1, SameTableIInv
<1>3. CASE InputFails
  BY <1>3, SameTableIInv DEF InputFails
<1>4. CASE NextSegment
  BY <1>4, SameTableIInv DEF NextSegment
<1>5. CASE EndOfList
  BY <1>5, SameTableIInv DEF EndOfList
<1>6. CASE Redirect
  <2> DEFINE op == tokens[next].text
             d == Description(op, tokens[next + 1].text)
  <2>1. Applied(Target(op), d) /\ op \in RedirectOps /\ home' = home /\ phase' = phase
        /\ phase = "segment"
    BY <1>6 DEF Redirect, AtRedirect, InSegment
  <2>2. op # <<>>
    BY <2>1 DEF RedirectOps
  <2>3. d # Closed
    BY <2>2 DEF Description, Closed
  <2>4. Target(op) \in Streams
    BY DEF Target, Streams
  <2> HIDE DEF op, d
  <2>5. Kept'
    BY <2>1, <2>3, <2>4, AppliedKept
  <2> QED
    BY <2>1, <2>5 DEF IInv, HomeOK
<1>7. CASE RedirectFails
  BY <1>7, EndSegmentIInv DEF RedirectFails, EndSegment, NoneSaved
<1>8. CASE Word
  BY <1>8, SameTableIInv DEF Word, InSegment
<1>9. ASSUME NEW rc \in {Success, Failure}, Command(rc) PROVE IInv'
  BY <1>9, EndSegmentIInv DEF Command, EndSegment, NoneSaved
<1>10. CASE NoCommand
  BY <1>10, EndSegmentIInv DEF NoCommand, EndSegment, NoneSaved
<1>11. CASE Exit
  BY <1>11, EndSegmentIInv DEF Exit, NoneSaved
<1> QED
  BY <1>1, <1>2, <1>3, <1>4, <1>5, <1>6, <1>7, <1>8, <1>9, <1>10, <1>11 DEF Next, Execute

\* The invariant implies that the streams are restored.
LEMMA IInvStreams == ASSUME IInv PROVE StreamsRestored
<1>1. ASSUME NEW t \in Streams PROVE \E fd \in FDs : fds[fd] = home[t]
  <2>1. CASE saved[t] = Unsaved
    BY <2>1, StreamsInTable DEF IInv, Kept
  <2>2. CASE saved[t] # Unsaved
    BY <2>2 DEF IInv, Kept
  <2> QED
    BY <2>1, <2>2
<1> QED
  BY <1>1 DEF StreamsRestored, IInv

\* For every descriptor table and every line: when a command of the list has
\* ended the shell's table is the one it started with, and while one runs each
\* of the shell's own streams is still open in it (msh_redir_apply and
\* msh_redir_restore, redir.c).
THEOREM RedirectionsUndone == Spec => []StreamsRestored
<1>1. Init => IInv
  BY InitIInv
<1>2. IInv /\ [Next]_vars => IInv'
  BY NextIInv
<1>3. IInv => StreamsRestored
  BY IInvStreams
<1> QED
  BY <1>1, <1>2, <1>3, PTL DEF Spec
=============================================================================
