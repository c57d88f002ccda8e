----------------------------- MODULE ToolPtyProofs -----------------------------
(***************************************************************************)
(* What the run of a tool satisfies for every script, every size of the    *)
(* PTY and of the reads, every clock and every number of failing calls.    *)
(***************************************************************************)
EXTENDS ToolPty, SequenceTheorems, WellFoundedInduction, TLAPS

-------------------------------------------------------------------------------
(* The operators the steps are built from.                                 *)

\* A set of numbers that is not empty has a least one.
LEMMA Least ==
    ASSUME NEW S, S \subseteq Nat, S # {}
    PROVE  \E n \in S : \A m \in S : n <= m
<1> DEFINE R == OpToRel(<, Nat)
<1>1. IsWellFoundedOn(R, Nat)  BY NatLessThanWellFounded, Zenon
<1>2. \A m \in Nat, n \in Nat : m < n => <<m, n>> \in R  BY DEF OpToRel
<1> HIDE DEF R
<1>3. PICK n \in S : \A m \in S : <<m, n>> \notin R  BY <1>1, WFMin
<1>4. \A m \in S : ~(m < n)  BY <1>2, <1>3
<1> QED  BY <1>4

\* What tools write is a sequence of bytes: concatenating sequences gives one.  The
\* induction over their number is by the least counterexample.
LEMMA FlattenIsSeq ==
    ASSUME NEW B, NEW s \in Seq(Seq(B))
    PROVE  FlattenSeq(s) \in Seq(B)
<1> DEFINE N == Len(s)
<1>0. N \in Nat /\ \A i \in 1 .. N : s[i] \in Seq(B)  OBVIOUS
<1>1. CASE N = 0
  <2>1. s = << >> /\ s \in Seq(B)  BY <1>1
  <2> QED  BY <1>1, <2>1 DEF FlattenSeq
<1>2. CASE N # 0
  <2> DEFINE Begun(n, g) == /\ g \in [1 .. n -> Seq(B)]
                            /\ \A i \in 1 .. n :
                                 g[i] = IF i = 1 THEN s[i] ELSE g[i - 1] \o s[i]
             bad == {n \in 1 .. N : ~ \E g : Begun(n, g)}
  <2>1. bad = {}
    <3> SUFFICES ASSUME bad # {} PROVE FALSE  OBVIOUS
    <3>1. bad \subseteq Nat  OBVIOUS
    <3> HIDE DEF bad
    <3>2. PICK n \in bad : \A m \in bad : n <= m  BY <3>1, Least
    <3>3. n \in 1 .. N /\ ~ \E g : Begun(n, g)  BY <3>2 DEF bad
    <3>4. CASE n = 1
      <4>1. Begun(1, [i \in 1 .. 1 |-> s[1]])  BY <1>0, <1>2
      <4> QED  BY <3>3, <3>4, <4>1
    <3>5. CASE n # 1
      <4>1. n - 1 \in 1 .. N /\ ~(n <= n - 1)  BY <1>0, <3>3, <3>5
      <4>2. n - 1 \notin bad  BY <3>2, <4>1
      <4>3. PICK g : Begun(n - 1, g)  BY <4>1, <4>2 DEF bad
      <4> DEFINE h == [i \in 1 .. n |-> IF i = n THEN g[n - 1] \o s[n] ELSE g[i]]
      <4>4. g[n - 1] \in Seq(B) /\ s[n] \in Seq(B)  BY <1>0, <3>3, <4>1, <4>3
      <4>5. g[n - 1] \o s[n] \in Seq(B)  BY <4>4
      <4>6. h \in [1 .. n -> Seq(B)]  BY <1>0, <3>3, <4>3, <4>5
      <4>7. ASSUME NEW i \in 1 .. n
            PROVE  h[i] = IF i = 1 THEN s[i] ELSE h[i - 1] \o s[i]
        <5>1. CASE i = n
          <6>1. n \in 1 .. n /\ n - 1 \in 1 .. n /\ n - 1 # n  BY <1>0, <3>3, <4>1
          <6>2. h[n] = g[n - 1] \o s[n] /\ h[n - 1] = g[n - 1]  BY <6>1
          <6> QED  BY <3>5, <5>1, <6>2
        <5>2. CASE i # n
          <6>1. i \in 1 .. n - 1  BY <1>0, <3>3, <5>2
          <6>2. i # 1 => i - 1 \in 1 .. n /\ i - 1 # n  BY <1>0, <3>3, <6>1
          <6>3. h[i] = g[i] /\ (i # 1 => h[i - 1] = g[i - 1])  BY <5>2, <6>2
          <6> QED  BY <4>3, <6>1, <6>3
        <5> QED  BY <5>1, <5>2
      <4>8. Begun(n, h)  BY <4>6, <4>7
      <4> QED  BY <3>3, <4>8
    <3> QED  BY <3>4, <3>5
  <2>2. N \in 1 .. N  BY <1>0, <1>2
  <2>3. \A n \in 1 .. N : \E g : Begun(n, g)  BY <2>1
  <2>4. PICK g : Begun(N, g)  BY <2>2, <2>3
  <2> DEFINE IsFlat(f) == f = [i \in 1 .. N |-> IF i = 1 THEN s[i] ELSE f[i - 1] \o s[i]]
             flat == CHOOSE f : IsFlat(f)
  <2>5. IsFlat(g)  BY <2>4
  <2>6. IsFlat(flat)  BY <2>5
  <2>7. FlattenSeq(s) = flat[N]  BY <1>2 DEF FlattenSeq
  <2> DEFINE wrong == {i \in 1 .. N : flat[i] \notin Seq(B)}
  <2> HIDE DEF flat
  <2>8. wrong = {}
    <3> SUFFICES ASSUME wrong # {} PROVE FALSE  OBVIOUS
    <3>1. wrong \subseteq Nat  OBVIOUS
    <3> HIDE DEF wrong
    <3>2. PICK i \in wrong : \A j \in wrong : i <= j  BY <3>1, Least
    <3>3. i \in 1 .. N /\ flat[i] \notin Seq(B)  BY <3>2 DEF wrong
    <3>4. flat[i] = IF i = 1 THEN s[i] ELSE flat[i - 1] \o s[i]  BY <2>6, <3>3
    <3>5. i # 1  BY <1>0, <3>3, <3>4
    <3>6. i - 1 \in 1 .. N /\ ~(i <= i - 1)  BY <1>0, <3>3, <3>5
    <3>7. i - 1 \notin wrong  BY <3>2, <3>6
    <3>8. flat[i - 1] \in Seq(B)  BY <3>6, <3>7 DEF wrong
    <3> QED  BY <1>0, <3>3, <3>4, <3>5, <3>8
  <2>9. N \in 1 .. N  BY <2>2
  <2> QED  BY <2>7, <2>8, <2>9
<1> QED  BY <1>1, <1>2

\* The bytes there are.
Bytes == {"x", "y", "cr", "nl", "esc", "[", "0", "]", "\\", "bel"}

\* What a script writes is a sequence of them.
LEMMA OutputType == ASSUME NEW s \in Scripts PROVE Output(s) \in Seq(Bytes)
<1>1. s \in Seq(Tokens)  BY ScriptsAssumption
<1>2. ASSUME NEW t \in Tokens PROVE TokenBytes(t) \in Seq(Bytes)
  <2>1. CASE t = "sgr"    BY <2>1 DEF TokenBytes, Bytes
  <2>2. CASE t = "title"  BY <2>2 DEF TokenBytes, Bytes
  <2>3. CASE t = "bell"   BY <2>3 DEF TokenBytes, Bytes
  <2>4. CASE t \notin {"sgr", "title", "bell"}
    <3>1. TokenBytes(t) = <<t>> /\ t \in Bytes  BY <2>4 DEF TokenBytes, Tokens, Bytes
    <3> QED  BY <3>1
  <2> QED  BY <2>1, <2>2, <2>3, <2>4
<1> DEFINE parts == [i \in DOMAIN s |-> TokenBytes(s[i])]
<1>3. parts \in Seq(Seq(Bytes))
  <2>1. DOMAIN s = 1 .. Len(s) /\ Len(s) \in Nat /\ \A i \in 1 .. Len(s) : s[i] \in Tokens
      BY <1>1
  <2> QED  BY <1>2, <2>1
<1> HIDE DEF parts
<1>4. FlattenSeq(parts) \in Seq(Bytes)  BY <1>3, FlattenIsSeq
<1> QED  BY <1>4 DEF Output, parts

\* The name tool_pty_artifact_open takes is one of the free ones.
LEMMA FirstFreeName ==
    ASSUME NEW stamp, FreeNames(stamp) # {}
    PROVE  (CHOOSE g \in FreeNames(stamp) : \A h \in FreeNames(stamp) : g[2] <= h[2])
             \in FreeNames(stamp)
<1> DEFINE counts == {n \in 0 .. Attempts - 1 : <<stamp, n>> \in FreeNames(stamp)}
<1>1. \A g \in FreeNames(stamp) : \E n \in 0 .. Attempts - 1 : g = <<stamp, n>>
    BY DEF FreeNames
<1>2. counts \subseteq Nat /\ counts # {}  BY <1>1
<1>3. PICK n \in counts : \A m \in counts : n <= m  BY <1>2, Least
<1>4. \E g \in FreeNames(stamp) : \A h \in FreeNames(stamp) : g[2] <= h[2]
  <2>1. <<stamp, n>> \in FreeNames(stamp)  OBVIOUS
  <2>2. \A h \in FreeNames(stamp) : <<stamp, n>>[2] <= h[2]  BY <1>1, <1>3
  <2> QED  BY <2>1, <2>2
<1> QED  BY <1>4

\* What two adjacent reads bring is what one would.
LEMMA AdjacentReads ==
    ASSUME NEW o, NEW m \in Nat, NEW n \in Nat
    PROVE  SubSeq(o, 1, m) \o SubSeq(o, m + 1, m + n) = SubSeq(o, 1, m + n)
<1> DEFINE S == {o[i] : i \in 1 .. m + n}
           a == SubSeq(o, 1, m)
           b == SubSeq(o, m + 1, m + n)
           c == SubSeq(o, 1, m + n)
<1> HIDE DEF S
<1>1. \A i \in 1 .. m + n : o[i] \in S  BY DEF S
<1>2. a \in Seq(S) /\ Len(a) = m /\ \A i \in 1 .. m : a[i] = o[i]
  <2>1. \A i \in 1 .. m : o[i] \in S  BY <1>1
  <2> QED  BY <2>1, SubSeqProperties
<1>3. b \in Seq(S) /\ Len(b) = n /\ \A i \in 1 .. n : b[i] = o[m + i]
  <2>1. \A i \in m + 1 .. m + n : o[i] \in S  BY <1>1
  <2> QED  BY <2>1, SubSeqProperties
<1>4. c \in Seq(S) /\ Len(c) = m + n /\ \A i \in 1 .. m + n : c[i] = o[i]
    BY <1>1, SubSeqProperties
<1> HIDE DEF a, b, c
<1>5. a \o b \in Seq(S) /\ Len(a \o b) = m + n  BY <1>2, <1>3
<1>6. ASSUME NEW i \in 1 .. m + n  PROVE (a \o b)[i] = c[i]
  <2>1. CASE i <= m  BY <1>2, <1>3, <1>4, <2>1
  <2>2. CASE i > m
    <3>1. i - m \in 1 .. n /\ m + (i - m) = i  BY <2>2
    <3>2. b[i - m] = o[i]  BY <1>3, <3>1
    <3>3. (a \o b)[i] = b[i - m]  BY <1>2, <1>3, <2>2, <3>1
    <3> QED  BY <1>4, <3>2, <3>3
  <2>3. i <= m \/ i > m  OBVIOUS
  <2> QED  BY <2>1, <2>2, <2>3
<1>7. a \o b = c  BY <1>4, <1>5, <1>6, SeqEqual
<1> QED  BY <1>7 DEF a, b, c

\* The part of a read that reached the disk.
LEMMA PartOfRead ==
    ASSUME NEW o, NEW m \in Nat, NEW n \in Nat, NEW k \in 0 .. n
    PROVE  SubSeq(SubSeq(o, m + 1, m + n), 1, k) = SubSeq(o, m + 1, m + k)
<1> DEFINE S == {o[i] : i \in m + 1 .. m + n}
           a == SubSeq(o, m + 1, m + n)
           b == SubSeq(o, m + 1, m + k)
           c == SubSeq(a, 1, k)
<1> HIDE DEF S
<1>1. \A i \in m + 1 .. m + n : o[i] \in S  BY DEF S
<1>2. a \in Seq(S) /\ \A i \in 1 .. n : a[i] \in S /\ a[i] = o[m + i]
    BY <1>1, SubSeqProperties
<1>3. b \in Seq(S) /\ Len(b) = k /\ \A i \in 1 .. k : b[i] = o[m + i]
  <2>1. \A i \in m + 1 .. m + k : o[i] \in S  BY <1>1
  <2> QED  BY <2>1, SubSeqProperties
<1> HIDE DEF a, b
<1>4. c \in Seq(S) /\ Len(c) = k /\ \A i \in 1 .. k : c[i] = a[i]
  <2>1. \A i \in 1 .. k : a[i] \in S  BY <1>2
  <2> QED  BY <2>1, SubSeqProperties
<1> HIDE DEF c
<1>5. \A i \in 1 .. k : c[i] = b[i]
  <2>1. \A i \in 1 .. k : i \in 1 .. n  OBVIOUS
  <2> QED  BY <2>1, <1>2, <1>3, <1>4
<1>6. c = b  BY <1>3, <1>4, <1>5, SeqEqual
<1> QED  BY <1>6 DEF a, b, c

\* The tool moves only between the fork and the end of the loop, and changes nothing of
\* the program's.
LEMMA ToolMoves ==
    ASSUME Writes \/ ToolSpawns \/ ToolCloses \/ ToolStops \/ ToolEnds \/ HolderEnds
    PROVE  /\ UNCHANGED Others /\ Started
           /\ child' = child \/ (child = "running" /\ child' \in {"stopped", "exited"})
BY DEF Writes, ToolSpawns, ToolCloses, ToolStops, ToolEnds, HolderEnds

-------------------------------------------------------------------------------
(* What is taken is given back.  The promise is about the end of a run;    *)
(* the invariant says what is taken at each place of it.                   *)

\* Before the fork, and after it.
BeforeFork == pc \in {"master", "raw", "arm", "fork"} \/ (pc = "idle" /\ result = "none")
AfterFork  == pc \in {"poll", "serve", "wait", "finish"}
Places == {"idle", "master", "raw", "arm", "fork", "poll", "serve", "wait", "finish"}

\* The directory is that of the call, and the artifact when there is one.
FilesInv ==
    /\ pc \in Places /\ (pc # "idle" => result = "none")
    /\ \A f \in DOMAIN before : files[f] = before[f]
    /\ pc # "idle" \/ child # "none" =>
         file \notin DOMAIN before /\ DOMAIN files = DOMAIN before \cup {file}
    /\ pc = "idle" /\ child = "none" =>
         DOMAIN files = DOMAIN before /\ (file = NoFile \/ file \notin DOMAIN before)

\* What is taken where.
TerminalsInv ==
    /\ tty \in BOOLEAN /\ (~tty => terminal = "cooked")
    /\ pc \in {"idle", "master", "raw"} => terminal = "cooked"
    /\ pc \in {"idle", "master", "raw", "arm"} => winch = "interface" /\ busy = {}
    /\ pc = "idle" => fds = {}

\* A wait that did not fail has collected the tool.
ChildInv ==
    /\ child \in {"none", "running", "stopped", "exited", "reaped"}
    /\ childDone \in BOOLEAN /\ waitValid \in BOOLEAN
    /\ BeforeFork => child = "none" /\ ~childDone /\ waitValid
    /\ AfterFork => child # "none" /\ (childDone /\ waitValid => child = "reaped")
    /\ pc = "finish" /\ waitValid => childDone /\ masterDone
    /\ result # "none" =>
         /\ child \in {"none", "reaped"} \/ (childDone /\ ~waitValid)
         /\ result = "NORMAL" => child = "reaped"

GivenInv == FilesInv /\ TerminalsInv /\ ChildInv

\* Before the call nothing is taken.
LEMMA GivenInit == Init => GivenInv
BY DEF Init, GivenInv, FilesInv, TerminalsInv, ChildInv, Places, BeforeFork, AfterFork, NoFile

\* A step of the set-up that fails takes everything back.
LEMMA AbandonGives ==
    ASSUME FilesInv, child = "none", pc # "idle", Abandon, UNCHANGED <<child, before, file>>
    PROVE  FilesInv' /\ pc' = "idle" /\ result' = "ABNORMAL" /\ fds' = {}
<1>1. /\ file \notin DOMAIN before /\ DOMAIN files = DOMAIN before \cup {file}
      /\ \A f \in DOMAIN before : files[f] = before[f]
    BY DEF FilesInv
<1>2. files' = [g \in DOMAIN files \ {file} |-> files[g]]  BY DEF Abandon, Without
<1>3. DOMAIN files' = DOMAIN before  BY <1>1, <1>2
<1>4. \A f \in DOMAIN before' : files'[f] = before'[f]  BY <1>1, <1>2, <1>3
<1>5. /\ pc' = "idle" /\ result' = "ABNORMAL" /\ fds' = {}
    BY DEF Abandon
<1> QED  BY <1>1, <1>3, <1>4, <1>5 DEF FilesInv, Places

\* Only the artifact is written, and only the set-up unlinks it.
LEMMA FilesStep ==
    ASSUME GivenInv, [Next]_vars
    PROVE  FilesInv'
<1> USE DEF tool, terminals, loop, reading
<1>0. FilesInv /\ ChildInv  BY DEF GivenInv
<1>1. CASE OpenArtifact
  <2>1. /\ pc = "idle" /\ result = "none" /\ child = "none" /\ child' = "none"
        /\ before' = before /\ DOMAIN files = DOMAIN before
      BY <1>0, <1>1 DEF OpenArtifact, FilesInv, ChildInv, BeforeFork
  <2>2. CASE UNCHANGED <<pc, files, file>>
      BY <1>0, <2>1, <2>2 DEF FilesInv
  <2>3. CASE ~UNCHANGED <<pc, files, file>>
    <3>1. PICK stamp \in Stamps :
             /\ FreeNames(stamp) # {}
             /\ file' = CHOOSE g \in FreeNames(stamp) :
                          \A h \in FreeNames(stamp) : g[2] <= h[2]
             /\ files' = [g \in DOMAIN files \cup {file'} |->
                           IF g = file' THEN << >> ELSE files[g]]
             /\ pc' = "master" /\ result' = result
        BY <1>1, <2>3 DEF OpenArtifact
    <3>2. file' \in FreeNames(stamp)  BY <3>1, FirstFreeName
    <3>3. file' \notin DOMAIN before  BY <2>1, <3>2 DEF FreeNames
    <3>4. /\ DOMAIN files' = DOMAIN before \cup {file'}
          /\ \A g \in DOMAIN before : files'[g] = files[g]
        BY <2>1, <3>1, <3>3
    <3>5. \A g \in DOMAIN before' : files'[g] = before'[g]
        BY <1>0, <2>1, <3>4 DEF FilesInv
    <3> QED  BY <2>1, <3>1, <3>3, <3>4, <3>5 DEF FilesInv, Places
  <2> QED  BY <2>2, <2>3
<1>2. CASE OpenMaster \/ TerminalRaw \/ Fork
  <2>1. CASE Abandon /\ child' = child
    <3>1. pc # "idle" /\ child = "none" /\ UNCHANGED <<child, before, file>>
        BY <1>0, <1>2, <2>1 DEF OpenMaster, TerminalRaw, Fork, ChildInv, BeforeFork
    <3> QED  BY <1>0, <2>1, <3>1, AbandonGives
  <2>2. CASE ~(Abandon /\ child' = child)
    <3>1. /\ pc # "idle" /\ pc' # "idle" /\ pc' \in Places
          /\ UNCHANGED <<before, file, files, result>>
        BY <1>2, <2>2 DEF OpenMaster, TerminalRaw, Fork, Places
    <3> QED  BY <1>0, <3>1 DEF FilesInv
  <2> QED  BY <2>1, <2>2
<1>3. CASE Arm \/ Poll \/ Wait
  <2>1. /\ pc # "idle" /\ pc' # "idle" /\ pc' \in Places
        /\ UNCHANGED <<before, file, files, result>>
      BY <1>3 DEF Arm, Poll, Wait, Turn, Places
  <2> QED  BY <1>0, <2>1 DEF FilesInv
<1>4. CASE Serve
  <2>1. /\ pc # "idle" /\ pc' # "idle" /\ pc' \in Places
        /\ UNCHANGED <<before, file, result>>
      BY <1>4 DEF Serve, Places
  <2>2. file \notin DOMAIN before /\ DOMAIN files = DOMAIN before \cup {file}
      BY <1>0, <2>1 DEF FilesInv
  <2>3. files' = files \/ \E bytes : Saved(bytes)  BY <1>4 DEF Serve, ReadMaster
  <2>4. files' = files \/ \E b : files' = [files EXCEPT ![file] = b]
      BY <2>3 DEF Saved
  <2>5. /\ DOMAIN files' = DOMAIN files
        /\ \A f \in DOMAIN files : f # file => files'[f] = files[f]
      BY <2>4
  <2>6. \A f \in DOMAIN before' : files'[f] = before'[f]
      BY <1>0, <2>1, <2>2, <2>5 DEF FilesInv
  <2>7. file' \notin DOMAIN before' /\ DOMAIN files' = DOMAIN before' \cup {file'}
      BY <2>1, <2>2, <2>5
  <2> QED  BY <1>0, <2>1, <2>6, <2>7 DEF FilesInv
<1>5. CASE Finish
  <2>1. /\ pc # "idle" /\ pc' = "idle" /\ UNCHANGED <<before, file, files>>
        /\ child' = child \/ child' = "reaped"
        /\ child # "none"
      BY <1>0, <1>5 DEF Finish, ChildInv, AfterFork
  <2> QED  BY <1>0, <2>1 DEF FilesInv, Places
<1>6. CASE Writes \/ ToolSpawns \/ ToolCloses \/ ToolStops \/ ToolEnds \/ HolderEnds
  <2>1. UNCHANGED <<pc, result, before, file, files>> /\ pc # "idle"
      BY <1>6, ToolMoves DEF Others, Started
  <2> QED  BY <1>0, <2>1 DEF FilesInv
<1>7. CASE Done \/ UNCHANGED vars
    BY <1>0, <1>7 DEF FilesInv, Done, vars
<1> QED  BY <1>1, <1>2, <1>3, <1>4, <1>5, <1>6, <1>7 DEF Next, Program

\* The set-up takes one thing after the other, and each way out gives back what was taken.
LEMMA TerminalsStep ==
    ASSUME GivenInv, [Next]_vars
    PROVE  TerminalsInv'
<1> USE DEF tool, terminals, loop, reading, TerminalsInv
<1>0. TerminalsInv /\ pc \in Places  BY DEF GivenInv, FilesInv
<1>1. CASE OpenArtifact  BY <1>0, <1>1 DEF OpenArtifact
<1>2. CASE OpenMaster    BY <1>0, <1>2 DEF OpenMaster, Abandon
<1>3. CASE TerminalRaw   BY <1>0, <1>3 DEF TerminalRaw, Abandon
<1>4. CASE Arm           BY <1>0, <1>4 DEF Arm
<1>5. CASE Fork          BY <1>0, <1>5 DEF Fork, Abandon, Restore
<1>6. CASE Poll \/ Serve \/ Wait
  <2>1. UNCHANGED <<terminals, fds>> /\ pc' \in {"poll", "serve", "wait", "finish"}
      BY <1>6 DEF Poll, Serve, Wait, Turn
  <2> QED  BY <1>0, <2>1
<1>7. CASE Finish        BY <1>0, <1>7 DEF Finish, Restore
<1>8. CASE Writes \/ ToolSpawns \/ ToolCloses \/ ToolStops \/ ToolEnds \/ HolderEnds
  <2>1. UNCHANGED <<pc, terminals, fds>>  BY <1>8, ToolMoves DEF Others
  <2> QED  BY <1>0, <2>1
<1>9. CASE Done \/ UNCHANGED vars  BY <1>0, <1>9 DEF Done, vars
<1> QED  BY <1>1, <1>2, <1>3, <1>4, <1>5, <1>6, <1>7, <1>8, <1>9 DEF Next, Program

\* A loop that ends unfailed has reaped the tool.
LEMMA ChildStep ==
    ASSUME GivenInv, [Next]_vars
    PROVE  ChildInv'
<1> USE DEF tool, terminals, loop, reading, ChildInv, BeforeFork, AfterFork
<1>0. ChildInv /\ pc \in Places /\ (pc # "idle" => result = "none")
    BY DEF GivenInv, FilesInv
<1>1. CASE OpenArtifact  BY <1>0, <1>1 DEF OpenArtifact
<1>2. CASE OpenMaster    BY <1>0, <1>2 DEF OpenMaster, Abandon
<1>3. CASE TerminalRaw   BY <1>0, <1>3 DEF TerminalRaw, Abandon
<1>4. CASE Arm           BY <1>0, <1>4 DEF Arm
<1>5. CASE Fork          BY <1>0, <1>5 DEF Fork, Abandon
<1>6. CASE Poll
  <2>1. /\ pc = "poll" /\ pc' \in {"serve", "finish"} /\ UNCHANGED <<childDone, result>>
        /\ pc' = "finish" => ~waitValid'
        /\ UNCHANGED waitValid \/ waitValid' = FALSE
        /\ child' = child \/ (child' = "exited" /\ ~waitValid')
      BY <1>6 DEF Poll
  <2>2. result = "none" /\ child \in {"running", "stopped", "exited", "reaped"}
      BY <1>0, <2>1
  <2>3. childDone' \in BOOLEAN /\ waitValid' \in BOOLEAN  BY <1>0, <2>1
  <2>4. childDone' /\ waitValid' => child' = "reaped"  BY <1>0, <2>1
  <2> QED  BY <2>1, <2>2, <2>3, <2>4
<1>7. CASE Serve         BY <1>0, <1>7 DEF Serve
<1>8. CASE Wait
  <2>1. /\ pc = "wait" /\ UNCHANGED result
        /\ waitValid' \in BOOLEAN /\ child' \in {"none", "running", "stopped", "exited", "reaped"}
        /\ child' # "none"
      BY <1>0, <1>8 DEF Wait
  <2>2. /\ childDone' \in BOOLEAN /\ pc' \in {"poll", "finish"}
        /\ pc' = "finish" => childDone' /\ masterDone'
      BY <1>0, <1>8 DEF Wait, Turn
  <2>3. childDone' /\ waitValid' => child' = "reaped"
      BY <1>0, <2>1, <1>8 DEF Wait, Turn
  <2> QED  BY <1>0, <2>1, <2>2, <2>3
<1>9. CASE Finish        BY <1>0, <1>9 DEF Finish
<1>10. CASE Writes \/ ToolSpawns \/ ToolCloses \/ ToolStops \/ ToolEnds \/ HolderEnds
  <2>1. /\ UNCHANGED <<pc, childDone, masterDone, waitValid, result>> /\ Started
        /\ child' = child \/ (child = "running" /\ child' \in {"stopped", "exited"})
      BY <1>10, ToolMoves DEF Others
  <2> QED  BY <1>0, <2>1 DEF Started
<1>11. CASE Done \/ UNCHANGED vars  BY <1>0, <1>11 DEF Done, vars
<1> QED  BY <1>1, <1>2, <1>3, <1>4, <1>5, <1>6, <1>7, <1>8, <1>9, <1>10, <1>11
         DEF Next, Program

\* Whatever fails and wherever the run stops, the terminal, the signal handler, the
\* interface, the descriptors, the child and the other artifacts are as they should be.
THEOREM GivenBack == Spec => []EverythingIsGivenBack
<1>1. GivenInv /\ [Next]_vars => GivenInv'
    BY FilesStep, TerminalsStep, ChildStep DEF GivenInv
<1>2. GivenInv => EverythingIsGivenBack
  <2> SUFFICES ASSUME GivenInv, result # "none" PROVE EverythingIsGivenBack
      BY DEF EverythingIsGivenBack
  <2>1. pc = "idle"  BY DEF GivenInv, FilesInv
  <2> QED  BY <2>1 DEF GivenInv, FilesInv, TerminalsInv, ChildInv, EverythingIsGivenBack
<1> QED  BY <1>1, <1>2, GivenInit, PTL DEF Spec

-------------------------------------------------------------------------------
(* The output.  The promise is about NORMAL; the invariant says why each   *)
(* way to end the reading ends it no earlier than the tool ended.          *)

\* Bytes are counted, and there are none before the fork.
CountsInv ==
    /\ got \in Nat /\ sent \in Nat /\ mark \in Nat /\ idle \in Nat
    /\ got <= sent /\ mark <= sent
    /\ BeforeFork =>
         /\ got = 0 /\ sent = 0 /\ mark = 0 /\ idle = 0 /\ intact
         /\ ~masterDone /\ ~refused /\ ~attached /\ ~holder

\* The artifact is what was read, or the part that was written before a write failed.
ArtifactInv ==
    pc # "idle" \/ child # "none" =>
        \E n \in 0 .. got : /\ files[file] = SubSeq(Output(script), 1, n)
                            /\ intact => n = got

\* Silence means that everything was read; the end of the PTY, that nothing will follow.
ReadyInv ==
    /\ pc = "serve" /\ "master" \in ready /\ got = sent => ~SlaveOpen
    /\ pc \in {"serve", "wait"} /\ ready = {"timeout"} /\ childDone /\ waitValid => mark <= got

\* Why the reading ended.
DrainInv ==
    /\ idle > 0 => childDone
    /\ idle > 1 /\ waitValid => mark <= got
    /\ masterDone /\ ~refused /\ waitValid =>
         (got = sent /\ ~SlaveOpen) \/ (childDone /\ mark <= got)
    /\ result = "NORMAL" /\ ~refused => mark <= got

OutInv == CountsInv /\ ArtifactInv /\ ReadyInv /\ DrainInv
\* Before the call there is no output.
LEMMA OutInit == Init => OutInv
<1> SUFFICES ASSUME Init PROVE OutInv  OBVIOUS
<1>1. CountsInv    BY DEF Init, CountsInv
<1>2. ArtifactInv  BY DEF Init, ArtifactInv
<1>3. ReadyInv     BY DEF Init, ReadyInv
<1>4. DrainInv     BY DEF Init, DrainInv
<1> QED  BY <1>1, <1>2, <1>3, <1>4 DEF OutInv

\* A turn of the loop may read a part of what is in the PTY.
LEMMA ServeReads ==
    ASSUME CountsInv, Serve
    PROVE  /\ got' \in got .. sent
           /\ "master" \notin ready \/ got = sent => UNCHANGED <<files, intact, got>>
           /\ "master" \in ready /\ got < sent =>
                got' > got /\ Saved(SubSeq(Output(script), got + 1, got'))
<1>1. got \in Nat /\ sent \in Nat /\ got <= sent /\ PtyFill \in Nat
    BY DEF CountsInv, PtyFill
<1>2. CASE "master" \in ready /\ PtyFill > 0
  <2>1. ReadMaster  BY <1>2 DEF Serve
  <2>2. PICK n \in Nat : n > 0 /\ n <= PtyFill /\ got' = got + n
                         /\ Saved(SubSeq(Output(script), got + 1, got + n))
      BY <1>1, <1>2, <2>1, SizesAssumption DEF ReadMaster
  <2> QED  BY <1>1, <1>2, <2>2 DEF PtyFill
<1>3. CASE ~("master" \in ready /\ PtyFill > 0)
  <2>1. UNCHANGED <<files, intact, got>>  BY <1>3 DEF Serve, reading
  <2> QED  BY <1>1, <1>3, <2>1 DEF PtyFill
<1> QED  BY <1>2, <1>3

\* The PTY is read in order and not beyond what is in it.
LEMMA CountsStep ==
    ASSUME GivenInv, CountsInv, [Next]_vars
    PROVE  CountsInv'
<1> USE DEF tool, terminals, loop, reading, CountsInv, BeforeFork
<1>0. /\ CountsInv /\ pc \in Places /\ (pc # "idle" => result = "none")
      /\ result # "none" => pc = "idle"
    BY DEF GivenInv, FilesInv
<1>1. CASE OpenArtifact  BY <1>0, <1>1 DEF OpenArtifact
<1>2. CASE OpenMaster    BY <1>0, <1>2 DEF OpenMaster, Abandon
<1>3. CASE TerminalRaw   BY <1>0, <1>3 DEF TerminalRaw, Abandon
<1>4. CASE Arm           BY <1>0, <1>4 DEF Arm
<1>5. CASE Fork          BY <1>0, <1>5 DEF Fork, Abandon
<1>6. CASE Poll
  <2>1. /\ pc' \in {"serve", "finish"} /\ UNCHANGED <<got, sent, idle>>
        /\ mark' \in {mark, sent}
      BY <1>6 DEF Poll
  <2> QED  BY <1>0, <2>1
<1>7. CASE Serve
  <2>1. /\ got' \in got .. sent /\ UNCHANGED <<sent, mark, idle, attached, holder, result>>
        /\ pc' = "wait"
      BY <1>0, <1>7, ServeReads DEF Serve
  <2> QED  BY <1>0, <2>1
<1>8. CASE Wait
  <2>1. /\ UNCHANGED <<got, sent, mark>>
        /\ pc' \in {"poll", "finish"}
      BY <1>8 DEF Wait, Turn
  <2>2. idle' \in Nat
      BY <1>0, <1>8, SizesAssumption DEF Wait, Turn, Drain
  <2> QED  BY <1>0, <2>1, <2>2
<1>9. CASE Finish        BY <1>0, <1>9 DEF Finish
<1>10. CASE Writes       BY <1>0, <1>10 DEF Writes, Started, Others
<1>11. CASE ToolSpawns \/ ToolCloses \/ ToolStops \/ ToolEnds \/ HolderEnds
    BY <1>0, <1>11 DEF ToolSpawns, ToolCloses, ToolStops, ToolEnds, HolderEnds, Started, Others
<1>12. CASE Done \/ UNCHANGED vars  BY <1>0, <1>12 DEF Done, vars
<1> QED  BY <1>1, <1>2, <1>3, <1>4, <1>5, <1>6, <1>7, <1>8, <1>9, <1>10, <1>11, <1>12
         DEF Next, Program

\* A read that is saved extends the artifact.
LEMMA SavedExtends ==
    ASSUME NEW o, NEW m \in Nat, NEW n \in Nat, n > 0, NEW k \in 0 .. m,
           file \in DOMAIN files,
           files[file] = SubSeq(o, 1, k), intact => k = m,
           Saved(SubSeq(o, m + 1, m + n))
    PROVE  \E j \in 0 .. m + n : /\ files'[file] = SubSeq(o, 1, j)
                                 /\ intact' => j = m + n
<1> DEFINE bytes == SubSeq(o, m + 1, m + n)
<1>1. Len(bytes) = n
  <2> DEFINE S == {o[i] : i \in m + 1 .. m + n}
  <2>1. \A i \in m + 1 .. m + n : o[i] \in S  OBVIOUS
  <2> HIDE DEF S
  <2> QED  BY <2>1, SubSeqProperties
<1>2. \A j \in 0 .. n : SubSeq(o, 1, m) \o SubSeq(o, m + 1, m + j) = SubSeq(o, 1, m + j)
    BY AdjacentReads
<1>3. \A j \in 0 .. n : SubSeq(bytes, 1, j) = SubSeq(o, m + 1, m + j)
    BY PartOfRead
<1> HIDE DEF bytes
<1>4. CASE intact /\ files' = [files EXCEPT ![file] = @ \o bytes]
  <2>1. files'[file] = SubSeq(o, 1, m) \o bytes  BY <1>4
  <2>2. n \in 0 .. n /\ m + n \in 0 .. m + n  OBVIOUS
  <2>3. files'[file] = SubSeq(o, 1, m + n)  BY <1>2, <2>1, <2>2 DEF bytes
  <2> QED  BY <2>2, <2>3
<1>5. CASE /\ intact /\ intact' = FALSE
           /\ \E j \in 0 .. Len(bytes) - 1 :
                files' = [files EXCEPT ![file] = @ \o SubSeq(bytes, 1, j)]
  <2>1. PICK j \in 0 .. n - 1 : files' = [files EXCEPT ![file] = @ \o SubSeq(bytes, 1, j)]
      BY <1>1, <1>5
  <2>2. j \in 0 .. n /\ m + j \in 0 .. m + n  OBVIOUS
  <2>3. files'[file] = SubSeq(o, 1, m) \o SubSeq(bytes, 1, j)  BY <1>5, <2>1
  <2>4. files'[file] = SubSeq(o, 1, m + j)  BY <1>2, <1>3, <2>2, <2>3
  <2> QED  BY <1>5, <2>2, <2>4
<1>6. CASE ~intact /\ UNCHANGED <<files, intact>>
  <2>1. k \in 0 .. m + n  OBVIOUS
  <2> QED  BY <1>6, <2>1
<1> QED  BY <1>4, <1>5, <1>6 DEF Saved, bytes

\* The first bytes of an output are a prefix of more of them.
LEMMA FirstPart ==
    ASSUME NEW o, NEW m \in Nat, NEW n \in 0 .. m
    PROVE  IsPrefix(SubSeq(o, 1, n), SubSeq(o, 1, m)) /\ Len(SubSeq(o, 1, n)) = n
<1> DEFINE S == {o[i] : i \in 1 .. m}
           a == SubSeq(o, 1, m)
           b == SubSeq(o, 1, n)
<1>1. \A i \in 1 .. m : o[i] \in S  OBVIOUS
<1> HIDE DEF S
<1>2. a \in Seq(S) /\ Len(a) = m  BY <1>1, SubSeqProperties
<1>3. b \in Seq(S) /\ Len(b) = n
  <2>1. \A i \in 1 .. n : o[i] \in S  BY <1>1
  <2> QED  BY <2>1, SubSeqProperties
<1>4. SubSeq(a, 1, n) = b
  <2>1. 0 + 1 = 1 /\ 0 + m = m /\ 0 + n = n  OBVIOUS
  <2>2. SubSeq(SubSeq(o, 0 + 1, 0 + m), 1, n) = SubSeq(o, 0 + 1, 0 + n)  BY PartOfRead
  <2> QED  BY <2>1, <2>2
<1>5. SubSeq(b, 1, Len(b)) = b  BY <1>3, SubSeqFull
<1> HIDE DEF a, b
<1>6. IsPrefix(b, a) /\ Len(b) = n  BY <1>2, <1>3, <1>4, <1>5 DEF IsPrefix
<1> QED  BY <1>6 DEF a, b

\* The artifact stays a beginning of the output.
LEMMA ArtifactStep ==
    ASSUME GivenInv, OutInv, [Next]_vars
    PROVE  ArtifactInv'
<1> USE DEF tool, terminals, loop, reading
<1>0. FilesInv /\ ChildInv /\ CountsInv /\ ArtifactInv  BY DEF GivenInv, OutInv
<1>1. CASE OpenArtifact
  <2>1. /\ result = "none" /\ pc = "idle" /\ child = "none" /\ got = 0
        /\ UNCHANGED <<child, got, intact, script>>
      BY <1>0, <1>1 DEF OpenArtifact, ChildInv, CountsInv, BeforeFork
  <2>2. CASE pc' = "idle"  BY <2>1, <2>2 DEF ArtifactInv
  <2>3. CASE pc' # "idle"
    <3>1. files'[file'] = << >>  BY <1>1, <2>1, <2>3 DEF OpenArtifact
    <3>2. SubSeq(Output(script), 1, 0) = << >>  BY SubSeqEmpty
    <3> QED  BY <2>1, <3>1, <3>2 DEF ArtifactInv
  <2> QED  BY <2>2, <2>3
<1>2. CASE OpenMaster \/ TerminalRaw \/ Fork \/ Arm \/ Poll \/ Wait \/ Finish
  <2>1. CASE pc' = "idle" /\ child' = "none"  BY <2>1 DEF ArtifactInv
  <2>2. CASE ~(pc' = "idle" /\ child' = "none")
    <3>1. /\ pc # "idle" /\ UNCHANGED <<files, file, got, script>>
          /\ intact' = intact \/ intact' = FALSE
      <4>1. pc \in {"master", "raw", "fork"} => child = "none"  BY <1>0 DEF ChildInv, BeforeFork
      <4> QED  BY <1>2, <2>2, <4>1
               DEF OpenMaster, TerminalRaw, Fork, Arm, Poll, Wait, Finish, Abandon
    <3> QED  BY <1>0, <3>1 DEF ArtifactInv
  <2> QED  BY <2>1, <2>2
<1>3. CASE Serve
  <2>1. pc # "idle" /\ UNCHANGED <<file, script>>  BY <1>3 DEF Serve
  <2>2. PICK k \in 0 .. got : files[file] = SubSeq(Output(script), 1, k) /\ (intact => k = got)
      BY <1>0, <2>1 DEF ArtifactInv
  <2>3. got \in Nat /\ sent \in Nat /\ got' \in got .. sent
      BY <1>0, <1>3, ServeReads DEF CountsInv
  <2>4. CASE UNCHANGED <<files, intact, got>>
    <3>1. Output(script)' = Output(script)  BY <2>1
    <3> QED  BY <2>1, <2>2, <2>4 DEF ArtifactInv
  <2>5. CASE got' > got /\ Saved(SubSeq(Output(script), got + 1, got'))
    <3>1. PICK n \in Nat : n > 0 /\ got' = got + n  BY <2>3, <2>5
    <3>2. file \in DOMAIN files  BY <1>0, <2>1 DEF FilesInv
    <3>3. \E j \in 0 .. got + n : /\ files'[file] = SubSeq(Output(script), 1, j)
                                  /\ intact' => j = got + n
        BY <2>2, <2>3, <2>5, <3>1, <3>2, SavedExtends
    <3> QED  BY <2>1, <3>1, <3>3 DEF ArtifactInv
  <2> QED  BY <1>0, <1>3, <2>3, <2>4, <2>5, ServeReads DEF CountsInv
<1>4. CASE Writes \/ ToolSpawns \/ ToolCloses \/ ToolStops \/ ToolEnds \/ HolderEnds
  <2>1. UNCHANGED <<pc, files, file, got, script, intact>> /\ pc # "idle"
      BY <1>4, ToolMoves DEF Others, Started
  <2> QED  BY <1>0, <2>1 DEF ArtifactInv
<1>5. CASE Done \/ UNCHANGED vars
    BY <1>0, <1>5 DEF ArtifactInv, Done, vars
<1> QED  BY <1>1, <1>2, <1>3, <1>4, <1>5 DEF Next, Program

\* What poll reported stays true until it is served: only the loop reads, and a terminal
\* that was closed is not opened again.
LEMMA ReadyStep ==
    ASSUME GivenInv, OutInv, [Next]_vars
    PROVE  ReadyInv'
<1> USE DEF tool, terminals, loop, reading
<1>0. FilesInv /\ ChildInv /\ CountsInv /\ ReadyInv  BY DEF GivenInv, OutInv
<1>1. CASE OpenArtifact \/ OpenMaster \/ TerminalRaw \/ Arm \/ Fork \/ Wait \/ Finish
  <2>1. pc' \notin {"serve", "wait"}
      BY <1>1 DEF OpenArtifact, OpenMaster, TerminalRaw, Arm, Fork, Wait, Turn, Finish, Abandon
  <2> QED  BY <2>1 DEF ReadyInv
<1>2. CASE Poll
  <2>1. UNCHANGED <<got, sent, attached, holder, childDone>>  BY <1>2 DEF Poll
  <2>2. CASE pc' = "serve" /\ ready' # {}
    <3>1. PICK key \in BOOLEAN :
            LET now == {m \in {"master"} : Readable} \cup {k \in {"stdin"} : key}
            IN  ready' = IF now = {} THEN {"timeout"} ELSE now
        BY <1>2, <2>2 DEF Poll
    <3>2. mark' = mark  BY <1>2, <2>2 DEF Poll
    <3>3. CASE "master" \in ready'
      <4>1. Readable /\ ready' # {"timeout"}  BY <3>1, <3>3
      <4> QED  BY <1>0, <2>1, <4>1 DEF ReadyInv, Readable, PtyFill, SlaveOpen, CountsInv
    <3>4. CASE "master" \notin ready'
      <4>1. ready' = {"timeout"} => ~Readable  BY <3>1, <3>4
      <4>2. ~Readable => got = sent  BY <1>0 DEF Readable, PtyFill, CountsInv
      <4> QED  BY <1>0, <2>1, <3>2, <3>4, <4>1, <4>2 DEF ReadyInv, CountsInv
    <3> QED  BY <3>3, <3>4
  <2>3. CASE ~(pc' = "serve" /\ ready' # {})
    <3>1. pc' = "serve" \/ pc' = "finish"  BY <1>2 DEF Poll
    <3>2. pc' = "serve" => ready' = {}  BY <2>3
    <3> QED  BY <3>1, <3>2 DEF ReadyInv
  <2> QED  BY <2>2, <2>3
<1>3. CASE Serve
  <2>1. /\ pc = "serve" /\ pc' = "wait" /\ UNCHANGED <<ready, childDone, waitValid, mark>>
        /\ got' \in got .. sent
      BY <1>0, <1>3, ServeReads DEF Serve
  <2> QED  BY <1>0, <2>1 DEF ReadyInv, CountsInv
<1>4. CASE Writes
  <2>1. /\ UNCHANGED <<pc, ready, got, childDone, waitValid, mark, attached, holder>>
        /\ sent' = sent + 1
      BY <1>4 DEF Writes, Others
  <2> QED  BY <1>0, <2>1 DEF ReadyInv, CountsInv
<1>5. CASE ToolSpawns \/ ToolCloses \/ ToolStops \/ HolderEnds
  <2>1. /\ UNCHANGED <<pc, ready, got, sent, childDone, waitValid, mark>>
        /\ ~SlaveOpen => ~SlaveOpen'
      BY <1>5 DEF ToolSpawns, ToolCloses, ToolStops, HolderEnds, Others, SlaveOpen
  <2> QED  BY <1>0, <2>1 DEF ReadyInv
<1>6. CASE ToolEnds
  <2>1. /\ UNCHANGED <<pc, ready, got, sent, childDone, waitValid, holder>>
        /\ ~attached' /\ child = "running" /\ Started
      BY <1>6 DEF ToolEnds, Others
  <2>2. ~(childDone /\ waitValid)  BY <1>0, <2>1 DEF ChildInv, AfterFork, Started
  <2> QED  BY <1>0, <2>1, <2>2 DEF ReadyInv, SlaveOpen
<1>7. CASE Done \/ UNCHANGED vars
    BY <1>0, <1>7 DEF ReadyInv, SlaveOpen, Done, vars
<1> QED  BY <1>1, <1>2, <1>3, <1>4, <1>5, <1>6, <1>7 DEF Next, Program

\* One silent poll proves nothing, since the tool may have written and ended after it; the
\* second began after the tool was reaped.
LEMMA DrainStep ==
    ASSUME GivenInv, OutInv, [Next]_vars
    PROVE  DrainInv'
<1> USE DEF tool, terminals, loop, reading
<1>0. FilesInv /\ ChildInv /\ CountsInv /\ ReadyInv /\ DrainInv  BY DEF GivenInv, OutInv
<1>1. CASE OpenArtifact \/ OpenMaster \/ TerminalRaw \/ Arm \/ Fork
  <2>1. /\ BeforeFork
        /\ UNCHANGED <<got, sent, mark, idle, masterDone>> /\ result' # "NORMAL"
      BY <1>0, <1>1 DEF OpenArtifact, OpenMaster, TerminalRaw, Arm, Fork, BeforeFork, Abandon,
                        FilesInv
  <2> QED  BY <1>0, <2>1 DEF CountsInv, DrainInv
<1>2. CASE Poll
  <2>1. /\ UNCHANGED <<got, sent, idle, masterDone, refused, attached, holder, childDone,
                       result>>
        /\ waitValid' = FALSE \/ (waitValid' = waitValid /\ mark' = mark)
        /\ result = "none"
      BY <1>0, <1>2 DEF Poll, FilesInv
  <2> QED  BY <1>0, <2>1 DEF DrainInv, SlaveOpen
<1>3. CASE Serve
  <2>1. /\ UNCHANGED <<sent, mark, idle, attached, holder, childDone, waitValid, result>>
        /\ pc = "serve" /\ result = "none" /\ got' \in got .. sent
      BY <1>0, <1>3, ServeReads DEF Serve, FilesInv
  <2>2. idle' > 1 /\ waitValid' => mark' <= got'  BY <1>0, <2>1 DEF DrainInv, CountsInv
  <2>3. ASSUME masterDone', ~refused', waitValid'
        PROVE  (got' = sent' /\ ~SlaveOpen') \/ (childDone' /\ mark' <= got')
    <3>1. ~refused /\ (masterDone \/ ("master" \in ready /\ PtyFill = 0))
        BY <1>3, <2>3 DEF Serve
    <3>2. CASE masterDone
        BY <1>0, <2>1, <2>3, <3>1, <3>2 DEF DrainInv, SlaveOpen, CountsInv
    <3>3. CASE "master" \in ready /\ PtyFill = 0
      <4>1. got = sent  BY <1>0, <3>3 DEF PtyFill, CountsInv
      <4> QED  BY <1>0, <2>1, <3>3, <4>1 DEF ReadyInv, SlaveOpen, CountsInv
    <3> QED  BY <3>1, <3>2, <3>3
  <2>4. result' # "NORMAL"  BY <2>1
  <2>5. idle' > 0 => childDone'  BY <1>0, <2>1 DEF DrainInv
  <2> QED  BY <2>2, <2>3, <2>4, <2>5 DEF DrainInv
<1>4. CASE Wait
  <2>1. /\ UNCHANGED <<got, sent, mark, refused, attached, holder, result>>
        /\ pc = "wait" /\ (waitValid' = FALSE \/ waitValid' = waitValid)
      BY <1>4 DEF Wait
  <2>2. result' = "none"  BY <1>0, <2>1 DEF FilesInv
  <2>3. \/ childDone = FALSE /\ Turn(FALSE)
        \/ Turn(TRUE)
    <3>1. childDone = TRUE \/ childDone = FALSE  BY <1>0 DEF ChildInv
    <3> QED  BY <1>4, <3>1 DEF Wait
  <2>4. CASE childDone = FALSE /\ Turn(FALSE)
    <3>1. childDone' = FALSE /\ UNCHANGED <<masterDone, idle>>
        BY <2>4 DEF Turn, Drain
    <3> QED  BY <1>0, <2>1, <2>2, <2>4, <3>1 DEF DrainInv, SlaveOpen
  <2>5. CASE Turn(TRUE) /\ masterDone
    <3>1. childDone' = TRUE /\ UNCHANGED <<masterDone, idle>>
        BY <2>5 DEF Turn, Drain
    <3> QED  BY <1>0, <2>1, <2>2, <2>5, <3>1 DEF DrainInv, SlaveOpen
  <2>6. CASE Turn(TRUE) /\ ~masterDone
    <3>1. /\ childDone' = TRUE
          /\ idle' = (IF ready = {"timeout"} THEN idle + 1 ELSE 0)
          /\ masterDone' = (idle' >= IdleLimit)
        BY <2>6 DEF Turn, Drain
    <3>2. idle' > 1 => idle > 0 /\ ready = {"timeout"}  BY <1>0, <3>1 DEF CountsInv
    <3>3. idle' > 1 /\ waitValid' => mark' <= got'
        BY <1>0, <2>1, <3>2 DEF DrainInv, ReadyInv
    <3>4. masterDone' => idle' > 1
      <4>1. IdleLimit \in Nat /\ IdleLimit > 1  BY SizesAssumption
      <4>2. idle' \in Nat  BY <1>0, <3>1 DEF CountsInv
      <4>3. masterDone' => idle' >= IdleLimit  BY <3>1
      <4> QED  BY <4>1, <4>2, <4>3
    <3> QED  BY <2>2, <3>1, <3>3, <3>4 DEF DrainInv
  <2> QED  BY <2>3, <2>4, <2>5, <2>6
<1>5. CASE Finish
  <2>1. /\ UNCHANGED <<got, sent, mark, idle, masterDone, refused, childDone, waitValid>>
        /\ ~attached' /\ ~holder' /\ pc = "finish"
        /\ result' = IF waitValid THEN "NORMAL" ELSE "ABNORMAL"
      BY <1>5 DEF Finish
  <2>2. waitValid => masterDone  BY <1>0, <2>1 DEF ChildInv
  <2>3. result' = "NORMAL" => waitValid  BY <2>1
  <2>4. result' = "NORMAL" /\ ~refused' => mark' <= got'
      BY <1>0, <2>1, <2>2, <2>3 DEF DrainInv, CountsInv
  <2> QED  BY <1>0, <2>1, <2>4 DEF DrainInv, SlaveOpen
<1>6. CASE Writes
  <2>1. /\ UNCHANGED <<got, mark, idle, masterDone, refused, childDone, waitValid, result,
                       attached, holder>>
        /\ SlaveOpen
      BY <1>6 DEF Writes, Others, SlaveOpen
  <2> QED  BY <1>0, <2>1 DEF DrainInv
<1>7. CASE ToolSpawns \/ ToolCloses \/ ToolStops \/ HolderEnds
  <2>1. /\ UNCHANGED <<got, sent, mark, idle, masterDone, refused, childDone, waitValid, result>>
        /\ ~SlaveOpen => ~SlaveOpen'
      BY <1>7 DEF ToolSpawns, ToolCloses, ToolStops, HolderEnds, Others, SlaveOpen
  <2> QED  BY <1>0, <2>1 DEF DrainInv
<1>8. CASE ToolEnds
  <2>1. /\ UNCHANGED <<got, sent, idle, masterDone, refused, childDone, waitValid, result, holder>>
        /\ mark' = sent /\ ~attached' /\ child = "running" /\ Started
      BY <1>8 DEF ToolEnds, Others
  <2>2. ~(childDone /\ waitValid) /\ result # "NORMAL"
      BY <1>0, <2>1 DEF ChildInv, AfterFork, Started, FilesInv
  <2>3. ~(idle > 1 /\ waitValid)  BY <1>0, <2>2 DEF DrainInv, CountsInv
  <2> QED  BY <1>0, <2>1, <2>2, <2>3 DEF DrainInv, SlaveOpen
<1>9. CASE Done \/ UNCHANGED vars
    BY <1>0, <1>9 DEF DrainInv, SlaveOpen, Done, vars
<1> QED  BY <1>1, <1>2, <1>3, <1>4, <1>5, <1>6, <1>7, <1>8, <1>9 DEF Next, Program

\* The artifact is a gapless beginning of what the tool wrote, and all of it up to the
\* tool's end when the run returned NORMAL.
THEOREM OutputComplete == Spec => []OutputIsComplete
<1>1. GivenInv /\ OutInv /\ [Next]_vars => (GivenInv /\ OutInv)'
    BY FilesStep, TerminalsStep, ChildStep, CountsStep, ArtifactStep, ReadyStep, DrainStep
    DEF GivenInv, OutInv
<1>2. GivenInv /\ OutInv => OutputIsComplete
  <2> SUFFICES ASSUME GivenInv, OutInv PROVE OutputIsComplete  OBVIOUS
  <2>1. result = "NORMAL" /\ ~refused => got >= mark
      BY DEF OutInv, CountsInv, DrainInv
  <2>2. ASSUME file # NoFile, file \in DOMAIN files
        PROVE  /\ IsPrefix(files[file], SubSeq(Output(script), 1, got))
               /\ intact => Len(files[file]) = got
    <3>1. pc # "idle" \/ child # "none"  BY <2>2 DEF GivenInv, FilesInv
    <3>2. got \in Nat  BY DEF OutInv, CountsInv
    <3>3. PICK n \in 0 .. got : files[file] = SubSeq(Output(script), 1, n) /\ (intact => n = got)
        BY <3>1 DEF OutInv, ArtifactInv
    <3>4. /\ IsPrefix(SubSeq(Output(script), 1, n), SubSeq(Output(script), 1, got))
          /\ Len(SubSeq(Output(script), 1, n)) = n
        BY <3>2, FirstPart
    <3>5. IsPrefix(files[file], SubSeq(Output(script), 1, got))  BY <3>3, <3>4
    <3>6. intact => Len(files[file]) = got  BY <3>3, <3>4
    <3> QED  BY <3>5, <3>6
  <2> QED  BY <2>1, <2>2 DEF OutputIsComplete
<1> QED  BY <1>1, <1>2, GivenInit, OutInit, PTL DEF Spec

-------------------------------------------------------------------------------
(* Type correctness.                                                       *)

\* The drain stops counting when it ends.
IdleInv == script \in Scripts /\ (~masterDone => idle < IdleLimit)

\* Before the call the types hold.
LEMMA TypeInit == Init => TypeOK /\ IdleInv
<1> SUFFICES ASSUME Init PROVE TypeOK /\ IdleInv  OBVIOUS
<1>1. script \in Scripts /\ Len(Output(script)) \in Nat  BY OutputType DEF Init
<1> QED  BY <1>1, SizesAssumption DEF Init, TypeOK, IdleInv, PtyFill

\* Every step keeps the types.
LEMMA TypeStep ==
    ASSUME GivenInv, CountsInv, TypeOK, IdleInv, [Next]_vars
    PROVE  TypeOK' /\ IdleInv'
<1> USE DEF tool, terminals, loop, reading, TypeOK, IdleInv
<1>0. /\ TypeOK /\ IdleInv /\ got \in Nat /\ sent \in Nat /\ mark \in Nat
      /\ got <= sent /\ mark <= sent
    BY DEF CountsInv
<1>1. Len(Output(script)) \in Nat  BY OutputType
<1>2. PtyCapacity \in Nat /\ IdleLimit \in Nat /\ IdleLimit > 1  BY SizesAssumption
<1>3. CASE OpenArtifact
  <2>1. file' = file \/ file' \in Stamps \X (0 .. Attempts - 1)
    <3> SUFFICES ASSUME file' # file PROVE file' \in Stamps \X (0 .. Attempts - 1)
        OBVIOUS
    <3>1. PICK stamp \in Stamps :
             /\ FreeNames(stamp) # {}
             /\ file' = CHOOSE g \in FreeNames(stamp) :
                          \A h \in FreeNames(stamp) : g[2] <= h[2]
        BY <1>3 DEF OpenArtifact
    <3>2. file' \in FreeNames(stamp)  BY <3>1, FirstFreeName
    <3> QED  BY <3>2 DEF FreeNames
  <2>2. /\ UNCHANGED <<terminals, tool, script, loop, got>> /\ pc' \in {pc, "master"}
        /\ fds' \in {fds, {"artifact"}} /\ result' \in {result, "ABNORMAL"}
      BY <1>3 DEF OpenArtifact
  <2> QED  BY <1>0, <2>1, <2>2 DEF PtyFill
<1>4. CASE OpenMaster    BY <1>0, <1>4 DEF OpenMaster, Abandon, PtyFill
<1>5. CASE TerminalRaw   BY <1>0, <1>5 DEF TerminalRaw, Abandon, PtyFill
<1>6. CASE Arm           BY <1>0, <1>6 DEF Arm, PtyFill
<1>7. CASE Fork          BY <1>0, <1>7 DEF Fork, Abandon, Restore, PtyFill
<1>8. CASE Poll
  <2>1. /\ pc' \in {"serve", "finish"} /\ mark' \in {mark, sent} /\ child' \in {child, "exited"}
        /\ UNCHANGED <<file, fds, terminals, sent, got, script, masterDone, idle, result>>
      BY <1>8 DEF Poll
  <2> QED  BY <1>0, <2>1 DEF PtyFill
<1>9. CASE Serve
  <2>1. /\ pc' = "wait" /\ got' \in got .. sent /\ (masterDone => masterDone')
        /\ UNCHANGED <<file, fds, terminals, child, mark, sent, script, idle, result>>
      BY <1>9, ServeReads DEF Serve
  <2>2. got' \in Nat /\ got <= got' /\ got' <= sent  BY <1>0, <2>1
  <2>3. PtyFill' <= PtyCapacity
    <3>1. sent - got <= PtyCapacity  BY <1>0 DEF PtyFill
    <3>2. sent \in Nat /\ got \in Nat  BY <1>0
    <3>3. \A a, b, c, d \in Nat : a - b <= d /\ b <= c => a - c <= d  OBVIOUS
    <3>4. sent - got' <= PtyCapacity  BY <1>2, <2>2, <3>1, <3>2, <3>3
    <3> QED  BY <2>1, <3>4 DEF PtyFill
  <2>4. IdleInv'  BY <1>0, <2>1
  <2> QED  BY <1>0, <2>1, <2>2, <2>3, <2>4
<1>10. CASE Wait
  <2>1. /\ pc' \in {"poll", "finish"}
        /\ child' \in {child, "running", "reaped"}
        /\ UNCHANGED <<file, fds, terminals, sent, got, mark, script, result>>
      BY <1>10 DEF Wait, Turn
  <2>2. UNCHANGED <<idle, masterDone>>
          \/ (~masterDone /\ idle' \in {idle + 1, 0} /\ masterDone' = (idle' >= IdleLimit))
      BY <1>10 DEF Wait, Turn, Drain
  <2>3. idle' \in 0 .. IdleLimit /\ (~masterDone' => idle' < IdleLimit)
    <3>1. CASE UNCHANGED <<idle, masterDone>>  BY <1>0, <3>1
    <3>2. CASE /\ ~masterDone /\ idle' \in {idle + 1, 0}
               /\ masterDone' = (idle' >= IdleLimit)
      <4>1. idle' \in 0 .. IdleLimit  BY <1>0, <1>2, <3>2
      <4>2. ~masterDone' => ~(idle' >= IdleLimit)  BY <3>2
      <4> QED  BY <1>2, <4>1, <4>2
    <3> QED  BY <2>2, <3>1, <3>2
  <2> QED  BY <1>0, <2>1, <2>3 DEF PtyFill
<1>11. CASE Finish       BY <1>0, <1>11 DEF Finish, Restore, PtyFill
<1>12. CASE Writes       BY <1>0, <1>1, <1>2, <1>12 DEF Writes, Others, PtyFill
<1>13. CASE ToolSpawns \/ ToolCloses \/ ToolStops \/ ToolEnds \/ HolderEnds
  <2>1. /\ child' \in {child, "stopped", "exited"} /\ mark' \in {mark, sent}
        /\ UNCHANGED <<Others, sent>>
      BY <1>13 DEF ToolSpawns, ToolCloses, ToolStops, ToolEnds, HolderEnds
  <2> QED  BY <1>0, <2>1 DEF Others, PtyFill
<1>14. CASE Done \/ UNCHANGED vars
  <2>1. UNCHANGED <<pc, file, fds, terminals, child, sent, got, mark, script, masterDone, idle,
                    result>>
      BY <1>14 DEF Done, vars
  <2> QED  BY <1>0, <2>1 DEF PtyFill
<1> QED  BY <1>3, <1>4, <1>5, <1>6, <1>7, <1>8, <1>9, <1>10, <1>11, <1>12, <1>13, <1>14
         DEF Next, Program

\* The variables have their types; in particular the PTY never holds more than it can.
THEOREM TypeCorrect == Spec => []TypeOK
<1>1. GivenInv /\ CountsInv /\ TypeOK /\ IdleInv /\ [Next]_vars
        => (GivenInv /\ CountsInv /\ TypeOK /\ IdleInv)'
    BY FilesStep, TerminalsStep, ChildStep, CountsStep, TypeStep DEF GivenInv
<1>2. Init => CountsInv  BY OutInit DEF OutInv
<1> QED  BY <1>1, <1>2, GivenInit, TypeInit, PTL DEF Spec
===============================================================================
