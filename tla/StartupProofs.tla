--------------------------- MODULE StartupProofs ----------------------------
(* Theorems about what runs before a guest has its drive: the launcher and   *)
(* the helper it starts (NativeLaunch, HostfsLink), the helper's start       *)
(* (HostfsdStartup), and the way from the guest's path to the host's file    *)
(* (HostfsPath).                                                             *)
EXTENDS NativeLaunch, HostfsdStartup, HostfsPath, Recursion, SequenceTheorems,
  FiniteSetTheorems, TLAPS

-----------------------------------------------------------------------------
(* NativeLaunch and HostfsLink *)

Frame == [len : Lengths \cup BadLengths, size : 1..MaxFrame]

\* The bytes of s are bytes of the frames fr; where one is, the rest of its
\* frame is in its place, as far as s goes; and the next frame follows.
OfFrames(s, fr) ==
  \A i \in 1..Len(s) : \E f \in 1..Len(fr), k \in 1..MaxFrame :
    k <= fr[f].size /\ s[i] = <<f, k>>

Whole(s, fr) ==
  \A i, j \in 1..Len(s), f \in 1..Len(fr), k \in 1..MaxFrame :
    s[i] = <<f, k>> /\ k + j - i \in 1..fr[f].size => s[j] = <<f, k + j - i>>

Successive(s, fr) ==
  \A i \in 1..Len(s), f \in 1..Len(fr) :
    i < Len(s) /\ s[i] = <<f, fr[f].size>> => s[i + 1] = <<f + 1, 1>>

Orderly(s, fr) == OfFrames(s, fr) /\ Whole(s, fr) /\ Successive(s, fr)

\* They end with the last frame.
Complete(s, fr) == s # <<>> => s[Len(s)] = <<Len(fr), fr[Len(fr)].size>>

LEMMA FrameType ==
  ASSUME NEW fr \in Seq(Frame), NEW f \in 1..Len(fr)
  PROVE  fr[f].size \in 1..MaxFrame /\ fr[f].size \in Nat /\ fr[f].size >= 1
<1>1. fr[f] \in Frame
  BY ElementOfSeq
<1> QED BY <1>1, FrameAssumption DEF Frame

LEMMA OrderlyPrefix ==
  ASSUME NEW B, NEW fr \in Seq(Frame), NEW s \in Seq(B), Orderly(s, fr), NEW n \in 0..Len(s)
  PROVE  Orderly(SubSeq(s, 1, n), fr)
<1> DEFINE t == SubSeq(s, 1, n)
<1>1. t \in Seq(B) /\ Len(t) = n /\ \A i \in 1..n : t[i] = s[i]
  BY SubSeqProperties
<1> HIDE DEF t
<1>2. \A i \in 1..Len(t) : i \in 1..Len(s) /\ t[i] = s[i]
  BY <1>1
<1>3. \A i \in 1..Len(t) : i < Len(t) => i + 1 \in 1..Len(t) /\ i < Len(s)
  BY <1>1
<1>4. \A i \in 1..Len(t) : \E f \in 1..Len(fr), k \in 1..MaxFrame :
        k <= fr[f].size /\ t[i] = <<f, k>>
  BY <1>2 DEF Orderly, OfFrames
<1>5. \A i, j \in 1..Len(t), f \in 1..Len(fr), k \in 1..MaxFrame :
        t[i] = <<f, k>> /\ k + j - i \in 1..fr[f].size => t[j] = <<f, k + j - i>>
  BY <1>2 DEF Orderly, Whole
<1>6. \A i \in 1..Len(t), f \in 1..Len(fr) :
        i < Len(t) /\ t[i] = <<f, fr[f].size>> => t[i + 1] = <<f + 1, 1>>
  BY <1>2, <1>3 DEF Orderly, Successive
<1>7. Orderly(t, fr)
  BY <1>4, <1>5, <1>6 DEF Orderly, OfFrames, Whole, Successive
<1> QED BY <1>7 DEF t

LEMMA OrderlySuffix ==
  ASSUME NEW B, NEW fr \in Seq(Frame), NEW s \in Seq(B), Orderly(s, fr), NEW n \in 0..Len(s)
  PROVE  Orderly(SubSeq(s, n + 1, Len(s)), fr)
<1> DEFINE t == SubSeq(s, n + 1, Len(s))
<1>1. t \in Seq(B) /\ Len(t) = Len(s) - n /\ \A i \in 1..Len(t) : t[i] = s[n + i]
  BY SubSeqProperties
<1> HIDE DEF t
<1>2. \A i \in 1..Len(t) : n + i \in 1..Len(s) /\ t[i] = s[n + i]
  BY <1>1
<1>3. ASSUME NEW i \in 1..Len(t), NEW j \in 1..Len(t), NEW f \in 1..Len(fr), NEW k \in 1..MaxFrame,
             t[i] = <<f, k>>, k + j - i \in 1..fr[f].size
      PROVE  t[j] = <<f, k + j - i>>
  <2>1. k + (n + j) - (n + i) = k + j - i
    BY FrameAssumption
  <2>2. n + i \in 1..Len(s) /\ n + j \in 1..Len(s) /\ s[n + i] = <<f, k>> /\ t[j] = s[n + j]
    BY <1>2, <1>3
  <2>3. k + (n + j) - (n + i) \in 1..fr[f].size
    BY <1>3, <2>1
  <2>4. s[n + j] = <<f, k + (n + j) - (n + i)>>
    BY <2>2, <2>3 DEF Orderly, Whole
  <2> QED BY <2>1, <2>2, <2>4
<1>4. ASSUME NEW i \in 1..Len(t), NEW f \in 1..Len(fr), i < Len(t), t[i] = <<f, fr[f].size>>
      PROVE  t[i + 1] = <<f + 1, 1>>
  <2>1. n + i < Len(s) /\ i + 1 \in 1..Len(t) /\ n + (i + 1) = (n + i) + 1
    BY <1>1, <1>4
  <2>2. n + i \in 1..Len(s) /\ s[n + i] = <<f, fr[f].size>> /\ t[i + 1] = s[(n + i) + 1]
    BY <1>2, <1>4, <2>1
  <2> QED BY <2>1, <2>2 DEF Orderly, Successive
<1>5. \A i \in 1..Len(t) : \E f \in 1..Len(fr), k \in 1..MaxFrame :
        k <= fr[f].size /\ t[i] = <<f, k>>
  BY <1>2 DEF Orderly, OfFrames
<1>6. Orderly(t, fr)
  BY <1>3, <1>4, <1>5 DEF Orderly, OfFrames, Whole, Successive
<1> QED BY <1>6 DEF t

LEMMA OrderlyAppend ==
  ASSUME NEW B, NEW fr \in Seq(Frame), NEW s \in Seq(B), Orderly(s, fr), Complete(s, fr),
         NEW f \in Frame, \A k \in 1..f.size : <<Len(fr) + 1, k>> \in B
  PROVE  LET t == s \o [k \in 1..f.size |-> <<Len(fr) + 1, k>>]
         IN  /\ Orderly(t, Append(fr, f))
             /\ Complete(t, Append(fr, f))
             /\ t[1] = IF s = <<>> THEN <<Len(fr) + 1, 1>> ELSE s[1]
<1> DEFINE new == [k \in 1..f.size |-> <<Len(fr) + 1, k>>]
           t == s \o new
           gr == Append(fr, f)
           L == Len(fr)
           M == Len(s)
           N == Len(t)
<1>1. f.size \in 1..MaxFrame /\ f.size \in Nat /\ f.size >= 1 /\ L \in Nat /\ M \in Nat
  BY FrameAssumption DEF Frame
<1>2. new \in Seq(B) /\ Len(new) = f.size /\ \A k \in 1..f.size : new[k] = <<L + 1, k>>
  <2>1. new \in [1..f.size -> B]
    BY <1>1
  <2> QED BY <1>1, <2>1
<1>3. Len(gr) = L + 1 /\ gr[L + 1] = f /\ \A g \in 1..L : gr[g] = fr[g]
  BY AppendProperties
<1> HIDE DEF new, gr
<1>4. t \in Seq(B) /\ N = M + f.size
  <2>1. new \in Seq(B)
    BY <1>2
  <2>2. t \in Seq(B) /\ N = M + Len(new)
    BY <2>1, ConcatProperties
  <2> QED BY <1>2, <2>2
<1>5. \A i \in 1..N : t[i] = IF i <= M THEN s[i] ELSE new[i - M]
  BY <1>2, ConcatProperties
<1> HIDE DEF t, L, M, N
<1>6. \A i \in 1..M : i \in 1..N /\ t[i] = s[i]
  BY <1>1, <1>4, <1>5
<1>7. ASSUME NEW i \in 1..N, i > M
      PROVE  t[i] = <<L + 1, i - M>> /\ i - M \in 1..f.size
  <2>1. i - M \in 1..f.size /\ ~(i <= M)
    BY <1>1, <1>4, <1>7
  <2>2. t[i] = new[i - M]
    BY <1>5, <2>1
  <2> QED BY <1>2, <2>1, <2>2
<1>8. \A i \in 1..M : \E g \in 1..L, k \in 1..MaxFrame : k <= gr[g].size /\ s[i] = <<g, k>>
  BY <1>3 DEF Orderly, OfFrames, L, M
\* A frame of s goes no further than s.
<1>9. ASSUME NEW i \in 1..M, NEW g \in 1..L, NEW k \in 1..MaxFrame, s[i] = <<g, k>>
      PROVE  k + M - i >= gr[g].size
  <2>1. k \in Nat /\ k >= 1 /\ gr[g].size = fr[g].size /\ fr[g].size \in Nat /\ i \in Nat /\ i <= M
    BY <1>1, <1>3, FrameType, FrameAssumption DEF L
  <2> SUFFICES ASSUME k + M - i < gr[g].size PROVE FALSE
    BY <1>1, <2>1
  <2>2. k + M - i \in 1..fr[g].size /\ M \in 1..M /\ s # <<>>
    BY <2>1, <1>1 DEF M
  <2>3. s[M] = <<g, k + M - i>>
    BY <2>2, <1>9 DEF Orderly, Whole, M, L
  <2>4. s[M] = <<L, fr[L].size>>
    BY <2>2 DEF Complete, M, L
  <2> QED BY <2>1, <2>3, <2>4
<1>10. \A i \in 1..N : \E g \in 1..Len(gr), k \in 1..MaxFrame : k <= gr[g].size /\ t[i] = <<g, k>>
  <2> SUFFICES ASSUME NEW i \in 1..N
               PROVE  \E g \in 1..Len(gr), k \in 1..MaxFrame : k <= gr[g].size /\ t[i] = <<g, k>>
    OBVIOUS
  <2>1. CASE i <= M
    <3>1. i \in 1..M
      BY <2>1, <1>1
    <3> QED BY <3>1, <1>1, <1>3, <1>6, <1>8
  <2>2. CASE i > M
    <3>1. t[i] = <<L + 1, i - M>> /\ i - M \in 1..f.size /\ gr[L + 1].size = f.size
      BY <2>2, <1>3, <1>7
    <3>2. i - M \in 1..MaxFrame /\ i - M <= gr[L + 1].size
      BY <3>1, <1>1, FrameAssumption
    <3> QED BY <3>1, <3>2, <1>1, <1>3
  <2> QED BY <2>1, <2>2, <1>1, <1>4
<1>11. ASSUME NEW i \in 1..N, NEW j \in 1..N, NEW g \in 1..Len(gr), NEW k \in 1..MaxFrame,
              t[i] = <<g, k>>, k + j - i \in 1..gr[g].size
       PROVE  t[j] = <<g, k + j - i>>
  <2>1. CASE i <= M
    <3>1. i \in 1..M /\ s[i] = <<g, k>>
      BY <2>1, <1>1, <1>6, <1>11
    <3>2. PICK h \in 1..L, l \in 1..MaxFrame : s[i] = <<h, l>>
      BY <3>1, <1>8
    <3>3. g \in 1..L /\ gr[g] = fr[g]
      BY <3>1, <3>2, <1>3
    <3>4. k + M - i >= gr[g].size /\ gr[g].size \in Nat /\ k \in Nat
      BY <3>1, <3>3, <1>9, FrameType, FrameAssumption DEF L
    <3>5. j <= M
      <4>1. k + j - i <= gr[g].size
        BY <1>11, <3>4
      <4> QED BY <4>1, <3>4, <1>1, <1>4
    <3>6. j \in 1..M
      BY <3>5, <1>1, <1>4
    <3> QED BY <3>1, <3>3, <3>6, <1>6, <1>11 DEF Orderly, Whole, L, M
  <2>2. CASE i > M
    <3>1. g = L + 1 /\ k = i - M /\ gr[g].size = f.size
      BY <2>2, <1>3, <1>7, <1>11
    <3>2. j > M
      BY <3>1, <1>1, <1>4, <1>11
    <3> QED BY <3>1, <3>2, <1>1, <1>4, <1>7
  <2> QED BY <2>1, <2>2, <1>1, <1>4
<1>12. ASSUME NEW i \in 1..N, NEW g \in 1..Len(gr), i < N, t[i] = <<g, gr[g].size>>
       PROVE  t[i + 1] = <<g + 1, 1>>
  <2>1. CASE i < M
    <3>1. i \in 1..M /\ i + 1 \in 1..M /\ s[i] = <<g, gr[g].size>>
      BY <2>1, <1>1, <1>6, <1>12
    <3>2. PICK h \in 1..L, l \in 1..MaxFrame : s[i] = <<h, l>>
      BY <3>1, <1>8
    <3>3. g \in 1..L /\ gr[g] = fr[g]
      BY <3>1, <3>2, <1>3
    <3> QED BY <2>1, <3>1, <3>3, <1>6 DEF Orderly, Successive, L, M
  <2>2. CASE i = M
    <3>1. s # <<>> /\ i \in 1..M
      BY <2>2, <1>1 DEF M
    <3>2. t[i] = <<L, fr[L].size>>
      BY <3>1, <2>2, <1>6 DEF Complete, M, L
    <3>3. g = L
      BY <3>2, <1>12
    <3>4. i + 1 \in 1..N /\ i + 1 > M /\ (i + 1) - M = 1
      BY <2>2, <1>12, <1>1, <1>4
    <3>5. t[i + 1] = <<L + 1, (i + 1) - M>>
      BY <3>4, <1>7
    <3> QED BY <3>3, <3>4, <3>5
  <2>3. CASE i > M
    <3>1. i - M = gr[g].size /\ g = L + 1
      BY <2>3, <1>7, <1>12
    <3> QED BY <3>1, <1>1, <1>3, <1>4, <1>12
  <2> QED BY <2>1, <2>2, <2>3, <1>1, <1>4
<1>13. Complete(t, gr)
  <2>1. N \in 1..N /\ N > M /\ N - M = f.size
    BY <1>1, <1>4
  <2> QED BY <2>1, <1>3, <1>7 DEF Complete, N
<1>14. t[1] = IF s = <<>> THEN <<Len(fr) + 1, 1>> ELSE s[1]
  <2>1. CASE s = <<>>
    <3>1. M = 0 /\ 1 \in 1..N
      BY <2>1, <1>1, <1>4 DEF M
    <3> QED BY <2>1, <3>1, <1>7 DEF L
  <2>2. CASE s # <<>>
    <3>1. 1 \in 1..M
      BY <2>2, <1>1 DEF M
    <3> QED BY <2>2, <3>1, <1>6
  <2> QED BY <2>1, <2>2
<1>15. Orderly(t, gr)
  BY <1>10, <1>11, <1>12 DEF Orderly, OfFrames, Whole, Successive, N
<1> QED BY <1>13, <1>14, <1>15 DEF t, gr, new, L
-----------------------------------------------------------------------------
(* Types *)

LEMMA ReceiveTypes == TypeOK /\ Receive => TypeOK'
<1> SUFFICES ASSUME TypeOK, Receive PROVE TypeOK'
  OBVIOUS
<1>1. PICK n \in 1..Len(wire) : buf' = buf \o SubSeq(wire, 1, n) /\ wire' = SubSeq(wire, n + 1, Len(wire))
  <2>1. PICK needed \in Needed :
          \E n \in 1..(needed - Len(buf)) :
            n <= Len(wire) /\ buf' = buf \o SubSeq(wire, 1, n) /\ wire' = SubSeq(wire, n + 1, Len(wire))
    BY DEF Receive
  <2>2. PICK n \in 1..(needed - Len(buf)) :
          n <= Len(wire) /\ buf' = buf \o SubSeq(wire, 1, n) /\ wire' = SubSeq(wire, n + 1, Len(wire))
    BY <2>1
  <2>3. n \in 1..Len(wire)
    BY <2>2 DEF TypeOK
  <2> QED BY <2>2, <2>3
<1>2. wire \in Seq(Bytes) /\ buf \in Seq(Bytes)
  BY DEF TypeOK
<1>3. SubSeq(wire, 1, n) \in Seq(Bytes) /\ SubSeq(wire, n + 1, Len(wire)) \in Seq(Bytes)
  BY <1>2
<1>4. buf' \in Seq(Bytes) /\ wire' \in Seq(Bytes)
  BY <1>1, <1>2, <1>3, ConcatProperties
<1> QED BY <1>4 DEF TypeOK, Receive

LEMMA SendsTypes == TypeOK /\ ClientSends => TypeOK'
<1> SUFFICES ASSUME TypeOK, ClientSends PROVE TypeOK'
  OBVIOUS
<1>1. PICK len \in Lengths \cup BadLengths, size \in 1..MaxFrame :
        /\ frames' = Append(frames, [len |-> len, size |-> size])
        /\ wire' = wire \o [k \in 1..size |-> <<Len(frames) + 1, k>>]
  BY DEF ClientSends
<1> DEFINE new == [k \in 1..size |-> <<Len(frames) + 1, k>>]
           f == [len |-> len, size |-> size]
<1>2. Len(frames) + 1 \in 1..MaxSent /\ size \in Nat
  BY FrameAssumption DEF TypeOK, ClientSends
<1>3. new \in [1..size -> Bytes]
  BY <1>2, FrameAssumption DEF Bytes
<1>4. new \in Seq(Bytes)
  BY <1>2, <1>3
<1>5. f \in Frame
  BY DEF Frame
<1>6. frames \in Seq(Frame) /\ wire \in Seq(Bytes)
  BY DEF TypeOK, Frame
<1> HIDE DEF new, f
<1>7. frames' \in Seq(Frame) /\ Len(frames') = Len(frames) + 1
  BY <1>1, <1>5, <1>6, AppendProperties DEF f
<1>8. wire' \in Seq(Bytes)
  BY <1>1, <1>4, <1>6, ConcatProperties DEF new
<1> QED BY <1>2, <1>7, <1>8 DEF TypeOK, ClientSends, Frame

LEMMA ResetTypes ==
  ASSUME TypeOK, Reset, client' = "none", state' \in States, UNCHANGED clients
  PROVE  TypeOK'
BY FrameAssumption, EmptySeq DEF TypeOK, Reset

LEMMA ClientTypes ==
  TypeOK /\ (ClientConnects \/ ClientSends \/ ClientCloses) => TypeOK'
<1>1. ASSUME TypeOK, ClientConnects PROVE TypeOK'
  BY <1>1, FrameAssumption DEF TypeOK, ClientConnects, conn
<1>2. ASSUME TypeOK, ClientCloses PROVE TypeOK'
  <2>1. wire' \in Seq(Bytes)
    BY <1>2 DEF TypeOK, ClientCloses
  <2> QED BY <1>2, <2>1 DEF TypeOK, ClientCloses
<1> QED BY <1>1, <1>2, SendsTypes

LEMMA HelperTypes == TypeOK /\ Helper => TypeOK'
<1> SUFFICES ASSUME TypeOK, Helper PROVE TypeOK'
  OBVIOUS
<1>1. ASSUME SessionOver PROVE TypeOK'
  BY <1>1, ResetTypes DEF SessionOver, States
<1>2. CASE Listen \/ Accept
  BY <1>2 DEF TypeOK, Listen, Accept, conn, States
<1>3. CASE HeaderRead
  BY <1>3, FrameAssumption DEF TypeOK, HeaderRead, States
<1>4. CASE Serve
  <2>1. requests' \in Seq(Seq(Bytes))
    BY <1>4 DEF TypeOK, Serve
  <2> QED BY <1>4, <2>1, FrameAssumption DEF TypeOK, Serve, States
<1>5. CASE Send
  BY <1>5 DEF TypeOK, Send
<1>6. CASE Sent
  BY <1>1, <1>6, EmptySeq DEF TypeOK, Sent, States
<1> QED BY <1>1, <1>2, <1>3, <1>4, <1>5, <1>6, ReceiveTypes DEF Helper, ReceiveEnds, SendFails

LEMMA LaunchTypes == LaunchTypeOK /\ [LaunchNext]_allvars => LaunchTypeOK'
<1> SUFFICES ASSUME LaunchTypeOK, [LaunchNext]_allvars PROVE LaunchTypeOK'
  OBVIOUS
<1> USE DEF LaunchTypeOK
<1>1. ASSUME UNCHANGED vars PROVE TypeOK'
  BY <1>1 DEF TypeOK, vars, conn
<1>2. ASSUME KillHelper PROVE TypeOK'
  BY <1>2, ResetTypes DEF KillHelper, States
<1>3. CASE Launch
  <2>1. CASE Prepare \/ Exec
    <3>1. TypeOK'
      BY <1>1, <1>2, <2>1 DEF Prepare, Exec
    <3> QED BY <2>1, <3>1 DEF Prepare, Exec, Stages
  <2>2. CASE GivesUp
    BY <1>2, <2>2 DEF GivesUp, Stages
  <2>3. CASE SeesReady \/ SeesHelperDead
    BY <1>1, <2>3 DEF SeesReady, SeesHelperDead, Stages
  <2>4. CASE PollsAgain
    BY <1>1, <2>4, LaunchAssumption DEF PollsAgain
  <2> QED BY <1>3, <2>1, <2>2, <2>3, <2>4 DEF Launch
<1>4. CASE QemuRuns \/ QemuExits
  BY <1>1, <1>4, ClientTypes DEF QemuRuns, QemuExits, Stages
<1>5. CASE Probe
  BY <1>5, FrameAssumption DEF Probe, TypeOK, conn, launch
<1>6. CASE HelperRuns
  BY <1>6, HelperTypes DEF HelperRuns
<1>7. CASE UNCHANGED allvars
  BY <1>1, <1>7 DEF allvars, launch
<1> QED BY <1>3, <1>4, <1>5, <1>6, <1>7 DEF LaunchNext

LEMMA LaunchTyped == LaunchSpec => []LaunchTypeOK
<1>1. LaunchInit => LaunchTypeOK
  BY FrameAssumption, LaunchAssumption, EmptySeq DEF LaunchInit, Init, LaunchTypeOK, TypeOK, States, Stages
<1> QED BY <1>1, LaunchTypes, PTL DEF LaunchSpec
-----------------------------------------------------------------------------
(* The order of a launch *)

\* The launcher, the helper and the ready file: the helper is as good as not
\* started before the launcher waits, it is listening once the launcher has
\* seen the ready file, and it is gone once the launch has failed.
LaunchOrder ==
  /\ launcher = "start" => state = "starting"
  /\ launcher = "waiting" /\ ready => state # "starting"
  /\ launcher \in {"exec", "qemu", "joined", "closed"} => state # "starting" /\ ready
  /\ launcher = "failed" => state = "gone"

\* The helper does not go back to its start, and says that it is ready when it
\* leaves it; a connection never starts or ends a helper that is starting.
LEMMA HelperLeavesStart ==
  /\ Helper => state' # "starting"
  /\ (ClientConnects \/ ClientSends \/ ClientCloses) => UNCHANGED state
<1>1. Helper => state' # "starting"
  BY DEF Helper, Listen, Accept, Receive, ReceiveEnds, HeaderRead, Serve, Send, Sent, SendFails,
         SessionOver
<1>2. (ClientConnects \/ ClientSends \/ ClientCloses) => UNCHANGED state
  BY DEF ClientConnects, ClientSends, ClientCloses
<1> QED BY <1>1, <1>2

LEMMA LaunchOrderStep == LaunchTypeOK /\ LaunchOrder /\ [LaunchNext]_allvars => LaunchOrder'
<1> SUFFICES ASSUME LaunchTypeOK, LaunchOrder, [LaunchNext]_allvars PROVE LaunchOrder'
  OBVIOUS
<1> USE DEF LaunchOrder
<1>1. CASE Launch
  BY <1>1 DEF Launch, Prepare, SeesReady, SeesHelperDead, PollsAgain, GivesUp, Exec, KillHelper, vars
<1>2. CASE QemuRuns
  BY <1>2, HelperLeavesStart DEF QemuRuns
<1>3. CASE QemuExits
  BY <1>3, HelperLeavesStart DEF QemuExits, vars
<1>4. CASE Probe
  BY <1>4 DEF Probe, launch
<1>5. CASE HelperRuns
  BY <1>5, HelperLeavesStart DEF HelperRuns
<1>6. CASE UNCHANGED allvars
  BY <1>6 DEF allvars, launch, vars
<1> QED BY <1>1, <1>2, <1>3, <1>4, <1>5, <1>6 DEF LaunchNext

LEMMA LaunchOrdered == LaunchSpec => []LaunchOrder
<1>1. LaunchInit => LaunchOrder
  BY DEF LaunchInit, Init, LaunchOrder
<1> QED BY <1>1, LaunchOrderStep, LaunchTyped, PTL DEF LaunchSpec

\* QEMU runs only after the helper listens and has said so, whatever ready
\* file was left behind and however often the launcher looks.
THEOREM QemuIsSecond == LaunchSpec => []QemuComesSecond
<1>1. LaunchOrder => QemuComesSecond
  BY DEF LaunchOrder, QemuComesSecond
<1> QED BY <1>1, LaunchOrdered, PTL

\* The launcher's three failures (fork(), the wait, exec) all end the helper.
THEOREM FailedLaunchIsClean == LaunchSpec => []FailedLaunchLeavesNothing
<1>1. LaunchOrder => FailedLaunchLeavesNothing
  BY DEF LaunchOrder, FailedLaunchLeavesNothing
<1> QED BY <1>1, LaunchOrdered, PTL

\* main()'s loop with --once: a helper that listens ends of itself only after a
\* session that brought a header, however many connections came before.
THEOREM OnceNeedsASession == LaunchSpec => OnceIsSpentOnASession
<1> DEFINE Claim == state' = "gone" /\ state \notin {"starting", "gone"} /\ launcher' # "failed" => served > 0
<1>1. ASSUME LaunchTypeOK, LaunchOrder, LaunchNext PROVE Claim
  <2>1. CASE Launch
    BY <1>1, <2>1 DEF Launch, Prepare, SeesReady, SeesHelperDead, PollsAgain, GivesUp, Exec, LaunchOrder, vars
  <2>2. CASE QemuRuns \/ QemuExits \/ Probe
    BY <2>2, HelperLeavesStart DEF QemuRuns, QemuExits, Probe, vars
  <2>3. CASE HelperRuns
    BY <2>3 DEF HelperRuns, Helper, Listen, Accept, Receive, ReceiveEnds, HeaderRead, Serve, Send,
                Sent, SendFails, SessionOver
  <2> QED BY <1>1, <2>1, <2>2, <2>3 DEF LaunchNext
<1>2. LaunchTypeOK /\ LaunchOrder /\ [LaunchNext]_allvars => [Claim]_allvars
  BY <1>1
<1> QED BY <1>2, LaunchTyped, LaunchOrdered, PTL DEF LaunchSpec, OnceIsSpentOnASession

-----------------------------------------------------------------------------
(* The stream *)

\* The frame that is received or answered, and what is left of the frames
\* before it: the bytes in the buffer and those still on the wire.
Turn == IF state = "answering" THEN Len(requests) ELSE Len(requests) + 1
Stream == buf \o wire

Idle ==
  /\ client = "none" => state \in {"starting", "accepting", "gone"} /\ frames = <<>> /\ wire = <<>>
  /\ state \in {"starting", "gone"} => client = "none"
  /\ state \in {"starting", "accepting", "gone"} => buf = <<>> /\ requests = <<>>

Sizes == \A f \in 1..Len(frames) : frames[f].len \in Lengths => frames[f].size = frames[f].len

Aligned ==
  /\ Orderly(Stream, frames)
  /\ Stream # <<>> => Stream[1] = <<Turn, 1>>
  /\ client = "open" => Complete(Stream, frames) /\ (Stream = <<>> => Turn = Len(frames) + 1)

Taken ==
  \A r \in 1..Len(requests) :
    r <= Len(frames) /\ frames[r].len \in Lengths /\ requests[r] = FrameBytes(r)

Phase ==
  /\ state = "header" => Len(buf) <= Header
  /\ state = "body" =>
       /\ Turn <= Len(frames) /\ frames[Turn].len \in Lengths
       /\ Header <= Len(buf) /\ Len(buf) <= frames[Turn].len
  /\ state = "answering" => Len(requests) >= 1 /\ buf = requests[Len(requests)]
  /\ state = "dropping" => Len(buf) = Header

LinkInv == Idle /\ Sizes /\ Aligned /\ Taken /\ Phase

\* Before a connection, and after it.
Fresh ==
  /\ client = "none" /\ state \in {"starting", "accepting", "gone"}
  /\ frames = <<>> /\ wire = <<>> /\ buf = <<>> /\ requests = <<>>

LEMMA LinkStart == TypeOK /\ Fresh => LinkInv
<1> SUFFICES ASSUME TypeOK, Fresh PROVE LinkInv
  OBVIOUS
<1> USE DEF Fresh
<1>1. Stream = <<>> /\ Len(Stream) = 0 /\ Len(requests) = 0 /\ Len(frames) = 0
  BY EmptySeq, ConcatEmptySeq DEF TypeOK, Stream
<1>2. Aligned
  BY <1>1 DEF Aligned, Orderly, OfFrames, Whole, Successive
<1> QED BY <1>1, <1>2 DEF LinkInv, Idle, Sizes, Taken, Phase

\* The buffer is the beginning of the stream.
LEMMA StreamType ==
  ASSUME TypeOK
  PROVE  /\ Stream \in Seq(Bytes) /\ Len(Stream) = Len(buf) + Len(wire)
         /\ \A i \in 1..Len(buf) : i \in 1..Len(Stream) /\ Stream[i] = buf[i]
         /\ frames \in Seq(Frame) /\ Len(frames) \in Nat
         /\ Len(buf) \in Nat /\ Len(wire) \in Nat /\ Len(requests) \in Nat
<1>1. buf \in Seq(Bytes) /\ wire \in Seq(Bytes) /\ frames \in Seq(Frame) /\ requests \in Seq(Seq(Bytes))
  BY DEF TypeOK, Frame
<1>2. Stream \in Seq(Bytes) /\ Len(Stream) = Len(buf) + Len(wire)
      /\ \A i \in 1..(Len(buf) + Len(wire)) : Stream[i] = IF i <= Len(buf) THEN buf[i] ELSE wire[i - Len(buf)]
  BY <1>1, ConcatProperties DEF Stream
<1>3. Len(buf) \in Nat /\ Len(wire) \in Nat /\ Len(requests) \in Nat /\ Len(frames) \in Nat
  BY <1>1
<1> QED BY <1>1, <1>2, <1>3

\* A header in the buffer is the first of a frame: what it declares is known.
LEMMA KnownLength ==
  ASSUME TypeOK, LinkInv, buf # <<>>
  PROVE  Turn \in 1..Len(frames) /\ buf[1] = <<Turn, 1>> /\ Declared = {frames[Turn].len}
<1>1. 1 \in 1..Len(buf) /\ 1 \in 1..Len(Stream) /\ Stream[1] = buf[1] /\ Stream # <<>>
  <2>1. Len(buf) # 0
    BY DEF TypeOK
  <2> QED BY <2>1, StreamType
<1>2. buf[1] = <<Turn, 1>>
  BY <1>1 DEF LinkInv, Aligned
<1>3. \E f \in 1..Len(frames), k \in 1..MaxFrame : Stream[1] = <<f, k>>
  BY <1>1 DEF LinkInv, Aligned, Orderly, OfFrames
<1> QED BY <1>1, <1>2, <1>3 DEF Declared

\* Nothing of the stream changes for what has been taken from it.
LEMMA ReceiveInv == TypeOK /\ LinkInv /\ Receive => LinkInv'
<1> SUFFICES ASSUME TypeOK, LinkInv, Receive PROVE LinkInv'
  OBVIOUS
<1>1. PICK needed \in Needed :
        \E n \in 1..(needed - Len(buf)) :
          n <= Len(wire) /\ buf' = buf \o SubSeq(wire, 1, n) /\ wire' = SubSeq(wire, n + 1, Len(wire))
  BY DEF Receive
<1>2. PICK n \in 1..(needed - Len(buf)) :
        n <= Len(wire) /\ buf' = buf \o SubSeq(wire, 1, n) /\ wire' = SubSeq(wire, n + 1, Len(wire))
  BY <1>1
<1>3. wire \in Seq(Bytes) /\ buf \in Seq(Bytes) /\ n \in 1..Len(wire) /\ n \in Nat
  BY <1>2 DEF TypeOK
<1>4. SubSeq(wire, 1, n) \in Seq(Bytes) /\ SubSeq(wire, n + 1, Len(wire)) \in Seq(Bytes)
      /\ Len(SubSeq(wire, 1, n)) = n
      /\ SubSeq(wire, 1, n) \o SubSeq(wire, n + 1, Len(wire)) = wire
  <2>1. SubSeq(wire, 1, n) \in Seq(Bytes) /\ SubSeq(wire, n + 1, Len(wire)) \in Seq(Bytes)
    BY <1>3
  <2>2. Len(SubSeq(wire, 1, n)) = n
    BY <1>3, SubSeqProperties
  <2>3. SubSeq(wire, 1, n) \o SubSeq(wire, n + 1, Len(wire)) = wire
    <3> DEFINE a == SubSeq(wire, 1, n)
               b == SubSeq(wire, n + 1, Len(wire))
    <3>1. Len(a) = n /\ Len(b) = Len(wire) - n
          /\ (\A i \in 1..n : a[i] = wire[i]) /\ (\A i \in 1..(Len(wire) - n) : b[i] = wire[n + i])
      BY <1>3, SubSeqProperties
    <3>2. a \o b \in Seq(Bytes) /\ Len(a \o b) = Len(a) + Len(b)
          /\ \A i \in 1..(Len(a) + Len(b)) : (a \o b)[i] = IF i <= Len(a) THEN a[i] ELSE b[i - Len(a)]
      BY <2>1, ConcatProperties
    <3> HIDE DEF a, b
    <3>3. Len(a \o b) = Len(wire)
      BY <1>3, <3>1, <3>2
    <3>4. \A i \in 1..Len(wire) : (a \o b)[i] = wire[i]
      BY <1>3, <3>1, <3>2
    <3>5. a \o b = wire
      BY <1>3, <3>2, <3>3, <3>4, SeqEqual
    <3> QED BY <3>5 DEF a, b
  <2> QED BY <2>1, <2>2, <2>3
<1> DEFINE a == SubSeq(wire, 1, n)
           b == SubSeq(wire, n + 1, Len(wire))
<1> HIDE DEF a, b
<1>5. a \in Seq(Bytes) /\ b \in Seq(Bytes) /\ Len(a) = n /\ a \o b = wire /\ buf' = buf \o a /\ wire' = b
  BY <1>2, <1>4 DEF a, b
<1>6. Stream' = Stream /\ Turn' = Turn
  <2>1. buf \in Seq(Bytes) /\ a \in Seq(Bytes) /\ b \in Seq(Bytes)
    BY <1>3, <1>5
  <2>2. (buf \o a) \o b = buf \o (a \o b)
    BY <2>1, ConcatAssociative
  <2> QED BY <1>5, <2>2 DEF Stream, Turn, Receive
<1>7. Len(buf') = Len(buf) + n
  BY <1>3, <1>5, ConcatProperties
<1>8. UNCHANGED <<state, client, frames, requests>> /\ state \in {"header", "body"}
  BY DEF Receive
<1>9. Aligned'
  BY <1>6, <1>8 DEF LinkInv, Aligned
<1>10. Idle' /\ Sizes' /\ Taken'
  BY <1>8 DEF LinkInv, Idle, Sizes, Taken, FrameBytes
<1>11. CASE state = "header"
  <2>1. needed = Header
    BY <1>11, <1>1 DEF Needed
  <2>2. Len(buf) + n <= Header
    BY <2>1, <1>2, <1>3, FrameAssumption
  <2> QED BY <1>7, <1>8, <1>9, <1>10, <1>11, <2>2 DEF LinkInv, Phase
<1>12. CASE state = "body"
  <2>1. Header <= Len(buf) /\ Turn <= Len(frames) /\ frames[Turn].len \in Lengths
    BY <1>12 DEF LinkInv, Phase
  <2>2. buf # <<>>
    BY <2>1, <1>3, FrameAssumption, EmptySeq
  <2>3. needed = frames[Turn].len
    BY <1>1, <1>12, <2>2, KnownLength DEF Needed
  <2>4. frames[Turn].len \in Nat
    BY <2>1, FrameAssumption DEF Lengths
  <2>5. Len(buf) + n <= frames[Turn].len /\ Header <= Len(buf) + n
    BY <1>2, <1>3, <2>1, <2>3, <2>4, FrameAssumption
  <2> QED BY <1>6, <1>7, <1>8, <1>9, <1>10, <1>12, <2>1, <2>5 DEF LinkInv, Phase
<1> QED BY <1>8, <1>11, <1>12

LEMMA SendsInv == TypeOK /\ LinkInv /\ ClientSends => LinkInv'
<1> SUFFICES ASSUME TypeOK, LinkInv, ClientSends PROVE LinkInv'
  OBVIOUS
<1>1. PICK len \in Lengths \cup BadLengths, size \in 1..MaxFrame :
        /\ len \in Lengths => size = len
        /\ frames' = Append(frames, [len |-> len, size |-> size])
        /\ wire' = wire \o [k \in 1..size |-> <<Len(frames) + 1, k>>]
  BY DEF ClientSends
<1> DEFINE f == [len |-> len, size |-> size]
           new == [k \in 1..f.size |-> <<Len(frames) + 1, k>>]
<1>2. f \in Frame /\ f.size = size /\ f.len = len
  BY DEF Frame
<1>3. size \in Nat /\ Len(frames) + 1 \in 1..MaxSent
  BY StreamType, FrameAssumption DEF TypeOK, ClientSends
<1>4. \A k \in 1..f.size : <<Len(frames) + 1, k>> \in Bytes
  BY <1>2, <1>3, FrameAssumption DEF Bytes
<1>5. new \in [1..f.size -> Bytes] /\ new \in Seq(Bytes)
  <2>1. new \in [1..f.size -> Bytes]
    BY <1>4
  <2> QED BY <2>1, <1>2, <1>3
<1> HIDE DEF f, new
<1>6. wire' = wire \o new /\ frames' = Append(frames, f)
  BY <1>1, <1>2 DEF new, f
<1>7. buf \in Seq(Bytes) /\ wire \in Seq(Bytes) /\ Stream \in Seq(Bytes) /\ frames \in Seq(Frame)
  BY StreamType DEF TypeOK
<1>8. Stream' = Stream \o new
  <2>1. (buf \o wire) \o new = buf \o (wire \o new)
    BY <1>5, <1>7, ConcatAssociative
  <2> QED BY <1>6, <2>1 DEF Stream, ClientSends
<1>9. client = "open" /\ UNCHANGED <<state, client, buf, requests>> /\ Turn' = Turn
  BY DEF ClientSends, Turn
<1>10. Len(frames') = Len(frames) + 1 /\ frames'[Len(frames) + 1] = f
       /\ \A g \in 1..Len(frames) : frames'[g] = frames[g]
  BY <1>2, <1>6, <1>7, AppendProperties
<1>11. Orderly(Stream', frames') /\ Complete(Stream', frames')
       /\ Stream'[1] = IF Stream = <<>> THEN <<Len(frames) + 1, 1>> ELSE Stream[1]
  <2>1. Orderly(Stream, frames) /\ Complete(Stream, frames)
    BY <1>9 DEF LinkInv, Aligned
  <2>2. LET t == Stream \o [k \in 1..f.size |-> <<Len(frames) + 1, k>>]
         IN  /\ Orderly(t, Append(frames, f))
             /\ Complete(t, Append(frames, f))
             /\ t[1] = IF Stream = <<>> THEN <<Len(frames) + 1, 1>> ELSE Stream[1]
    BY <1>2, <1>4, <1>7, <2>1, OrderlyAppend
  <2> QED BY <1>6, <1>8, <2>2 DEF new
<1>12. Stream' # <<>>
  BY <1>2, <1>3, <1>5, <1>7, <1>8, ConcatProperties DEF new
<1>13. Aligned'
  BY <1>9, <1>11, <1>12 DEF LinkInv, Aligned
<1>14. Idle'
  BY <1>9 DEF LinkInv, Idle
<1>15. Sizes'
  BY <1>1, <1>2, <1>7, <1>10 DEF LinkInv, Sizes
<1>16. Taken'
  <2>1. \A r \in 1..Len(requests) : r <= Len(frames) /\ frames[r].len \in Lengths /\ requests[r] = FrameBytes(r)
    BY DEF LinkInv, Taken
  <2>2. Len(frames) \in Nat /\ Len(requests) \in Nat
    BY StreamType
  <2>3. \A r \in 1..Len(requests) : r \in 1..Len(frames) /\ frames'[r] = frames[r]
    BY <1>10, <2>1, <2>2
  <2> QED BY <1>9, <1>10, <2>1, <2>2, <2>3 DEF Taken, FrameBytes
<1>17. Phase'
  <2>1. state = "body" => Turn \in 1..Len(frames) /\ frames'[Turn] = frames[Turn]
    BY <1>7, <1>10, StreamType DEF LinkInv, Phase, Turn
  <2> QED BY <1>7, <1>9, <1>10, <2>1 DEF LinkInv, Phase
<1> QED BY <1>13, <1>14, <1>15, <1>16, <1>17 DEF LinkInv

LEMMA ClosesInv == TypeOK /\ LinkInv /\ ClientCloses => LinkInv'
<1> SUFFICES ASSUME TypeOK, LinkInv, ClientCloses PROVE LinkInv'
  OBVIOUS
<1>1. PICK n \in 0..Len(wire) : wire' = SubSeq(wire, 1, n)
  BY DEF ClientCloses
<1>2. buf \in Seq(Bytes) /\ wire \in Seq(Bytes) /\ n \in Nat
  BY <1>1 DEF TypeOK
<1> DEFINE m == Len(buf) + n
           t == SubSeq(Stream, 1, m)
<1>3. m \in 0..Len(Stream)
  BY <1>1, StreamType
<1>4. t \in Seq(Bytes) /\ Len(t) = m /\ \A i \in 1..m : t[i] = Stream[i]
  BY <1>3, StreamType, SubSeqProperties
<1>5. wire' \in Seq(Bytes) /\ Len(wire') = n /\ \A i \in 1..n : wire'[i] = wire[i]
  BY <1>1, <1>2, SubSeqProperties
<1>6. UNCHANGED <<state, frames, buf, requests>> /\ client' = "closed" /\ client = "open" /\ Turn' = Turn
  BY DEF ClientCloses, Turn
<1>7. Stream' = t
  <2>1. Stream' \in Seq(Bytes) /\ Len(Stream') = Len(buf) + n
        /\ \A i \in 1..(Len(buf) + n) : Stream'[i] = IF i <= Len(buf) THEN buf[i] ELSE wire'[i - Len(buf)]
    <3>1. buf \o wire' \in Seq(Bytes) /\ Len(buf \o wire') = Len(buf) + Len(wire')
          /\ \A i \in 1..(Len(buf) + Len(wire')) : (buf \o wire')[i] = IF i <= Len(buf) THEN buf[i] ELSE wire'[i - Len(buf)]
      BY <1>2, <1>5, ConcatProperties
    <3> QED BY <1>5, <1>6, <3>1 DEF Stream
  <2>2.
 \A i \in 1..(Len(buf) + Len(wire)) : Stream[i] = IF i <= Len(buf) THEN buf[i] ELSE wire[i - Len(buf)]
    BY <1>2, ConcatProperties DEF Stream
  <2>3. ASSUME NEW i \in 1..m PROVE Stream'[i] = t[i]
    <3>1. i \in 1..(Len(buf) + Len(wire)) /\ i \in 1..m /\ t[i] = Stream[i]
      BY <1>1, <1>2, <1>4
    <3>2. CASE i <= Len(buf)
      BY <2>1, <2>2, <3>1, <3>2
    <3>3. CASE ~(i <= Len(buf))
      <4>1. i - Len(buf) \in 1..n
        BY <1>2, <3>3
      <4> QED BY <1>5, <2>1, <2>2, <3>1, <3>3, <4>1
    <3> QED BY <3>2, <3>3
  <2> QED BY <1>4, <2>1, <2>3, SeqEqual
<1> HIDE DEF m
<1>8. Orderly(t, frames)
  BY <1>3, StreamType, OrderlyPrefix DEF LinkInv, Aligned
<1>9. t # <<>> => Stream # <<>> /\ t[1] = Stream[1]
  <2>1. t # <<>> => m \in 1..Len(Stream) /\ 1 \in 1..m
    BY <1>3, <1>4, StreamType
  <2> QED BY <1>4, <2>1, StreamType
<1>10. Aligned'
  BY <1>6, <1>7, <1>8, <1>9 DEF LinkInv, Aligned
<1>11. Idle' /\ Sizes' /\ Taken' /\ Phase'
  BY <1>6 DEF LinkInv, Idle, Sizes, Taken, Phase, FrameBytes
<1> QED BY <1>10, <1>11 DEF LinkInv

\* The session is over: nothing of it is left, in the code or on the wire.
LEMMA OverInv ==
  ASSUME TypeOK, TypeOK', Reset, client' = "none", state' \in {"accepting", "gone"}
  PROVE  LinkInv'
<1>1. Fresh'
  BY DEF Fresh, Reset
<1> QED BY <1>1, LinkStart, PTL

LEMMA HeaderInv == TypeOK /\ LinkInv /\ HeaderRead => LinkInv'
<1> SUFFICES ASSUME TypeOK, LinkInv, HeaderRead PROVE LinkInv'
  OBVIOUS
<1>1. state = "header" /\ Len(buf) = Header /\ UNCHANGED <<client, clients, frames, wire, buf, requests>>
  BY DEF HeaderRead
<1>2. buf # <<>>
  BY <1>1, FrameAssumption, EmptySeq
<1>3. Turn \in 1..Len(frames) /\ Declared = {frames[Turn].len}
  BY <1>2, KnownLength
<1>4. \/ state' = "dropping"
      \/ state' = "body" /\ InRange(frames[Turn].len)
  BY <1>3 DEF HeaderRead
<1>5. Turn' = Turn /\ Stream' = Stream
  BY <1>1, <1>4 DEF Turn, Stream
<1>6. Aligned'
  BY <1>1, <1>5 DEF LinkInv, Aligned
<1>7. Idle' /\ Sizes' /\ Taken'
  BY <1>1, <1>4 DEF LinkInv, Idle, Sizes, Taken, FrameBytes
<1>8. frames[Turn] \in Frame /\ frames[Turn].len \in Nat
  <2>1. frames[Turn] \in Frame
    BY <1>3, StreamType, ElementOfSeq
  <2>2. frames[Turn].len \in (Header..MaxFrame) \cup BadLengths 
    BY <2>1 DEF Frame, Lengths
  <2>3. BadLengths \subseteq Nat /\ (Header..MaxFrame) \subseteq Nat
    BY FrameAssumption
  <2> QED BY <2>1, <2>2, <2>3
<1>9. InRange(frames[Turn].len) => frames[Turn].len \in Lengths /\ Header <= frames[Turn].len
  BY <1>8, FrameAssumption DEF InRange, Lengths
<1>10. Phase'
  <2>1. Header <= Header
    BY FrameAssumption
  <2> QED BY <1>1, <1>3, <1>4, <1>5, <1>9, <2>1 DEF Phase
<1> QED BY <1>6, <1>7, <1>10 DEF LinkInv

LEMMA ServeInv == TypeOK /\ LinkInv /\ Serve => LinkInv'
<1> SUFFICES ASSUME TypeOK, LinkInv, Serve PROVE LinkInv'
  OBVIOUS
<1> DEFINE r == Turn
<1>1. state = "body" /\ state' = "answering" /\ UNCHANGED <<client, clients, frames, wire, buf>>
      /\ requests' = Append(requests, buf)
  BY DEF Serve
<1>2. r = Len(requests) + 1 /\ r <= Len(frames) /\ frames[r].len \in Lengths
      /\ Header <= Len(buf) /\ Len(buf) <= frames[r].len
  BY <1>1 DEF LinkInv, Phase, Turn
<1>3. buf # <<>>
  BY <1>2, StreamType, FrameAssumption, EmptySeq
<1>4. r \in 1..Len(frames) /\ Declared = {frames[r].len} /\ buf[1] = <<r, 1>>
  BY <1>3, KnownLength
<1> HIDE DEF r
<1>5. frames[r].size = frames[r].len /\ frames[r].len \in Nat /\ frames[r].size \in 1..MaxFrame
  BY <1>2, <1>4, StreamType, FrameType, FrameAssumption DEF LinkInv, Sizes, Lengths
<1>6. Len(buf) = frames[r].size
  <2>1. Len(buf) >= frames[r].len
    BY <1>4 DEF Serve
  <2> QED BY <1>2, <1>5, <2>1, StreamType
<1>7. \A k \in 1..Len(buf) : buf[k] = <<r, k>>
  <2> SUFFICES ASSUME NEW k \in 1..Len(buf) PROVE buf[k] = <<r, k>>
    OBVIOUS
  <2>1. 1 \in 1..Len(buf) /\ 1 \in 1..MaxFrame /\ 1 + k - 1 = k
    BY <1>2, StreamType, FrameAssumption
  <2>2. 1 \in 1..Len(Stream) /\ k \in 1..Len(Stream) /\ Stream[1] = <<r, 1>> /\ Stream[k] = buf[k]
    BY <1>4, <2>1, StreamType
  <2>3. 1 + k - 1 \in 1..frames[r].size
    BY <1>6, <2>1
  <2>4. Stream[k] = <<r, 1 + k - 1>>
    BY <1>4, <2>1, <2>2, <2>3 DEF LinkInv, Aligned, Orderly, Whole
  <2> QED BY <2>1, <2>2, <2>4
<1>8. buf = FrameBytes(r)
  <2>1. buf \in Seq(Bytes)
    BY DEF TypeOK
  <2>2. buf = [k \in 1..Len(buf) |-> buf[k]]
    BY <2>1
  <2>3. buf = [k \in 1..Len(buf) |-> <<r, k>>]
    BY <1>7, <2>2
  <2> QED BY <1>6, <2>3 DEF FrameBytes
<1>9. Len(requests') = r /\ requests'[r] = buf /\ \A q \in 1..Len(requests) : requests'[q] = requests[q]
  <2>1. requests \in Seq(Seq(Bytes)) /\ buf \in Seq(Bytes)
    BY DEF TypeOK
  <2> QED BY <1>1, <1>2, <2>1, AppendProperties
<1>10. Turn' = Turn /\ Stream' = Stream /\ Turn = r
  BY <1>1, <1>2, <1>9 DEF Turn, Stream, r
<1>11. Aligned'
  BY <1>1, <1>10 DEF LinkInv, Aligned
<1>12. Idle' /\ Sizes'
  BY <1>1 DEF LinkInv, Idle, Sizes
<1>13. Taken'
  <2>1. \A q \in 1..r : q # r => q \in 1..Len(requests)
    BY <1>2, <1>4, StreamType
  <2> QED BY <1>1, <1>2, <1>8, <1>9, <2>1 DEF LinkInv, Taken, FrameBytes
<1>14. Phase'
  BY <1>1, <1>4, <1>9 DEF Phase
<1> QED BY <1>11, <1>12, <1>13, <1>14 DEF LinkInv

\* A frame that was answered is all of the buffer.
LEMMA Answered ==
  ASSUME TypeOK, LinkInv, state = "answering"
  PROVE  LET r == Len(requests)
         IN  /\ r \in 1..Len(frames) /\ Turn = r /\ frames[r].len \in Lengths
             /\ Len(buf) = frames[r].size /\ buf[Len(buf)] = <<r, frames[r].size>>
             /\ Len(buf) >= 1 /\ Len(buf) = frames[r].len
<1> DEFINE r == Len(requests)
<1>1. r \in 1..Len(requests) /\ buf = requests[r] /\ Turn = r
  BY StreamType DEF LinkInv, Phase, Turn
<1>2. r \in 1..Len(frames) /\ frames[r].len \in Lengths /\ buf = FrameBytes(r)
  BY <1>1, StreamType DEF LinkInv, Taken
<1> HIDE DEF r
<1>3. frames[r].size \in Nat /\ frames[r].size >= 1 /\ frames[r].size = frames[r].len
  BY <1>2, StreamType, FrameType DEF LinkInv, Sizes
<1>4. Len(buf) = frames[r].size /\ buf[frames[r].size] = <<r, frames[r].size>>
  BY <1>2, <1>3 DEF FrameBytes
<1> QED BY <1>1, <1>2, <1>3, <1>4 DEF r

LEMMA SentInv == TypeOK /\ LinkInv /\ Sent /\ state = "answering" => LinkInv'
<1> SUFFICES ASSUME TypeOK, LinkInv, Sent, state = "answering" PROVE LinkInv'
  OBVIOUS
<1> DEFINE r == Len(requests)
           n == Len(buf)
<1>1. state' = "header" /\ buf' = <<>> /\ UNCHANGED <<client, clients, frames, wire, requests>>
  BY DEF Sent
<1>2. r \in 1..Len(frames) /\ Turn = r /\ n = frames[r].size /\ buf[n] = <<r, frames[r].size>> /\ n >= 1
  BY Answered
<1>3. Turn' = r + 1 /\ Len(buf') = 0
  BY <1>1 DEF Turn
<1>4. wire \in Seq(Bytes) /\ Stream' = wire
  BY <1>1, ConcatEmptySeq DEF TypeOK, Stream
<1>5. n \in 0..Len(Stream) /\ n \in 1..Len(Stream) /\ Len(Stream) = n + Len(wire) /\ Stream[n] = buf[n]
  <2>1. Len(buf) \in 1..Len(buf)
    BY <1>2, StreamType
  <2> QED BY <2>1, StreamType
<1>6. \A i \in 1..Len(wire) : wire[i] = Stream[n + i]
  <2>1. buf \in Seq(Bytes) /\ wire \in Seq(Bytes)
    BY DEF TypeOK
  <2>2. \A i \in 1..(Len(buf) + Len(wire)) : Stream[i] = IF i <= Len(buf) THEN buf[i] ELSE wire[i - Len(buf)]
    BY <2>1, ConcatProperties DEF Stream
  <2>3. ASSUME NEW i \in 1..Len(wire) PROVE wire[i] = Stream[n + i]
    <3>1. n + i \in 1..(Len(buf) + Len(wire)) /\ ~(n + i <= Len(buf)) /\ (n + i) - Len(buf) = i
      BY StreamType
    <3> QED BY <2>2, <3>1
  <2> QED BY <2>3
<1> DEFINE t == SubSeq(Stream, n + 1, Len(Stream))
<1>7. t \in Seq(Bytes) /\ Len(t) = Len(Stream) - n /\ \A i \in 1..Len(t) : t[i] = Stream[n + i]
  BY <1>5, StreamType, SubSeqProperties
<1>8. Orderly(t, frames)
  BY <1>5, StreamType, OrderlySuffix DEF LinkInv, Aligned
<1> HIDE DEF t, r, n
<1>9. t = wire
  <2>1. Len(t) = Len(wire)
    BY <1>5, <1>7, StreamType
  <2> QED BY <1>4, <1>6, <1>7, <2>1, SeqEqual
<1>10. wire # <<>> => wire[1] = <<r + 1, 1>>
  <2> SUFFICES ASSUME wire # <<>> PROVE wire[1] = <<r + 1, 1>>
    OBVIOUS
  <2>1. 1 \in 1..Len(wire)
    BY <1>4
  <2>2. n \in 1..Len(Stream) /\ n < Len(Stream) /\ Stream[n] = <<r, frames[r].size>>
    BY <1>2, <1>5, <2>1, StreamType
  <2>3. Stream[n + 1] = <<r + 1, 1>>
    BY <1>2, <2>2 DEF LinkInv, Aligned, Orderly, Successive
  <2> QED BY <1>6, <2>1, <2>3
<1>11. client = "open" => Complete(wire, frames) /\ (wire = <<>> => r + 1 = Len(frames) + 1)
  <2> SUFFICES ASSUME client = "open" PROVE Complete(wire, frames) /\ (wire = <<>> => r + 1 = Len(frames) + 1)
    OBVIOUS
  <2>1. Stream # <<>>
    BY <1>5, EmptySeq
  <2>2. Stream[Len(Stream)] = <<Len(frames), frames[Len(frames)].size>>
    BY <2>1 DEF LinkInv, Aligned, Complete
  <2>3. wire # <<>> => Len(wire) \in 1..Len(wire) /\ wire[Len(wire)] = Stream[Len(Stream)]
    <3>1. wire # <<>> => Len(wire) \in 1..Len(wire)
      BY <1>4
    <3> QED BY <1>5, <1>6, <3>1
  <2>4. wire = <<>> => r = Len(frames)
    <3>1. wire = <<>> => Len(Stream) = n
      BY <1>5, StreamType
    <3> QED BY <1>2, <1>5, <2>2, <3>1
  <2> QED BY <2>2, <2>3, <2>4 DEF Complete
<1>12. Aligned'
  BY <1>1, <1>3, <1>4, <1>8, <1>9, <1>10, <1>11 DEF Aligned
<1>13. Idle' /\ Sizes' /\ Taken'
  BY <1>1 DEF LinkInv, Idle, Sizes, Taken, FrameBytes
<1>14. Phase'
  BY <1>1, <1>3, FrameAssumption DEF Phase
<1> QED BY <1>12, <1>13, <1>14 DEF LinkInv

LEMMA HelperInv == TypeOK /\ TypeOK' /\ LinkInv /\ Helper => LinkInv'
<1> SUFFICES ASSUME TypeOK, TypeOK', LinkInv, Helper PROVE LinkInv'
  OBVIOUS
<1>1. CASE Listen \/ Accept
  <2>1. UNCHANGED <<client, frames, wire, buf, requests>> /\ Stream' = Stream
    BY <1>1 DEF Listen, Accept, conn, Stream
  <2>2. Turn' = Turn
    BY <1>1, <2>1 DEF Listen, Accept, Turn
  <2>3. Idle'
    BY <1>1, <2>1 DEF LinkInv, Idle, Listen, Accept
  <2>4. Phase'
    <3>1. state \in {"starting", "accepting"} /\ buf = <<>>
      BY <1>1 DEF Listen, Accept, LinkInv, Idle
    <3>2. Len(buf') = 0 /\ 0 <= Header
      BY <2>1, <3>1, FrameAssumption
    <3> QED BY <1>1, <3>2 DEF Phase, Listen, Accept
  <2> QED BY <2>1, <2>2, <2>3, <2>4 DEF LinkInv, Sizes, Aligned, Taken, FrameBytes
<1>2. CASE SessionOver
  BY <1>2, OverInv DEF SessionOver
<1>3. CASE Send
  BY <1>3 DEF Send, LinkInv, Idle, Sizes, Aligned, Taken, Phase, Turn, Stream, FrameBytes
<1>4. CASE Sent
  BY <1>2, <1>4, SentInv DEF Sent
<1> QED BY <1>1, <1>2, <1>3, <1>4, ReceiveInv, HeaderInv, ServeInv DEF Helper, ReceiveEnds, SendFails

\* A client that has just connected has sent nothing.
LEMMA ConnectedInv ==
  ASSUME TypeOK, LinkInv, client = "none", state \notin {"starting", "gone"}, client' \in {"open", "closed"},
         UNCHANGED <<state, conn>>
  PROVE  LinkInv'
<1>1. frames = <<>> /\ wire = <<>> /\ buf = <<>> /\ requests = <<>> /\ state = "accepting"
  BY DEF LinkInv, Idle
<1>2. Stream = <<>> /\ Turn = 1 /\ Len(frames) = 0
  BY <1>1, ConcatEmptySeq DEF TypeOK, Stream, Turn
<1>3. Stream' = Stream /\ Turn' = Turn
  BY DEF Stream, Turn, conn
<1>4. Aligned'
  BY <1>2, <1>3 DEF LinkInv, Aligned, Complete, conn
<1> QED BY <1>1, <1>4 DEF LinkInv, Idle, Sizes, Taken, Phase, FrameBytes, conn

LEMMA LinkUnchanged == LinkInv /\ UNCHANGED vars => LinkInv'
BY DEF LinkInv, Idle, Sizes, Aligned, Taken, Phase, Turn, Stream, FrameBytes, vars, conn

LEMMA LaunchKeepsLink ==
  LaunchTypeOK /\ LaunchTypeOK' /\ LinkInv /\ [LaunchNext]_allvars => LinkInv'
<1> SUFFICES ASSUME LaunchTypeOK, LaunchTypeOK', LinkInv, [LaunchNext]_allvars PROVE LinkInv'
  OBVIOUS
<1> USE DEF LaunchTypeOK
<1>1. CASE UNCHANGED vars
  BY <1>1, LinkUnchanged
<1>2. CASE KillHelper
  BY <1>2, OverInv DEF KillHelper
<1>3. CASE Launch
  BY <1>1, <1>2, <1>3 DEF Launch, Prepare, SeesReady, SeesHelperDead, PollsAgain, GivesUp, Exec
<1>4. CASE QemuRuns \/ QemuExits
  <2>1. ClientConnects => LinkInv'
    BY ConnectedInv DEF ClientConnects
  <2> QED BY <1>1, <1>4, <2>1, SendsInv, ClosesInv DEF QemuRuns, QemuExits
<1>5. CASE Probe
  BY <1>5, ConnectedInv DEF Probe
<1>6. CASE HelperRuns
  BY <1>6, HelperInv DEF HelperRuns
<1>7. CASE UNCHANGED allvars
  BY <1>1, <1>7 DEF allvars
<1> QED BY <1>3, <1>4, <1>5, <1>6, <1>7 DEF LaunchNext

LEMMA LinkInvariant == LaunchSpec => []LinkInv
<1>1. LaunchInit /\ LaunchTypeOK => LinkInv
  BY LinkStart DEF LaunchInit, Init, LaunchTypeOK, Fresh
<1> QED BY <1>1, LaunchKeepsLink, LaunchTyped, PTL DEF LaunchSpec

LEMMA LinkInvInStep == TypeOK /\ LinkInv => InStep
<1> SUFFICES ASSUME TypeOK, LinkInv PROVE InStep
  OBVIOUS
<1>1. \A r \in DOMAIN requests : frames[r].len \in Lengths /\ requests[r] = FrameBytes(r)
  BY DEF LinkInv, Taken, TypeOK
<1>2. Len(buf) <= MaxFrame
  <2>1. CASE state \in {"header", "dropping"}
    BY <2>1, StreamType, FrameAssumption DEF LinkInv, Phase
  <2>2. CASE state = "body"
    <3>1. frames[Turn].len \in Header..MaxFrame /\ Len(buf) <= frames[Turn].len
      BY <2>2 DEF LinkInv, Phase, Lengths
    <3> QED BY <3>1, StreamType, FrameAssumption
  <2>3. CASE state = "answering"
    <3>1. frames[Len(requests)].len \in Header..MaxFrame /\ Len(buf) = frames[Len(requests)].len
      BY <2>3, Answered DEF Lengths
    <3> QED BY <3>1, FrameAssumption
  <2>4. CASE state \in {"starting", "accepting", "gone"}
    BY <2>4, FrameAssumption DEF LinkInv, Idle
  <2> QED BY <2>1, <2>2, <2>3, <2>4 DEF TypeOK, States
<1> QED BY <1>1, <1>2 DEF InStep

\* recv_exact() and serve_client(): whatever lengths are declared, in whatever
\* pieces the frames arrive and wherever the stream breaks off, serve() is given
\* the frames that were sent, whole, in order, and never one beyond the buffer.
THEOREM StreamStaysInStep == LaunchSpec => []InStep
<1>1. LaunchTypeOK /\ LinkInv => InStep
  BY LinkInvInStep DEF LaunchTypeOK
<1> QED BY <1>1, LaunchTyped, LinkInvariant, PTL

-----------------------------------------------------------------------------
(* HostfsdStartup *)

\* The pass of a POSIX start, up to where the guest is served: it runs only
\* while main() walks, what is still read-only has not been come to, is in its
\* hand, or was not to be changed, and the guest has set nothing yet.
PosixPass ==
  platform = "posix" /\ ~ReadOnly =>
    /\ stage = "start" => pass = "idle"
    /\ stage \in {"open", "announce", "serve"} => pass = "over"
    /\ stage # "serve" => wanted = {}
    /\ hand \in ro => sawRo
    /\ ro \subseteq todo \cup {hand} \cup Fixed \cup wanted
    /\ wanted \subseteq ro

LEMMA StartupTypes == StartupTypeOK /\ [StartupNext]_startup => StartupTypeOK'
<1> SUFFICES ASSUME StartupTypeOK, [StartupNext]_startup PROVE StartupTypeOK'
  OBVIOUS
<1> USE DEF StartupTypeOK
<1>1. CASE Main
  BY <1>1 DEF Main, Resolve, Walked, Open, Announced, walker
<1>2. CASE Pass
  <2>1. ASSUME NEW i \in Items, Take(i) PROVE StartupTypeOK'
    BY <2>1 DEF Take
  <2>2. CASE Clear
    BY <2>2 DEF Clear
  <2>3. CASE PassOver
    BY <2>3 DEF PassOver
  <2> QED BY <1>2, <2>1, <2>2, <2>3 DEF Pass
<1>3. CASE \E i \in Items, readonly \in BOOLEAN : GuestSets(i, readonly)
  BY <1>3 DEF GuestSets, walker
<1>4. CASE UNCHANGED startup
  BY <1>4 DEF startup, walker
<1> QED BY <1>1, <1>2, <1>3, <1>4 DEF StartupNext

LEMMA StartupTyped == StartupSpec => []StartupTypeOK
<1>1. StartupInit => StartupTypeOK
  BY DEF StartupInit, StartupTypeOK
<1> QED BY <1>1, StartupTypes, PTL DEF StartupSpec

LEMMA PosixPassStep == StartupTypeOK /\ PosixPass /\ [StartupNext]_startup => PosixPass'
<1> SUFFICES ASSUME StartupTypeOK, PosixPass, [StartupNext]_startup, platform = "posix", ~ReadOnly
             PROVE  PosixPass'
  <2>1. [StartupNext]_startup => UNCHANGED platform
    BY DEF StartupNext, Main, Resolve, Walked, Open, Announced, Pass, Take, Clear, PassOver, GuestSets, startup
  <2> QED BY <2>1 DEF PosixPass
<1> USE DEF PosixPass, StartupTypeOK
<1>1. CASE Main
  <2>1. UNCHANGED <<platform, ro, todo, hand, sawRo, wanted>> /\ ~InBackground
    BY <1>1 DEF Main, Resolve, Walked, Open, Announced, walker, InBackground
  <2>2. CASE Resolve
    BY <2>1, <2>2 DEF Resolve
  <2>3. CASE Walked \/ Open
    BY <2>1, <2>3 DEF Walked, Open, walker
  <2>4. CASE Announced
    BY <2>1, <2>4 DEF Announced
  <2> QED BY <1>1, <2>2, <2>3, <2>4 DEF Main
<1>2. CASE Pass
  <2>1. pass = "running" /\ UNCHANGED <<platform, stage, wanted>> /\ stage \notin {"start", "open", "announce", "serve"}
    BY <1>2 DEF Pass, Take, Clear, PassOver
  <2>2. ASSUME NEW i \in Items, Take(i) PROVE PosixPass'
    <3>1. hand = NoItem /\ NoItem \notin ro /\ hand' = i /\ todo' = todo \ {i} /\ ro' = ro /\ sawRo' = (i \in ro)
      BY <2>2, StartupAssumption DEF Take
    <3>2. hand' \in ro' => sawRo'
      BY <3>1
    <3> QED BY <2>1, <3>1, <3>2
  <2>3. CASE Clear
    BY <2>1, <2>3, StartupAssumption DEF Clear
  <2>4. CASE PassOver
    BY <2>1, <2>4 DEF PassOver
  <2> QED BY <1>2, <2>2, <2>3, <2>4 DEF Pass
<1>3. CASE \E i \in Items, readonly \in BOOLEAN : GuestSets(i, readonly)
  <2>1. PICK i \in Items, readonly \in BOOLEAN : GuestSets(i, readonly)
    BY <1>3
  <2>2. stage = "serve" /\ UNCHANGED <<platform, stage, todo, hand, sawRo, pass>> /\ hand = NoItem /\ todo = {}
    BY <2>1 DEF GuestSets, walker
  <2>3. NoItem \notin ro
    BY StartupAssumption
  <2>4. CASE readonly
    BY <2>1, <2>2, <2>3, <2>4, StartupAssumption DEF GuestSets
  <2>5. CASE ~readonly
    BY <2>1, <2>2, <2>3, <2>5 DEF GuestSets
  <2> QED BY <2>4, <2>5
<1>4. CASE UNCHANGED startup
  BY <1>4 DEF startup, walker
<1> QED BY <1>1, <1>2, <1>3, <1>4 DEF StartupNext

\* "It happens before the guest has run a single instruction": main()'s order
\* on POSIX and the two calls of clear_readonly(), for any items and with any
\* of them read-only at the start.
THEOREM GuestFindsItWritable == StartupSpec => []WritableForTheGuest
<1>1. StartupInit => PosixPass
  BY StartupAssumption DEF StartupInit, PosixPass
<1>2. StartupTypeOK /\ PosixPass => WritableForTheGuest
  BY StartupAssumption DEF StartupTypeOK, PosixPass, WritableForTheGuest
<1> QED BY <1>1, <1>2, PosixPassStep, StartupTyped, PTL DEF StartupSpec

-----------------------------------------------------------------------------
(* HostfsPath *)

-----------------------------------------------------------------------------
(* The host's tree *)

PathChars == Chars \cup {"/"}

LEMMA TreeTypes ==
  ASSUME tree \in Trees
  PROVE  /\ tree.parent \in [Nodes -> Dirs \cup {NoNode}]
         /\ tree.parent \in [Nodes -> Nodes \cup {NoNode}]
         /\ tree.name \in [Nodes -> Seq(Chars)]
         /\ tree.target \in [Links -> Nodes \cup {NoNode}]
         /\ \A x, y \in Nodes : tree.parent[x] = tree.parent[y] /\ tree.name[x] = tree.name[y] => x = y
         /\ \A x \in Nodes : tree.parent[x] = NoNode <=> tree.name[x] = <<>>
         /\ \A X \in SUBSET Nodes : X # {} => \E x \in X : tree.parent[x] \notin X
<1>1. tree \in [parent : [Nodes -> Dirs \cup {NoNode}],
                name   : [Nodes -> Seq(Chars)],
                target : [Links -> Nodes \cup {NoNode}]]
  BY TreesAssumption
<1>2. tree.parent \in [Nodes -> Nodes \cup {NoNode}]
  BY <1>1 DEF Nodes
<1> QED BY <1>1, <1>2, TreesAssumption

LEMMA TextIs ==
  ASSUME tree \in Trees
  PROVE  /\ Text = [x \in Nodes |-> IF tree.parent[x] = NoNode THEN <<>>
                                    ELSE Text[tree.parent[x]] \o <<"/">> \o tree.name[x]]
         /\ Text \in [Nodes -> Seq(PathChars)]
<1> DEFINE S == Seq(PathChars)
           parent == tree.parent
           base == [x \in Nodes |-> <<>>]
           step == [x \in Nodes |-> [s \in S |-> s \o <<"/">> \o tree.name[x]]]
<1>1. base \in [Nodes -> S] /\ parent \in [Nodes -> Nodes \cup {NoNode}] /\ NoNode \notin Nodes
      /\ \A X \in SUBSET Nodes : X # {} => \E x \in X : parent[x] \notin X
  BY TreeTypes, TreesAssumption, EmptySeq
<1>2. step \in [Nodes -> [S -> S]]
  <2>1. ASSUME NEW x \in Nodes, NEW s \in S PROVE s \o <<"/">> \o tree.name[x] \in S
    <3>1. tree.name[x] \in Seq(PathChars) /\ <<"/">> \in Seq(PathChars)
      <4>1. tree.name[x] \in Seq(Chars)
        BY TreeTypes
      <4> QED BY <4>1 DEF PathChars
    <3> QED BY <3>1, ConcatProperties
  <2> QED BY <2>1
<1> HIDE DEF S, parent, base, step
<1>3. PICK F \in [Nodes -> S] :
        \A x \in Nodes : F[x] = IF parent[x] = NoNode THEN base[x] ELSE step[x][F[parent[x]]]
  <2>1. Solvable(Nodes, NoNode, parent, S, base, step)
    BY <1>1, <1>2, TreeRecursion
  <2> QED BY <2>1 DEF Solvable
<1>4. ASSUME NEW x \in Nodes
      PROVE  F[x] = IF tree.parent[x] = NoNode THEN <<>>
                    ELSE F[tree.parent[x]] \o <<"/">> \o tree.name[x]
  <2>1. CASE tree.parent[x] = NoNode
    BY <1>3, <2>1 DEF base, parent
  <2>2. CASE tree.parent[x] # NoNode
    <3>1. F[parent[x]] \in S
      BY <1>1, <1>3, <2>2 DEF parent
    <3>2. F[x] = step[x][F[parent[x]]]
      BY <1>3, <2>2 DEF parent
    <3> QED BY <2>2, <3>1, <3>2 DEF step, parent
  <2> QED BY <2>1, <2>2
<1>5. F = [x \in Nodes |-> IF tree.parent[x] = NoNode THEN <<>>
                           ELSE F[tree.parent[x]] \o <<"/">> \o tree.name[x]]
  <2>1. F = [x \in Nodes |-> F[x]]
    BY <1>3
  <2> QED BY <2>1, <1>4, Zenon
<1>6. Text = [x \in Nodes |-> IF tree.parent[x] = NoNode THEN <<>>
                              ELSE Text[tree.parent[x]] \o <<"/">> \o tree.name[x]]
  BY <1>5 DEF Text
<1>7. ASSUME NEW x \in Nodes PROVE Text[x] = F[x]
  <2> DEFINE D == {y \in Nodes : Text[y] # F[y]}
  <2>1. ASSUME D # {} PROVE FALSE
    <3>1. PICK y \in D : tree.parent[y] \notin D
      BY <2>1, TreeTypes
    <3>2. y \in Nodes /\ Text[y] # F[y]
      BY <3>1
    <3>3. tree.parent[y] # NoNode
      BY <1>4, <1>6, <3>2
    <3>4. Text[tree.parent[y]] = F[tree.parent[y]]
      BY <3>1, <3>2, <3>3, TreeTypes
    <3>5. Text[y] = Text[tree.parent[y]] \o <<"/">> \o tree.name[y]
      BY <1>6, <3>2, <3>3
    <3>6. F[y] = F[tree.parent[y]] \o <<"/">> \o tree.name[y]
      BY <1>4, <3>2, <3>3
    <3> QED BY <3>2, <3>4, <3>5, <3>6
  <2> QED BY <2>1
<1>8. Text \in [Nodes -> Seq(PathChars)]
  <2>1. Text = [x \in Nodes |-> Text[x]]
    BY <1>6
  <2>2. \A x \in Nodes : Text[x] \in Seq(PathChars)
    BY <1>3, <1>7 DEF S
  <2> QED BY <2>1, <2>2
<1> QED BY <1>6, <1>8

\* The lengths of the text of a path and of a name.
TextLen(x) == Len(Text[x])
NameLen(x) == Len(tree.name[x])

LEMMA TextParts ==
  ASSUME tree \in Trees, NEW x \in Nodes, tree.parent[x] # NoNode
  PROVE  LET p == tree.parent[x]
         IN  /\ p \in Nodes
             /\ TextLen(p) \in Nat /\ NameLen(x) \in Nat /\ TextLen(x) = TextLen(p) + 1 + NameLen(x)
             /\ \A i \in 1..TextLen(p) : Text[x][i] = Text[p][i]
             /\ Text[x][TextLen(p) + 1] = "/"
             /\ \A i \in 1..NameLen(x) : Text[x][TextLen(p) + 1 + i] = tree.name[x][i]
<1> DEFINE p == tree.parent[x]
           a == Text[p]
           b == <<"/">>
           c == tree.name[x]
<1>1. p \in Nodes
  BY TreeTypes
<1>2. a \in Seq(PathChars) /\ b \in Seq(PathChars) /\ c \in Seq(PathChars) /\ Len(b) = 1 /\ b[1] = "/"
  <2>1. c \in Seq(Chars)
    BY TreeTypes
  <2> QED BY <2>1, <1>1, TextIs DEF PathChars
<1>3. Text[x] = (a \o b) \o c
  BY TextIs
<1> HIDE DEF a, b, c
<1>4. Len(a) \in Nat /\ Len(c) \in Nat
  BY <1>2
<1>5. a \o b \in Seq(PathChars) /\ Len(a \o b) = Len(a) + 1
      /\ \A i \in 1..(Len(a) + 1) : (a \o b)[i] = IF i <= Len(a) THEN a[i] ELSE b[i - Len(a)]
  <2>1. a \in Seq(PathChars) /\ b \in Seq(PathChars)
    BY <1>2
  <2>2. a \o b \in Seq(PathChars) /\ Len(a \o b) = Len(a) + Len(b)
        /\ \A i \in 1..(Len(a) + Len(b)) : (a \o b)[i] = IF i <= Len(a) THEN a[i] ELSE b[i - Len(a)]
    BY <2>1, ConcatProperties
  <2> QED BY <1>2, <2>2
<1> DEFINE d == a \o b
<1> HIDE DEF d
<1>6. d \in Seq(PathChars) /\ Len(d) = Len(a) + 1 /\ Text[x] = d \o c
      /\ (\A i \in 1..Len(a) : d[i] = a[i]) /\ d[Len(a) + 1] = "/"
  <2>1. \A i \in 1..Len(a) : i \in 1..(Len(a) + 1) /\ i <= Len(a)
    BY <1>4
  <2>2. Len(a) + 1 \in 1..(Len(a) + 1) /\ ~(Len(a) + 1 <= Len(a)) /\ (Len(a) + 1) - Len(a) = 1
    BY <1>4
  <2> QED BY <1>2, <1>3, <1>5, <2>1, <2>2 DEF d
<1>7. Len(Text[x]) = Len(d) + Len(c)
      /\ \A i \in 1..(Len(d) + Len(c)) : Text[x][i] = IF i <= Len(d) THEN d[i] ELSE c[i - Len(d)]
  <2>1. d \in Seq(PathChars) /\ c \in Seq(PathChars)
    BY <1>2, <1>6
  <2>2. Len(d \o c) = Len(d) + Len(c)
        /\ \A i \in 1..(Len(d) + Len(c)) : (d \o c)[i] = IF i <= Len(d) THEN d[i] ELSE c[i - Len(d)]
    BY <2>1, ConcatProperties
  <2> QED BY <1>6, <2>2
<1>8. \A i \in 1..Len(a) : Text[x][i] = a[i]
  <2>1. \A i \in 1..Len(a) : i \in 1..(Len(d) + Len(c)) /\ i <= Len(d)
    BY <1>4, <1>6
  <2> QED BY <1>6, <1>7, <2>1
<1>9. Text[x][Len(a) + 1] = "/"
  <2>1. Len(a) + 1 \in 1..(Len(d) + Len(c)) /\ Len(a) + 1 <= Len(d)
    BY <1>4, <1>6
  <2> QED BY <1>6, <1>7, <2>1
<1>10. ASSUME NEW i \in 1..Len(c) PROVE Text[x][Len(a) + 1 + i] = c[i]
  <2>1. Len(a) + 1 + i \in 1..(Len(d) + Len(c)) /\ ~(Len(a) + 1 + i <= Len(d)) /\ (Len(a) + 1 + i) - Len(d) = i
    BY <1>4, <1>6
  <2> QED BY <1>7, <2>1
<1>11. Len(a) = TextLen(p) /\ Len(c) = NameLen(x)
  BY DEF a, c, TextLen, NameLen
<1>12. TextLen(x) = TextLen(p) + 1 + NameLen(x)
  BY <1>6, <1>7, <1>11 DEF TextLen
<1> QED BY <1>1, <1>4, <1>8, <1>9, <1>10, <1>11, <1>12 DEF a, c

LEMMA TextLengths ==
  ASSUME tree \in Trees
  PROVE  \A x \in Nodes : /\ TextLen(x) \in Nat /\ NameLen(x) \in Nat
                          /\ Text[x] \in Seq(PathChars) /\ tree.name[x] \in Seq(Chars)
                          /\ tree.parent[x] = NoNode <=> TextLen(x) = 0
<1> SUFFICES ASSUME NEW x \in Nodes
             PROVE  /\ TextLen(x) \in Nat /\ NameLen(x) \in Nat
                    /\ Text[x] \in Seq(PathChars) /\ tree.name[x] \in Seq(Chars)
                    /\ tree.parent[x] = NoNode <=> TextLen(x) = 0
  OBVIOUS
<1>1. Text[x] \in Seq(PathChars) /\ tree.name[x] \in Seq(Chars)
  BY TextIs, TreeTypes
<1>2. TextLen(x) \in Nat /\ NameLen(x) \in Nat
  BY <1>1, LenProperties DEF TextLen, NameLen
<1>3. CASE tree.parent[x] = NoNode
  <2>1. Text[x] = <<>>
    BY <1>3, TextIs
  <2> QED BY <1>1, <1>2, <1>3, <2>1 DEF TextLen
<1>4. CASE tree.parent[x] # NoNode
  <2>1. TextLen(x) # 0
    BY <1>4, TextParts
  <2> QED BY <1>1, <1>2, <1>4, <2>1
<1> QED BY <1>3, <1>4

\* The last separator is the one before the name.
LEMMA LastSeparator ==
  ASSUME tree \in Trees, NEW x \in Nodes, tree.parent[x] # NoNode,
         NEW n \in Nat, n < TextLen(x), Text[x][n + 1] = "/"
  PROVE  n <= TextLen(tree.parent[x])
<1> DEFINE p == tree.parent[x]
<1>1. TextLen(p) \in Nat /\ NameLen(x) \in Nat /\ TextLen(x) = TextLen(p) + 1 + NameLen(x)
      /\ \A i \in 1..NameLen(x) : Text[x][TextLen(p) + 1 + i] = tree.name[x][i]
  BY TextParts
<1>2. tree.name[x] \in Seq(Chars)
  BY TextLengths
<1> HIDE DEF p
<1>3. ASSUME n > TextLen(p) PROVE FALSE
  <2> DEFINE i == n - TextLen(p)
  <2>1. i \in 1..NameLen(x) /\ TextLen(p) + 1 + i = n + 1
    BY <1>1, <1>3
  <2> HIDE DEF i
  <2>2. tree.name[x][i] = "/"
    BY <1>1, <2>1
  <2>3. tree.name[x][i] \in Chars
    BY <1>2, <2>1, ElementOfSeq DEF NameLen
  <2> QED BY <2>2, <2>3, TreesAssumption
<1> QED BY <1>1, <1>3 DEF p

\* realpath() writes no two objects the same.
LEMMA SameText ==
  ASSUME tree \in Trees, NEW x \in Nodes, NEW y \in Nodes, Text[x] = Text[y]
  PROVE  x = y
<1> DEFINE D == {z \in Nodes : \E w \in Nodes : Text[z] = Text[w] /\ z # w}
<1>1. ASSUME D # {} PROVE FALSE
  <2>1. PICK z \in D : tree.parent[z] \notin D
    BY <1>1, TreeTypes
  <2>2. PICK w \in Nodes : z \in Nodes /\ Text[z] = Text[w] /\ z # w
    BY <2>1
  <2>3. TextLen(z) = TextLen(w) /\ (tree.parent[z] = NoNode <=> tree.parent[w] = NoNode)
    <3>1. TextLen(z) = TextLen(w)
      BY <2>2 DEF TextLen
    <3> QED BY <2>2, <3>1, TextLengths
  <2>4. CASE tree.parent[z] = NoNode
    BY <2>2, <2>3, <2>4, TreeTypes
  <2>5. CASE tree.parent[z] # NoNode
    <3> DEFINE p == tree.parent[z]
               q == tree.parent[w]
    <3>1. q # NoNode
      BY <2>3, <2>5
    <3>2. /\ p \in Nodes
          /\ TextLen(p) \in Nat /\ NameLen(z) \in Nat /\ TextLen(z) = TextLen(p) + 1 + NameLen(z)
          /\ \A i \in 1..TextLen(p) : Text[z][i] = Text[p][i]
          /\ Text[z][TextLen(p) + 1] = "/"
          /\ \A i \in 1..NameLen(z) : Text[z][TextLen(p) + 1 + i] = tree.name[z][i]
      BY <2>2, <2>5, TextParts
    <3>3. /\ q \in Nodes
          /\ TextLen(q) \in Nat /\ NameLen(w) \in Nat /\ TextLen(w) = TextLen(q) + 1 + NameLen(w)
          /\ \A i \in 1..TextLen(q) : Text[w][i] = Text[q][i]
          /\ Text[w][TextLen(q) + 1] = "/"
          /\ \A i \in 1..NameLen(w) : Text[w][TextLen(q) + 1 + i] = tree.name[w][i]
      BY <2>2, <3>1, TextParts
    <3>4. TextLen(p) = TextLen(q)
      <4> HIDE DEF p, q
      <4>0. TextLen(z) = TextLen(w)
        BY <2>3
      <4>1. TextLen(p) < TextLen(w) /\ TextLen(q) < TextLen(z)
        BY <3>2, <3>3, <4>0
      <4> USE DEF p, q
      <4>2. TextLen(p) <= TextLen(q)
        BY <2>2, <3>1, <3>2, <4>1, LastSeparator
      <4>3. TextLen(q) <= TextLen(p)
        BY <2>2, <2>5, <3>3, <4>1, LastSeparator
      <4> QED BY <3>2, <3>3, <4>2, <4>3
    <3> HIDE DEF p, q
    <3>5. Text[p] = Text[q]
      <4>1. Text[p] \in Seq(PathChars) /\ Text[q] \in Seq(PathChars)
        BY <3>2, <3>3, TextLengths
      <4>2. Len(Text[p]) = Len(Text[q]) /\ \A i \in 1..Len(Text[p]) : Text[p][i] = Text[q][i]
        BY <2>2, <3>2, <3>3, <3>4 DEF TextLen
      <4> QED BY <4>1, <4>2, SeqEqual
    <3>6. p = q
      BY <2>1, <3>2, <3>3, <3>5 DEF p
    <3>7. tree.name[z] = tree.name[w]
      <4>1. tree.name[z] \in Seq(Chars) /\ tree.name[w] \in Seq(Chars)
        BY <2>2, TreeTypes
      <4>2. NameLen(z) = NameLen(w)
        <5>1. TextLen(z) = TextLen(w)
          BY <2>3
        <5> QED BY <3>2, <3>3, <3>4, <5>1
      <4>3.
 \A i \in 1..NameLen(z) : tree.name[z][i] = tree.name[w][i]
        BY <2>2, <3>2, <3>3, <3>4, <4>2
      <4> QED BY <4>1, <4>2, <4>3, SeqEqual DEF NameLen
    <3> QED BY <2>2, <3>6, <3>7, TreeTypes DEF p, q
  <2> QED BY <2>4, <2>5
<1>2. x \notin D
  BY <1>1
<1> QED BY <1>2

-----------------------------------------------------------------------------
(* Inside *)

LEMMA InsideIs ==
  ASSUME tree \in Trees
  PROVE  \A x \in Nodes : Inside[x] <=> x = Folder \/ (tree.parent[x] # NoNode /\ Inside[tree.parent[x]])
<1> DEFINE parent == tree.parent
           base == [x \in Nodes |-> x = Folder]
           step == [x \in Nodes |-> [b \in BOOLEAN |-> x = Folder \/ b]]
<1>1. /\ base \in [Nodes -> BOOLEAN]
      /\ step \in [Nodes -> [BOOLEAN -> BOOLEAN]]
      /\ parent \in [Nodes -> Nodes \cup {NoNode}]
      /\ NoNode \notin Nodes
      /\ \A X \in SUBSET Nodes : X # {} => \E x \in X : parent[x] \notin X
  BY TreeTypes, TreesAssumption
<1> HIDE DEF parent, base, step
<1>2. Solvable(Nodes, NoNode, parent, BOOLEAN, base, step)
  BY <1>1, TreeRecursion
<1>3. PICK F \in [Nodes -> BOOLEAN] :
        \A x \in Nodes : F[x] = IF parent[x] = NoNode THEN base[x] ELSE step[x][F[parent[x]]]
  BY <1>2 DEF Solvable
<1>4. ASSUME NEW x \in Nodes
      PROVE  F[x] = (x = Folder \/ (tree.parent[x] # NoNode /\ F[tree.parent[x]]))
  <2>1. CASE tree.parent[x] = NoNode
    <3>1. F[x] = base[x] /\ base[x] = (x = Folder)
      BY <1>3, <2>1 DEF parent, base
    <3> QED BY <2>1, <3>1
  <2>2. CASE tree.parent[x] # NoNode
    <3>1. F[tree.parent[x]] \in BOOLEAN
      BY <1>1, <1>3, <2>2 DEF parent
    <3>2. F[x] = step[x][F[tree.parent[x]]]
      BY <1>3, <2>2 DEF parent
    <3>3. step[x][F[tree.parent[x]]] = (x = Folder \/ F[tree.parent[x]])
      BY <3>1 DEF step
    <3> QED BY <2>2, <3>1, <3>2, <3>3
  <2> QED BY <2>1, <2>2
<1>5. F = [x \in Nodes |-> x = Folder \/ (tree.parent[x] # NoNode /\ F[tree.parent[x]])]
  <2>1. F = [x \in Nodes |-> F[x]]
    BY <1>3
  <2> QED BY <2>1, <1>4, Zenon
<1>6. Inside = [x \in Nodes |-> x = Folder \/ (tree.parent[x] # NoNode /\ Inside[tree.parent[x]])]
  BY <1>5 DEF Inside
<1> QED BY <1>6, Zenon

\* under_root() compares texts; what it accepts is in the folder.
LEMMA UnderRootIsInside ==
  ASSUME tree \in Trees, NEW x \in Nodes, UnderRoot(x)
  PROVE  InFolder(x)
<1> DEFINE D == {z \in Nodes : UnderRoot(z) /\ ~Inside[z]}
           n == TextLen(Folder)
<1>1. Folder \in Nodes /\ n \in Nat /\ Text[Folder] \in Seq(PathChars)
  <2>1. Folder \in Nodes
    BY TreesAssumption DEF Nodes
  <2> QED BY <2>1, TextLengths
<1>2. ASSUME D # {} PROVE FALSE
  <2>1. PICK z \in D : tree.parent[z] \notin D
    BY <1>2, TreeTypes
  <2>2. z \in Nodes /\ UnderRoot(z) /\ ~Inside[z]
    BY <2>1
  <2> DEFINE p == tree.parent[z]
  <2>3. z # Folder
    BY <2>2, InsideIs
  <2>4. TextLen(z) > n /\ SubSeq(Text[z], 1, n) = Text[Folder] /\ Text[z][n + 1] = "/"
    BY <1>1, <2>2, <2>3, SameText DEF UnderRoot, TextLen
  <2>5. \A i \in 1..n : Text[z][i] = Text[Folder][i]
    <3>1. Text[z] \in Seq(PathChars) /\ n \in 0..Len(Text[z]) /\ 1 \in Int /\ n \in Int
      <4>1. Text[z] \in Seq(PathChars) /\ TextLen(z) \in Nat
        BY <2>2, TextLengths
      <4>2. n \in 0..TextLen(z)
        BY <1>1, <2>4, <4>1
      <4> QED BY <1>1, <4>1, <4>2 DEF TextLen
    <3>2. \A i \in 1..n : SubSeq(Text[z], 1, n)[i] = Text[z][i]
      <4> DEFINE t == Text[z]
      <4> HIDE DEF t, n
      <4>1. t \in Seq(PathChars) /\ n \in 0..Len(t)
        BY <3>1 DEF t
      <4>2. \A i \in 1..n : SubSeq(t, 1, n)[i] = t[i]
        BY <4>1, SubSeqProperties
      <4> QED BY <4>2 DEF t
    <3> QED BY <2>4, <3>2
  <2>6. p # NoNode
    <3>1. TextLen(z) \in Nat /\ TextLen(z) # 0
      BY <1>1, <2>2, <2>4, TextLengths
    <3> QED BY <2>2, <3>1, TextLengths
  <2>7. p \in Nodes /\ TextLen(p) \in Nat /\ NameLen(z) \in Nat /\ TextLen(z) = TextLen(p) + 1 + NameLen(z)
        /\ \A i \in 1..TextLen(p) : Text[z][i] = Text[p][i]
    BY <2>2, <2>6, TextParts
  <2>8. n <= TextLen(p)
    BY <1>1, <2>2, <2>4, <2>6, LastSeparator
  <2>9. Text[p] \in Seq(PathChars)
    BY <2>7, TextLengths
  <2> HIDE DEF p, n
  <2>10. \A i \in 1..n : Text[p][i] = Text[Folder][i]
    <3>1. \A i \in 1..n : i \in 1..TextLen(p)
      BY <1>1, <2>7, <2>8
    <3> QED BY <2>5, <2>7, <3>1
  <2>11. UnderRoot(p)
    <3>1. CASE n = TextLen(p)
      <4>1. Text[p] = Text[Folder]
        BY <1>1, <2>9, <2>10, <3>1, SeqEqual DEF TextLen, n
      <4> QED BY <2>6, <4>1 DEF UnderRoot, p
    <3>2. CASE n # TextLen(p)
      <4>1. n + 1 \in 1..TextLen(p) /\ n < TextLen(p)
        BY <1>1, <2>7, <2>8, <3>2
      <4>2. Text[p][n + 1] = "/"
        BY <2>4, <2>7, <4>1
      <4>3. SubSeq(Text[p], 1, n) = Text[Folder]
        <5> DEFINE t == Text[p]
                   f == Text[Folder]
        <5>1. t \in Seq(PathChars) /\ f \in Seq(PathChars) /\ n \in 0..Len(t) /\ Len(f) = n
              /\ \A i \in 1..n : t[i] = f[i]
          <6>1. n \in 0..TextLen(p)
            BY <1>1, <2>7, <4>1
          <6> QED BY <1>1, <2>9, <2>10, <6>1 DEF TextLen, n
        <5> HIDE DEF t, f
        <5>2. SubSeq(t, 1, n) \in Seq(PathChars) /\ Len(SubSeq(t, 1, n)) = n
              /\ \A i \in 1..n : SubSeq(t, 1, n)[i] = t[i]
          BY <5>1, SubSeqProperties
        <5>3. SubSeq(t, 1, n) = f
          BY <5>1, <5>2, SeqEqual
        <5> QED BY <5>3 DEF t, f
      <4>4. p # NoNode
        BY <2>6 DEF p
      <4> QED BY <4>1, <4>2, <4>3, <4>4 DEF UnderRoot, TextLen, n
    <3> QED BY <3>1, <3>2
  <2>12. Inside[p]
    BY <2>1, <2>7, <2>11 DEF p
  <2> QED BY <2>2, <2>6, <2>12, InsideIs DEF p
<1>3. Inside[x]
  BY <1>2
<1> QED BY <1>3, TreesAssumption DEF InFolder

\* And it accepts all that is in the folder.
LEMMA InsideIsUnderRoot ==
  ASSUME tree \in Trees, NEW x \in Nodes, InFolder(x)
  PROVE  UnderRoot(x)
<1> DEFINE D == {z \in Nodes : Inside[z] /\ ~UnderRoot(z)}
           n == TextLen(Folder)
<1>1. Folder \in Nodes /\ n \in Nat /\ Text[Folder] \in Seq(PathChars) /\ NoNode \notin Nodes
  <2>1. Folder \in Nodes
    BY TreesAssumption DEF Nodes
  <2> QED BY <2>1, TextLengths, TreesAssumption
<1>2. ASSUME D # {} PROVE FALSE
  <2>1. PICK z \in D : tree.parent[z] \notin D
    BY <1>2, TreeTypes
  <2>2. z \in Nodes /\ ~UnderRoot(z) /\ Inside[z]
    BY <2>1
  <2> DEFINE p == tree.parent[z]
  <2>3. z # Folder
    BY <1>1, <2>2 DEF UnderRoot
  <2>4. p # NoNode /\ Inside[p]
    BY <2>2, <2>3, InsideIs
  <2>5. p \in Nodes /\ TextLen(p) \in Nat /\ NameLen(z) \in Nat /\ TextLen(z) = TextLen(p) + 1 + NameLen(z)
        /\ (\A i \in 1..TextLen(p) : Text[z][i] = Text[p][i])
        /\ Text[z][TextLen(p) + 1] = "/"
    BY <2>2, <2>4, TextParts
  <2>6. UnderRoot(p) /\ Text[p] \in Seq(PathChars) /\ Text[z] \in Seq(PathChars)
    BY <2>1, <2>2, <2>4, <2>5, TextLengths
  <2> HIDE DEF p
  <2>7. /\ n <= TextLen(p)
        /\ \A i \in 1..n : Text[p][i] = Text[Folder][i]
        /\ n < TextLen(p) => Text[p][n + 1] = "/"
    <3>1. CASE Text[p] = Text[Folder]
      BY <1>1, <3>1 DEF TextLen
    <3>2. CASE /\ Len(Text[p]) > n
               /\ SubSeq(Text[p], 1, n) = Text[Folder]
               /\ Text[p][n + 1] = "/"
      <4> DEFINE t == Text[p]
      <4>1. t \in Seq(PathChars) /\ n \in 0..Len(t)
        BY <1>1, <2>5, <2>6, <3>2 DEF TextLen
      <4> HIDE DEF t, n
      <4>2. \A i \in 1..n : SubSeq(t, 1, n)[i] = t[i]
        BY <4>1, SubSeqProperties
      <4>3. \A i \in 1..n : t[i] = Text[Folder][i]
        BY <3>2, <4>2 DEF t
      <4>4. n <= TextLen(p)
        BY <1>1, <2>5, <3>2 DEF TextLen
      <4> QED BY <3>2, <4>3, <4>4 DEF t
    <3> QED BY <2>6, <3>1, <3>2 DEF UnderRoot, TextLen
  <2> HIDE DEF n
  <2>8. n < TextLen(z) /\ Text[z][n + 1] = "/"
    <3>1. n < TextLen(z)
      BY <1>1, <2>5, <2>7
    <3>2. CASE n = TextLen(p)
      BY <2>5, <3>1, <3>2
    <3>3. CASE n < TextLen(p)
      <4>1. n + 1 \in 1..TextLen(p)
        BY <1>1, <2>5, <3>3
      <4> QED BY <2>5, <2>7, <3>1, <3>3, <4>1
    <3> QED BY <1>1, <2>5, <2>7, <3>2, <3>3
  <2>9. \A i \in 1..n : Text[z][i] = Text[Folder][i]
    <3>1. \A i \in 1..n : i \in 1..TextLen(p)
      BY <1>1, <2>5, <2>7
    <3> QED BY <2>5, <2>7, <3>1
  <2>10. SubSeq(Text[z], 1, n) = Text[Folder]
    <3> DEFINE t == Text[z]
               f == Text[Folder]
    <3>1. t \in Seq(PathChars) /\ f \in Seq(PathChars) /\ n \in 0..Len(t) /\ Len(f) = n
          /\ \A i \in 1..n : t[i] = f[i]
      <4>1. n \in 0..TextLen(z)
        BY <1>1, <2>5, <2>8
      <4> QED BY <1>1, <2>6, <2>9, <4>1 DEF TextLen, n
    <3> HIDE DEF t, f
    <3>2. SubSeq(t, 1, n) \in Seq(PathChars) /\ Len(SubSeq(t, 1, n)) = n
          /\ \A i \in 1..n : SubSeq(t, 1, n)[i] = t[i]
      BY <3>1, SubSeqProperties
    <3>3. SubSeq(t, 1, n) = f
      BY <3>1, <3>2, SeqEqual
    <3> QED BY <3>3 DEF t, f
  <2>11. UnderRoot(z)
    BY <1>1, <2>2, <2>8, <2>10 DEF UnderRoot, TextLen, n
  <2> QED BY <2>2, <2>11
<1>3. Inside[x]
  BY DEF InFolder
<1> QED BY <1>2, <1>3

-----------------------------------------------------------------------------
(* realpath() *)

\* What is reached after any number of hops is in the tree, or nowhere; what is
\* no link leads to itself.
LEMMA RealType ==
  ASSUME tree \in Trees, NEW x \in Nodes \cup {NoNode}
  PROVE  Real(x) \in Nodes \cup {NoNode} /\ (x \notin Links => Real(x) = x)
<1> DEFINE A == Nodes \cup {NoNode}
           n == Cardinality(Links)
           next == [y \in A |-> IF y \in Links THEN tree.target[y] ELSE y]
           step == [k \in Nat |-> next]
           hop[k \in 0..n] ==
             IF k = 0 THEN x
             ELSE IF hop[k - 1] \in Links THEN tree.target[hop[k - 1]] ELSE hop[k - 1]
<1>1. n \in Nat
  BY TreesAssumption, FS_CardinalityType
<1>2. next \in [A -> A] /\ step \in [Nat -> [A -> A]]
  <2>1. next \in [A -> A]
    BY TreeTypes
  <2> HIDE DEF next
  <2> QED BY <2>1
<1>3. PICK g \in [0..n -> A] : g[0] = x /\ \A k \in 1..n : g[k] = step[k - 1][g[k - 1]]
  <2> HIDE DEF A, n, next, step
  <2>1. x \in A
    BY DEF A
  <2>2. Iterates(A, x, step, n)
    BY <1>1, <1>2, <2>1, NatRecursion
  <2> QED BY <2>2 DEF Iterates
<1>4. \A k \in 0..n : g[k] \in A
  BY <1>3
<1>5. ASSUME NEW k \in 0..n
      PROVE  g[k] = IF k = 0 THEN x ELSE IF g[k - 1] \in Links THEN tree.target[g[k - 1]] ELSE g[k - 1]
  <2> HIDE DEF n
  <2>1. CASE k # 0
    <3>1. k \in 1..n /\ k - 1 \in Nat /\ k - 1 \in 0..n
      BY <1>1, <2>1
    <3>2. g[k] = step[k - 1][g[k - 1]] /\ step[k - 1] = next /\ g[k - 1] \in A
      BY <1>3, <1>4, <3>1
    <3> QED BY <2>1, <3>2
  <2> QED BY <1>3, <2>1
<1>6. g = [k \in 0..n |-> IF k = 0 THEN x
                          ELSE IF g[k - 1] \in Links THEN tree.target[g[k - 1]] ELSE g[k - 1]]
  <2>1. g = [k \in 0..n |-> g[k]]
    BY <1>3
  <2> QED BY <2>1, <1>5, Zenon
<1>7. hop = [k \in 0..n |-> IF k = 0 THEN x
                            ELSE IF hop[k - 1] \in Links THEN tree.target[hop[k - 1]] ELSE hop[k - 1]]
  BY <1>6
<1>8. Real(x) = IF hop[n] \in Links THEN NoNode ELSE hop[n]
  BY DEF Real
<1>9. ASSUME NEW k \in 0..n PROVE hop[k] \in A
  <2> HIDE DEF hop, n
  <2> DEFINE T == {j \in 0..n : hop[j] \notin A}
  <2>1. ASSUME T # {} PROVE FALSE
    <3>1. T \in SUBSET Nat
      BY <1>1
    <3>2. PICK j \in T : \A i \in T : j <= i
      BY <2>1, <3>1, LeastNat
    <3>3. j \in 0..n /\ hop[j] \notin A
      BY <3>2
    <3>4. j # 0
      BY <1>7, <3>3
    <3>5. j - 1 \in 0..n /\ ~(j <= j - 1)
      BY <1>1, <3>3, <3>4
    <3>6. hop[j - 1] \in A
      BY <3>2, <3>5
    <3>7. hop[j] = IF hop[j - 1] \in Links THEN tree.target[hop[j - 1]] ELSE hop[j - 1]
      BY <1>7, <3>3, <3>4
    <3> QED BY <3>3, <3>6, <3>7, TreeTypes
  <2> QED BY <2>1
<1>10. ASSUME x \notin Links, NEW k \in 0..n PROVE hop[k] = x
  <2> HIDE DEF hop, n
  <2> DEFINE T == {j \in 0..n : hop[j] # x}
  <2>1. ASSUME T # {} PROVE FALSE
    <3>1. T \in SUBSET Nat
      BY <1>1
    <3>2. PICK j \in T : \A i \in T : j <= i
      BY <2>1, <3>1, LeastNat
    <3>3. j \in 0..n /\ hop[j] # x
      BY <3>2
    <3>4. j # 0
      BY <1>7, <3>3
    <3>5. j - 1 \in 0..n /\ ~(j <= j - 1)
      BY <1>1, <3>3, <3>4
    <3>6. hop[j - 1] = x
      BY <3>2, <3>5
    <3>7. hop[j] = IF hop[j - 1] \in Links THEN tree.target[hop[j - 1]] ELSE hop[j - 1]
      BY <1>7, <3>3, <3>4
    <3> QED BY <1>10, <3>3, <3>6, <3>7
  <2> QED BY <2>1
<1> QED BY <1>1, <1>8, <1>9, <1>10

-----------------------------------------------------------------------------
(* Case *)

\* A letter's two cases are refused, or end a stem, together.
LEMMA SameMark ==
  ASSUME NEW c \in Chars, NEW d \in Chars, Lower[c] = Lower[d], NEW m \in Marks
  PROVE  c = m <=> d = m
BY CharsAssumption DEF Marks

\* A device's name is one in any spelling.
LEMMA SameDevice ==
  ASSUME NEW a \in Seq(Chars), NEW b \in Seq(Chars), NameEqFold(a, b), IsDosDevice(b)
  PROVE  IsDosDevice(a)
<1>1. PICK d \in Devices :
        /\ Len(d) <= Len(b)
        /\ \A i \in 1..Len(d) : Lower[b[i]] = d[i]
        /\ Len(d) = Len(b) \/ b[Len(d) + 1] = "."
  BY DEF IsDosDevice
<1>2. Len(d) \in Nat /\ Len(a) \in Nat /\ Len(b) = Len(a)
  BY CharsAssumption DEF NameEqFold
<1>3. \A i \in 1..Len(d) : Lower[a[i]] = d[i]
  BY <1>1, <1>2 DEF NameEqFold
<1>4. Len(d) = Len(a) \/ a[Len(d) + 1] = "."
  <2> SUFFICES ASSUME Len(d) # Len(b), b[Len(d) + 1] = "."
               PROVE  a[Len(d) + 1] = "."
    BY <1>1, <1>2
  <2>1. Len(d) + 1 \in 1..Len(a)
    BY <1>1, <1>2
  <2>2. /\ a[Len(d) + 1] \in Chars /\ b[Len(d) + 1] \in Chars
        /\ Lower[a[Len(d) + 1]] = Lower[b[Len(d) + 1]]
    BY <1>2, <2>1 DEF NameEqFold
  <2>3. "." \in Marks
    BY DEF Marks
  <2> QED BY <2>2, <2>3, SameMark
<1> QED BY <1>1, <1>2, <1>3, <1>4 DEF IsDosDevice

\* component_ok() accepts both of two names that differ in case only, or
\* neither: what HostFolder assumes of the names a guest can spell.
THEOREM FoldKeepsAcceptable ==
  ASSUME NEW a \in Seq(Chars), NEW b \in Seq(Chars), NameEqFold(a, b), ComponentOk(a)
  PROVE  ComponentOk(b)
<1>1. Len(b) = Len(a) /\ Len(a) \in Nat /\ Len(a) \in 1..MaxName
  <2>1. Len(b) = Len(a) /\ Len(a) \in 1..MaxName
    BY DEF NameEqFold, ComponentOk
  <2> QED BY <2>1
<1>2. \A i \in 1..Len(a) :
        /\ a[i] \in Chars /\ b[i] \in Chars
        /\ Lower[a[i]] = Lower[b[i]]
  BY <1>1 DEF NameEqFold
<1>3. b[Len(b)] \notin {".", " "}
  <2>1. Len(a) \in 1..Len(a)
    BY <1>1, CharsAssumption
  <2>2. "." \in Marks /\ " " \in Marks /\ a[Len(a)] # "." /\ a[Len(a)] # " "
    BY DEF Marks, ComponentOk
  <2> QED BY <1>1, <1>2, <2>1, <2>2, SameMark
<1>4. ASSUME NEW i \in 1..Len(b), b[i] \in Bad
      PROVE  FALSE
  <2>1. b[i] \in Marks
    BY <1>4 DEF Marks
  <2>2. a[i] = b[i]
    BY <1>1, <1>2, <2>1, SameMark
  <2> QED BY <1>1, <1>4, <2>2 DEF ComponentOk
<1>5. ~IsDosDevice(b)
  <2>1. NameEqFold(b, a)
    BY <1>1 DEF NameEqFold
  <2> QED BY <2>1, SameDevice DEF ComponentOk, NameEqFold
<1> QED BY <1>1, <1>3, <1>4, <1>5 DEF ComponentOk

-----------------------------------------------------------------------------
\* A tree of those looked at, and components that are names, and acceptable.
AllAcceptable ==
  /\ tree \in Trees
  /\ request \in Seq(Seq(Chars))
  /\ joined \in Seq(Seq(Chars))
  /\ doing = "join" \/ joined = <<>> \/ doing \in {"answered", "refused"}
  /\ \A k \in 1..Len(joined) : ComponentOk(joined[k])

\* What is joined is the guest's component or a name of the host's that equals
\* it but for case.
LEMMA JoinedName ==
  ASSUME tree \in Trees, NEW c \in Seq(Chars), ComponentOk(c), NEW d, NEW n \in OnDisk(d, c)
  PROVE  n \in Seq(Chars) /\ ComponentOk(n)
<1>1. CASE n = c
  BY <1>1
<1>2. CASE \E x \in Nodes : n = tree.name[x] /\ NameEqFold(tree.name[x], c)
  <2>1. PICK x \in Nodes : n = tree.name[x] /\ NameEqFold(tree.name[x], c)
    BY <1>2
  <2>2. tree.name \in [Nodes -> Seq(Chars)]
    BY TreesAssumption
  <2>3. n \in Seq(Chars)
    BY <2>1, <2>2
  <2>4. NameEqFold(c, n)
    BY <2>1, <2>3 DEF NameEqFold
  <2> QED BY <2>3, <2>4, FoldKeepsAcceptable
<1> QED BY <1>1, <1>2 DEF OnDisk, Entries

LEMMA AcceptableStart == BorderInit => AllAcceptable
BY DEF BorderInit, AllAcceptable

LEMMA AcceptableStep == AllAcceptable /\ [BorderNext]_border => AllAcceptable'
<1> SUFFICES ASSUME AllAcceptable, [BorderNext]_border
             PROVE  AllAcceptable'
  OBVIOUS
<1>1. CASE \E d \in Dirs, depth \in 0..MaxDepth + 1 : Descend(d, depth)
  BY <1>1 DEF Descend, AllAcceptable
<1>2. CASE PassEnds
  BY <1>2 DEF PassEnds, AllAcceptable
<1>3. CASE \E p \in Requests : Resolves(p)
  BY <1>3, TreesAssumption DEF Resolves, AllAcceptable
<1>4. CASE Join
  <2> DEFINE c == request[Len(joined) + 1]
             d == Real(at)
  <2>1. c \in Seq(Chars)
    BY <1>4 DEF Join, AllAcceptable
  <2>2. CASE UNCHANGED joined
    BY <1>4, <2>2 DEF Join, AllAcceptable
  <2>3. CASE ComponentOk(c) /\ doing' = "join" /\
             \E n \in OnDisk(d, c) : joined' = Append(joined, n)
    <3>1. PICK n \in OnDisk(d, c) : joined' = Append(joined, n)
      BY <2>3
    <3>2. n \in Seq(Chars) /\ ComponentOk(n)
      BY <2>1, <2>3, JoinedName DEF AllAcceptable
    <3> QED BY <1>4, <2>3, <3>1, <3>2 DEF Join, AllAcceptable
  <2> QED BY <1>4, <2>2, <2>3 DEF Join
<1>5. CASE Check
  BY <1>5 DEF Check, AllAcceptable
<1>6. CASE UNCHANGED border
  BY <1>6 DEF border, AllAcceptable
<1> QED BY <1>1, <1>2, <1>3, <1>4, <1>5, <1>6 DEF BorderNext

\* resolve_path() joins nothing component_ok() would refuse, with any names on
\* the host: no device, no mark, no name that ends in a dot.
JoinsAcceptable == \A k \in 1..Len(joined) : ComponentOk(joined[k])

THEOREM JoinedIsAcceptable == BorderSpec => []JoinsAcceptable
<1>1. AllAcceptable => JoinsAcceptable
  BY DEF AllAcceptable, JoinsAcceptable
<1> QED BY <1>1, AcceptableStart, AcceptableStep, PTL DEF BorderSpec

-----------------------------------------------------------------------------
(* The border *)

\* at is what the last component names in the directory above it, if anything.
Leads ==
  joined # <<>> =>
    \A x \in Entry(Real(above), joined[Len(joined)]) : Real(above) \in Dirs => at = x

BorderInv ==
  /\ at \in Nodes \cup {NoNode} /\ above \in Nodes \cup {NoNode}
  /\ doing \in {"walk", "idle", "join", "answered", "refused"}
  /\ doing \in {"walk", "idle"} => joined = <<>>
  /\ doing = "join" => request # <<>>
  /\ Leads
  /\ \A e \in ahead : InFolder(e[1])
  /\ Contained

\* A step changes nothing of the tree, and so no place in it.
LEMMA SamePlaces ==
  ASSUME UNCHANGED tree
  PROVE  Inside' = Inside /\ (\A x : Real(x)' = Real(x)) /\ \A d, n : Entry(d, n)' = Entry(d, n)
<1>1. Inside' = Inside
  BY DEF Inside
<1>2. \A x : Real(x)' = Real(x)
  BY DEF Real
<1>3. \A d, n : Entry(d, n)' = Entry(d, n)
  BY DEF Entry, Entries
<1> QED BY <1>1, <1>2, <1>3

LEMMA OneEntry ==
  ASSUME tree \in Trees, NEW d, NEW n, NEW x \in Entry(d, n)
  PROVE  x \in Nodes /\ tree.parent[x] = d /\ tree.name[x] = n /\ d \in Dirs \cup {NoNode}
         /\ \A y \in Entry(d, n) : y = x
<1>1. \A y \in Entry(d, n) : y \in Nodes /\ tree.parent[y] = d /\ tree.name[y] = n
  BY DEF Entry, Entries
<1> QED BY <1>1, TreeTypes

LEMMA BorderStart == BorderInit => BorderInv
<1> SUFFICES ASSUME BorderInit PROVE BorderInv
  OBVIOUS
<1>1. InFolder(Folder)
  <2>1. Folder \in Nodes /\ Folder # NoNode
    BY TreesAssumption DEF Nodes
  <2> QED BY <2>1, InsideIs DEF InFolder, BorderInit
<1>2. Contained /\ Leads
  BY DEF BorderInit, Contained, Leads
<1> QED BY <1>1, <1>2, TreesAssumption DEF BorderInit, BorderInv, Nodes

LEMMA DescendInv ==
  ASSUME AllAcceptable, BorderInv, NEW d \in Dirs, NEW depth \in 0..MaxDepth + 1, Descend(d, depth)
  PROVE  BorderInv'
<1>1. tree \in Trees /\ UNCHANGED <<follows, tree, doing, request, joined, above, at, outcome>>
      /\ doing = "walk" /\ <<d, depth>> \in ahead
  BY DEF AllAcceptable, Descend
<1>2. Inside' = Inside /\ (\A x : Real(x)' = Real(x)) /\ \A a, n : Entry(a, n)' = Entry(a, n)
  BY <1>1, SamePlaces
<1> DEFINE inside == {x \in Entries(d) : UnderRoot(Real(x))}
           dirs == {x \in inside : x \in Dirs \/ (follows /\ Real(x) \in Dirs)}
<1>3. ASSUME NEW x \in inside PROVE InFolder(Real(x))
  <2>1. x \in Nodes /\ UnderRoot(Real(x))
    BY DEF Entries
  <2>2. Real(x) \in Nodes
    BY <1>1, <2>1, RealType DEF UnderRoot
  <2> QED BY <1>1, <2>1, <2>2, UnderRootIsInside
<1>4. ahead' \subseteq ahead \cup ({Real(x) : x \in dirs} \X {depth + 1})
      /\ touched' \subseteq touched \cup {d} \cup {Real(x) : x \in inside \ dirs}
  BY DEF Descend
<1>5. InFolder(d)
  <2>1. <<d, depth>>[1] = d
    OBVIOUS
  <2> QED BY <1>1, <2>1 DEF BorderInv
<1> HIDE DEF inside
<1>6. \A e \in ahead' : InFolder(e[1])
  <2>1. \A e \in {Real(x) : x \in dirs} \X {depth + 1} : \E x \in inside : e[1] = Real(x)
    OBVIOUS
  <2> QED BY <1>3, <1>4, <2>1 DEF BorderInv
<1>7. \A x \in touched' : InFolder(x)
  BY <1>3, <1>4, <1>5 DEF BorderInv, Contained
<1>8. (\A e \in ahead : InFolder(e[1]))' /\ (\A x \in touched : InFolder(x))'
  BY <1>2, <1>6, <1>7 DEF InFolder
<1>9. Leads'
  BY <1>1 DEF BorderInv, Leads
<1>10. Contained'
  BY <1>1, <1>8 DEF Contained
<1> QED BY <1>1, <1>8, <1>9, <1>10 DEF BorderInv

LEMMA JoinInv ==
  ASSUME AllAcceptable, BorderInv, Join PROVE BorderInv'
<1> DEFINE c == request[Len(joined) + 1]
           d == Real(at)
<1>1. tree \in Trees /\ UNCHANGED <<follows, tree, ahead, touched, request, outcome>> /\ doing = "join"
      /\ joined \in Seq(Seq(Chars)) /\ request # <<>>
  BY DEF AllAcceptable, Join, BorderInv
<1>2. Inside' = Inside /\ (\A x : Real(x)' = Real(x)) /\ \A a, n : Entry(a, n)' = Entry(a, n)
  BY <1>1, SamePlaces
<1>3. doing' \in {"join", "refused"}
  BY <1>1 DEF Join
<1>4. Contained'
  BY <1>1, <1>2, <1>3 DEF BorderInv, Contained, InFolder
<1>5. (\A e \in ahead : InFolder(e[1]))'
  BY <1>1, <1>2 DEF BorderInv, InFolder
<1>6. CASE UNCHANGED <<joined, above, at>>
  <2>1. Leads'
    BY <1>2, <1>6 DEF BorderInv, Leads
  <2> QED BY <1>1, <1>3, <1>4, <1>5, <1>6, <2>1 DEF BorderInv
<1>7. CASE \E n \in OnDisk(d, c) :
             /\ joined' = Append(joined, n)
             /\ above' = at
             /\ at' = IF d \in Dirs /\ Entry(d, n) # {}
                      THEN CHOOSE x \in Entry(d, n) : TRUE ELSE NoNode
  <2>1. PICK n \in OnDisk(d, c) :
             /\ joined' = Append(joined, n)
             /\ above' = at
             /\ at' = IF d \in Dirs /\ Entry(d, n) # {}
                      THEN CHOOSE x \in Entry(d, n) : TRUE ELSE NoNode
    BY <1>7
  <2> HIDE DEF d, c
  <2>2. Len(joined') = Len(joined) + 1 /\ joined'[Len(joined')] = n
    BY <1>1, <2>1
  <2>3. at' \in Entry(d, n) \cup {NoNode}
    BY <2>1
  <2>4. at' \in Nodes \cup {NoNode} /\ above' \in Nodes \cup {NoNode}
    BY <2>1, <2>3 DEF BorderInv, Entry, Entries
  <2>5. Real(above)' = d
    BY <1>1, <2>1 DEF Real, d
  <2>6. ASSUME NEW x \in Entry(d, n), d \in Dirs PROVE at' = x
    <3>1. at' \in Entry(d, n)
      BY <2>1, <2>6
    <3> QED BY <1>1, <3>1, OneEntry
  <2>7. Leads'
    BY <1>2, <2>2, <2>5, <2>6 DEF Leads
  <2> QED BY <1>1, <1>3, <1>4, <1>5, <2>4, <2>7 DEF BorderInv
<1> QED BY <1>6, <1>7 DEF Join

LEMMA CheckInv ==
  ASSUME AllAcceptable, BorderInv, Check PROVE BorderInv'
<1>1. tree \in Trees /\ UNCHANGED <<follows, tree, ahead, touched, request, joined, above, at>>
      /\ doing = "join" /\ joined \in Seq(Seq(Chars)) /\ joined # <<>>
  <2>1. joined \in Seq(Seq(Chars)) /\ request \in Seq(Seq(Chars)) /\ Len(joined) = Len(request) /\ request # <<>>
    BY DEF AllAcceptable, BorderInv, Check
  <2> QED BY <2>1 DEF AllAcceptable, Check
<1>2. Inside' = Inside /\ (\A x : Real(x)' = Real(x)) /\ \A a, n : Entry(a, n)' = Entry(a, n)
  BY <1>1, SamePlaces
<1>3. (\A e \in ahead : InFolder(e[1]))' /\ (\A x \in touched : InFolder(x))'
  BY <1>1, <1>2 DEF BorderInv, Contained, InFolder
<1>4. Leads'
  BY <1>1, <1>2, Real(above)' = Real(above) DEF BorderInv, Leads
<1> DEFINE d == Real(above)
           n == joined[Len(joined)]
<1>5. CASE UnderRoot(Real(above)) /\ (Real(at) # NoNode => UnderRoot(Real(at)))
           /\ doing' = "answered" /\ outcome' = [dir |-> d, leaf |-> n]
  <2>1. d \in Nodes /\ at \in Nodes \cup {NoNode}
    BY <1>1, <1>5, RealType DEF BorderInv, UnderRoot
  <2>2. InFolder(d)
    BY <1>1, <1>5, <2>1, UnderRootIsInside
  <2>3. ASSUME NEW x \in Entry(d, n), Real(x) # NoNode PROVE InFolder(Real(x))
    <3>1. d \in Dirs
      BY <1>1, <2>1, OneEntry, TreesAssumption
    <3>2. at = x
      BY <1>1, <3>1 DEF BorderInv, Leads
    <3>3. Real(x) \in Nodes
      BY <1>1, <2>1, <2>3, <3>2, RealType
    <3> QED BY <1>1, <1>5, <2>3, <3>2, <3>3, UnderRootIsInside
  <2> HIDE DEF d, n
  <2>4. outcome'.dir = d /\ outcome'.leaf = n
    BY <1>5
  <2>5. Contained'
    BY <1>2, <1>3, <2>2, <2>3, <2>4 DEF Contained, InFolder
  <2> QED BY <1>1, <1>3, <1>4, <1>5, <2>5 DEF BorderInv
<1>6. CASE doing' = "refused"
  <2>1. Contained'
    BY <1>3, <1>6 DEF Contained
  <2> QED BY <1>1, <1>3, <1>4, <1>6, <2>1 DEF BorderInv
<1> QED BY <1>5, <1>6 DEF Check

\* The empty path is the folder, and nothing has an empty name in it.
LEMMA ResolvesInv ==
  ASSUME AllAcceptable, BorderInv, NEW p \in Requests, Resolves(p) PROVE BorderInv'
<1>1. tree \in Trees /\ UNCHANGED <<follows, tree, ahead, touched, joined, above, at>> /\ request' = p
      /\ doing = "idle" /\ joined = <<>>
  BY DEF AllAcceptable, BorderInv, Resolves
<1>2. Inside' = Inside /\ (\A x : Real(x)' = Real(x)) /\ \A a, n : Entry(a, n)' = Entry(a, n)
  BY <1>1, SamePlaces
<1>3. (\A e \in ahead : InFolder(e[1]))' /\ (\A x \in touched : InFolder(x))'
  BY <1>1, <1>2 DEF BorderInv, Contained, InFolder
<1>4. Leads'
  BY <1>1 DEF Leads
<1>5. CASE p = <<>>
  <2>1. doing' = "answered" /\ outcome'.dir = Folder /\ outcome'.leaf = <<>>
    BY <1>5 DEF Resolves
  <2>2. Folder \in Nodes /\ Folder # NoNode
    BY TreesAssumption DEF Nodes
  <2>3. InFolder(Folder)
    BY <1>1, <2>2, InsideIs DEF InFolder
  <2>4. Entry(Folder, <<>>) = {}
    <3>1. ASSUME NEW x \in Entry(Folder, <<>>) PROVE FALSE
      <4>1. x \in Nodes /\ tree.parent[x] = Folder /\ tree.name[x] = <<>>
        BY DEF Entry, Entries
      <4> QED BY <1>1, <2>2, <4>1, TreeTypes
    <3> QED BY <3>1
  <2>5. Contained'
    BY <1>2, <1>3, <2>1, <2>3, <2>4 DEF Contained, InFolder
  <2> QED BY <1>1, <1>3, <1>4, <2>1, <2>5 DEF BorderInv
<1>6. CASE p # <<>>
  <2>1. doing' \in {"refused", "join"}
    BY <1>6 DEF Resolves
  <2>2. Contained'
    BY <1>3, <2>1 DEF Contained
  <2> QED BY <1>1, <1>3, <1>4, <1>6, <2>1, <2>2 DEF BorderInv
<1> QED BY <1>5, <1>6

LEMMA BorderStep == AllAcceptable /\ BorderInv /\ [BorderNext]_border => BorderInv'
<1> SUFFICES ASSUME AllAcceptable, BorderInv, [BorderNext]_border PROVE BorderInv'
  OBVIOUS
<1>1. CASE PassEnds \/ UNCHANGED border
  <2>1. UNCHANGED <<tree, ahead, touched, request, joined, above, at, outcome>>
        /\ \/ doing = "walk" /\ doing' = "idle"
           \/ doing' = doing
    BY <1>1 DEF PassEnds, border
  <2>2. Inside' = Inside /\ (\A x : Real(x)' = Real(x)) /\ \A a, n : Entry(a, n)' = Entry(a, n)
    BY <2>1, SamePlaces
  <2>3. Contained' /\ (\A e \in ahead : InFolder(e[1]))'
    BY <2>1, <2>2 DEF BorderInv, Contained, InFolder
  <2>4. Leads'
    BY <2>1, <2>2, Real(above)' = Real(above) DEF BorderInv, Leads
  <2> QED BY <2>1, <2>3, <2>4 DEF BorderInv
<1> QED BY <1>1, DescendInv, ResolvesInv, JoinInv, CheckInv DEF BorderNext

\* The folder's border, for any tree: whatever links lead out of it, and
\* however a name is spelled, neither what resolve_path() answers with nor
\* anything make_writable() changes is outside; under_root() decides it by the
\* texts of two paths.
THEOREM NothingLeavesTheFolder == BorderSpec => []Contained
<1>1. BorderInv => Contained
  BY DEF BorderInv
<1> QED BY <1>1, BorderStart, BorderStep, AcceptableStart, AcceptableStep, PTL DEF BorderSpec

-----------------------------------------------------------------------------
(* What the border lets through *)

\* A distance from the folder to each directory in it.
Levels(level) ==
  /\ level[Folder] = 0
  /\ \A d \in Dirs : InFolder(d) => level[d] <= MaxDepth
  /\ \A d \in Dirs \ {Folder} : InFolder(d) => level[d] = level[tree.parent[d]] + 1

\* No directory in the folder is too deep for the writable pass, which gives up
\* below MaxDepth.
Shallow == \E level \in [Nodes -> Nat] : Levels(level)

AllTouched == {x \in Dirs \cup Files : InFolder(x)} \subseteq touched

\* Of the directories P that were descended into at their own level, every file
\* is changed and every directory is in P too or yet to come.  (A directory may
\* also be changed, or descended into, through a link.)
Descended(level, P) ==
  /\ P \subseteq touched
  /\ Folder \in P \/ <<Folder, 0>> \in ahead
  /\ \A d \in Dirs \ {Folder} : InFolder(d) /\ tree.parent[d] \in P
                                  => d \in P \/ <<d, level[d]>> \in ahead
  /\ \A f \in Files : InFolder(f) /\ tree.parent[f] \in P => f \in touched

PassInv ==
  /\ doing = "walk" => \A level \in [Nodes -> Nat] : Levels(level) => \E P : Descended(level, P)
  /\ doing # "walk" => (Shallow => AllTouched)

LEMMA SameLevels ==
  ASSUME UNCHANGED tree
  PROVE  /\ \A x : InFolder(x)' <=> InFolder(x)
         /\ \A level : Levels(level)' <=> Levels(level)
         /\ Shallow' <=> Shallow
<1>1. \A x : InFolder(x)' <=> InFolder(x)
  BY SamePlaces DEF InFolder
<1>2. \A level : Levels(level)' <=> Levels(level)
  BY <1>1 DEF Levels
<1> QED BY <1>1, <1>2 DEF Shallow

LEMMA ParentInside ==
  ASSUME tree \in Trees, NEW x \in Nodes, x # Folder, InFolder(x)
  PROVE  tree.parent[x] \in Dirs /\ InFolder(tree.parent[x])
<1>1. tree.parent[x] # NoNode /\ Inside[tree.parent[x]]
  BY InsideIs DEF InFolder
<1>2. tree.parent[x] \in Dirs
  BY <1>1, TreeTypes
<1> QED BY <1>1, <1>2 DEF InFolder

LEMMA PassStart == BorderInit => PassInv
<1> SUFFICES ASSUME BorderInit, NEW level PROVE Descended(level, {})
  BY DEF PassInv, BorderInit
<1> QED BY DEF BorderInit, Descended

LEMMA PassDescends ==
  ASSUME AllAcceptable, BorderInv, PassInv, NEW d \in Dirs, NEW depth \in 0..MaxDepth + 1,
         Descend(d, depth)
  PROVE  PassInv'
<1>1. /\ tree \in Trees /\ UNCHANGED tree
      /\ doing = "walk" /\ doing' = "walk" /\ <<d, depth>> \in ahead
  BY DEF AllAcceptable, Descend
<1>2. InFolder(d)
  <2>1. <<d, depth>>[1] = d
    OBVIOUS
  <2> QED BY <1>1, <2>1 DEF BorderInv
<1> SUFFICES ASSUME NEW level \in [Nodes -> Nat], Levels(level)
             PROVE  \E P : Descended(level, P)'
  BY <1>1, SameLevels DEF PassInv
<1>3. PICK P : Descended(level, P)
  BY <1>1 DEF PassInv
<1> DEFINE inside == {x \in Entries(d) : UnderRoot(Real(x))}
           sub == {x \in inside : x \in Dirs \/ (follows /\ Real(x) \in Dirs)}
\* What is removed from ahead is one directory at one depth.
<1>4. \A x, k : <<x, k>> \in ahead /\ ~(x = d /\ k = depth) => <<x, k>> \in ahead'
  BY DEF Descend
<1>5. touched \subseteq touched'
  BY DEF Descend
<1>6. CASE depth # level[d]
  <2>1. \A x : <<x, level[x]>> \in ahead => <<x, level[x]>> \in ahead'
    BY <1>4, <1>6
  <2>2. <<Folder, 0>> \in ahead => <<Folder, 0>> \in ahead'
    BY <2>1 DEF Levels
  <2>3. Descended(level, P)'
    BY <1>1, <1>3, <1>5, <2>1, <2>2, SameLevels DEF Descended
  <2> QED BY <2>3
<1>7. CASE depth = level[d]
  <2>1. ~(depth > MaxDepth)
    <3>1. level[d] <= MaxDepth
      BY <1>2 DEF Levels
    <3> QED BY <1>7, <3>1, CharsAssumption
  <2>2. /\ ahead' = (ahead \ {<<d, depth>>}) \cup ({Real(x) : x \in sub} \X {depth + 1})
        /\ touched' = touched \cup {d} \cup {Real(x) : x \in inside \ sub}
    BY <2>1, Zenon DEF Descend
  <2>3. ASSUME NEW x \in Dirs \cup Files, InFolder(x), tree.parent[x] = d
        PROVE  x \in inside /\ Real(x) = x
    <3>1. x \in Nodes /\ x \notin Links
      BY TreesAssumption DEF Nodes
    <3>2. Real(x) = x
      BY <1>1, <3>1, RealType
    <3> QED BY <1>1, <2>3, <3>1, <3>2, InsideIsUnderRoot DEF Entries
  <2>4. ASSUME NEW e \in Dirs, InFolder(e), tree.parent[e] = d, e # Folder
        PROVE  <<e, level[e]>> \in ahead'
    <3>1. e \in sub /\ Real(e) = e
      BY <2>3, <2>4
    <3>2. level[e] = depth + 1
      BY <1>7, <2>4 DEF Levels
    <3> HIDE DEF sub
    <3>3. e \in {Real(x) : x \in sub}
      BY <3>1
    <3> QED BY <2>2, <3>2, <3>3
  <2>5. ASSUME NEW f \in Files, InFolder(f), tree.parent[f] = d
        PROVE  f \in touched'
    <3>1. f \in inside /\ Real(f) = f /\ f \notin Dirs
      BY <2>3, <2>5, TreesAssumption
    <3>2. f \in inside \ sub
      BY <3>1
    <3> HIDE DEF sub, inside
    <3> QED BY <2>2, <3>1, <3>2
  <2>6. d \in touched'
    BY <2>2
  <2> HIDE DEF sub, inside
  <2>7. (P \cup {d}) \subseteq touched'
    BY <1>3, <1>5, <2>6 DEF Descended
  <2>8. Folder \in P \cup {d} \/ <<Folder, 0>> \in ahead'
    BY <1>3, <1>4 DEF Descended
  <2>9. ASSUME NEW e \in Dirs \ {Folder}, InFolder(e), tree.parent[e] \in P \cup {d}
        PROVE  e \in P \cup {d} \/ <<e, level[e]>> \in ahead'
    <3>1. CASE tree.parent[e] \in P
      BY <1>3, <1>4, <2>9, <3>1 DEF Descended
    <3>2. CASE tree.parent[e] = d
      BY <2>4, <2>9, <3>2
    <3> QED BY <2>9, <3>1, <3>2
  <2>10. ASSUME NEW f \in Files, InFolder(f), tree.parent[f] \in P \cup {d}
         PROVE  f \in touched'
    <3>1. CASE tree.parent[f] \in P
      BY <1>3, <1>5, <2>10, <3>1 DEF Descended
    <3>2. CASE tree.parent[f] = d
      BY <2>5, <2>10, <3>2
    <3> QED BY <2>10, <3>1, <3>2
  <2>11. Descended(level, P \cup {d})'
    BY <1>1, <2>7, <2>8, <2>9, <2>10, SameLevels DEF Descended
  <2> QED BY <2>11
<1> QED BY <1>6, <1>7

\* When nothing is ahead, nothing was left out.
LEMMA NothingAhead ==
  ASSUME tree \in Trees, NEW level \in [Nodes -> Nat], NEW P, Descended(level, P), ahead = {}
  PROVE  AllTouched
<1>1. Folder \in P
  BY DEF Descended
<1> DEFINE X == {d \in Dirs : InFolder(d) /\ d \notin P}
<1>2. ASSUME X # {} PROVE FALSE
  <2>1. X \in SUBSET Nodes
    BY DEF Nodes
  <2>2. PICK d \in X : tree.parent[d] \notin X
    BY <1>2, <2>1, TreeTypes
  <2>3. d \in Dirs \ {Folder} /\ d \in Nodes /\ InFolder(d) /\ d \notin P
    BY <1>1, <2>1, <2>2
  <2>4. tree.parent[d] \in Dirs /\ InFolder(tree.parent[d])
    BY <2>3, ParentInside
  <2>5. tree.parent[d] \in P
    BY <2>2, <2>4
  <2> QED BY <2>3, <2>5 DEF Descended
<1>3. \A d \in Dirs : InFolder(d) => d \in touched /\ d \in P
  BY <1>2 DEF Descended
<1>4. ASSUME NEW f \in Files, InFolder(f) PROVE f \in touched
  <2>1. f \in Nodes /\ f # Folder
    BY TreesAssumption DEF Nodes
  <2>2. tree.parent[f] \in P
    BY <1>3, <1>4, <2>1, ParentInside
  <2> QED BY <1>4, <2>2 DEF Descended
<1> QED BY <1>3, <1>4 DEF AllTouched

LEMMA PassStep == AllAcceptable /\ BorderInv /\ PassInv /\ [BorderNext]_border => PassInv'
<1> SUFFICES ASSUME AllAcceptable, BorderInv, PassInv, [BorderNext]_border PROVE PassInv'
  OBVIOUS
<1>1. CASE PassEnds
  <2>1. /\ tree \in Trees /\ UNCHANGED <<tree, touched>> /\ doing = "walk" /\ ahead = {}
        /\ doing' = "idle"
    BY <1>1 DEF AllAcceptable, PassEnds
  <2>2. ASSUME Shallow PROVE AllTouched
    <3>1. PICK level \in [Nodes -> Nat] : Levels(level)
      BY <2>2 DEF Shallow
    <3>2. PICK P : Descended(level, P)
      BY <2>1, <3>1 DEF PassInv
    <3> QED BY <2>1, <3>2, NothingAhead
  <2>3. AllTouched' <=> AllTouched
    BY <2>1, SameLevels DEF AllTouched
  <2> QED BY <2>1, <2>2, <2>3, SameLevels DEF PassInv
<1>2. CASE UNCHANGED <<tree, ahead, touched>> /\ (doing' = doing \/ (doing # "walk" /\ doing' # "walk"))
  <2>1. AllTouched' <=> AllTouched
    BY <1>2, SameLevels DEF AllTouched
  <2>2. \A level, P : Descended(level, P)' <=> Descended(level, P)
    BY <1>2, SameLevels DEF Descended
  <2> QED BY <1>2, <2>1, <2>2, SameLevels DEF PassInv
<1>3. CASE Join \/ Check \/ \E p \in Requests : Resolves(p)
  <2>1. UNCHANGED <<tree, ahead, touched>> /\ doing # "walk" /\ doing' # "walk"
    BY <1>3 DEF Join, Check, Resolves
  <2> QED BY <1>2, <2>1
<1>4. CASE UNCHANGED border
  BY <1>2, <1>4 DEF border
<1> QED BY <1>1, <1>3, <1>4, PassDescends DEF BorderNext

\* The objects that are found in S under a name that equals c but for case.
NextNamed(S, c) ==
  {x \in Nodes : \E y \in S : tree.parent[x] = Real(y) /\ NameEqFold(tree.name[x], c)}

LEMMA NamedIs ==
  ASSUME request \in Seq(Seq(Chars)), Folder \in Nodes
  PROVE  /\ Named[0] = {Folder}
         /\ \A k \in 1..Len(request) : Named[k] = NextNamed(Named[k - 1], request[k])
<1> DEFINE A == SUBSET Nodes
           n == Len(request)
           step == [k \in Nat |-> [S \in A |-> NextNamed(S, request[k + 1])]]
           found[k \in 0..n] ==
             IF k = 0 THEN {Folder}
             ELSE {x \in Nodes : \E y \in found[k - 1] :
                     /\ tree.parent[x] = Real(y)
                     /\ NameEqFold(tree.name[x], request[k])}
<1>1. n \in Nat /\ {Folder} \in A
  OBVIOUS
<1>2. step \in [Nat -> [A -> A]]
  BY DEF NextNamed
<1>3. PICK g \in [0..n -> A] : g[0] = {Folder} /\ \A k \in 1..n : g[k] = step[k - 1][g[k - 1]]
  <2> HIDE DEF A, n, step
  <2>1. Iterates(A, {Folder}, step, n)
    BY <1>1, <1>2, NatRecursion
  <2> QED BY <2>1 DEF Iterates
<1>4. ASSUME NEW k \in 0..n
      PROVE  g[k] = IF k = 0 THEN {Folder} ELSE NextNamed(g[k - 1], request[k])
  <2> HIDE DEF n
  <2>1. CASE k # 0
    <3>1. k \in 1..n /\ k - 1 \in Nat /\ k - 1 \in 0..n /\ (k - 1) + 1 = k
      BY <1>1, <2>1
    <3>2. g[k] = step[k - 1][g[k - 1]] /\ g[k - 1] \in A
      BY <1>3, <3>1
    <3>3. step[k - 1][g[k - 1]] = NextNamed(g[k - 1], request[k])
      <4> HIDE DEF A
      <4> QED BY <3>1, <3>2
    <3> QED BY <2>1, <3>2, <3>3
  <2> QED BY <1>3, <2>1
<1>5. g = [k \in 0..n |-> IF k = 0 THEN {Folder} ELSE NextNamed(g[k - 1], request[k])]
  <2>1. g = [k \in 0..n |-> g[k]]
    BY <1>3
  <2> QED BY <2>1, <1>4, Zenon
<1>6. found = [k \in 0..n |-> IF k = 0 THEN {Folder} ELSE NextNamed(found[k - 1], request[k])]
  BY <1>5 DEF NextNamed
<1>7. Named = found
  BY DEF Named
<1> HIDE DEF found
<1>8. Named = [k \in 0..n |-> IF k = 0 THEN {Folder} ELSE NextNamed(Named[k - 1], request[k])]
  BY <1>6, <1>7
<1>9. 0 \in 0..n /\ \A k \in 1..n : k \in 0..n /\ k # 0
  BY <1>1
<1> QED BY <1>8, <1>9, Zenon

\* Where no two names differ in case only, a path names one object at most.
LEMMA NamesOne ==
  ASSUME tree \in Trees, request \in Seq(Seq(Chars)), Unambiguous,
         NEW k \in 0..Len(request), NEW x \in Named[k], NEW y \in Named[k]
  PROVE  x = y
<1> DEFINE T == {i \in 0..Len(request) : \E a, b \in Named[i] : a # b}
<1>1. ASSUME T # {} PROVE FALSE
  <2>1. T \in SUBSET Nat
    OBVIOUS
  <2>2. PICK i \in T : \A j \in T : i <= j
    <3> HIDE DEF T
    <3> QED BY <1>1, <2>1, LeastNat
  <2>3. PICK a \in Named[i], b \in Named[i] : a # b
    BY <2>2
  <2>4. i # 0 /\ i \in 1..Len(request) /\ Named[i] = NextNamed(Named[i - 1], request[i])
    BY <2>2, <2>3, NamedIs, TreesAssumption DEF Nodes
  <2>5. PICK a0 \in Named[i - 1] : tree.parent[a] = Real(a0) /\ NameEqFold(tree.name[a], request[i])
    BY <2>3, <2>4 DEF NextNamed
  <2>6. PICK b0 \in Named[i - 1] : tree.parent[b] = Real(b0) /\ NameEqFold(tree.name[b], request[i])
    BY <2>3, <2>4 DEF NextNamed
  <2>7. i - 1 \in 0..Len(request) /\ ~(i <= i - 1)
    BY <2>4
  <2>8. a0 = b0
    BY <2>2, <2>5, <2>6, <2>7
  <2>9. NameEqFold(tree.name[a], tree.name[b])
    BY <2>5, <2>6 DEF NameEqFold
  <2>10. a \in Nodes /\ b \in Nodes
    BY <2>3, <2>4 DEF NextNamed
  <2> QED BY <2>3, <2>5, <2>6, <2>8, <2>9, <2>10 DEF Unambiguous
<1> QED BY <1>1

\* What is named is found through something at every component.
LEMMA NamedThrough ==
  ASSUME request \in Seq(Seq(Chars)), Folder \in Nodes, Named[Len(request)] # {},
         NEW k \in 0..Len(request)
  PROVE  Named[k] # {}
<1> DEFINE n == Len(request)
           T == {j \in 0..n : Named[n - j] = {}}
<1>1. n \in Nat
  OBVIOUS
<1>2. ASSUME T # {} PROVE FALSE
  <2>1. T \in SUBSET Nat
    OBVIOUS
  <2>2. PICK j \in T : \A i \in T : j <= i
    <3> HIDE DEF T
    <3> QED BY <1>2, <2>1, LeastNat
  <2>3. j \in 0..n /\ Named[n - j] = {}
    BY <2>2
  <2>4. j # 0
    <3>1. n - 0 = n
      BY <1>1
    <3> QED BY <2>3, <3>1
  <2>5. j - 1 \in 0..n /\ ~(j <= j - 1) /\ n - (j - 1) \in 1..n /\ (n - (j - 1)) - 1 = n - j
    BY <1>1, <2>3, <2>4
  <2>6. Named[n - (j - 1)] # {}
    BY <2>2, <2>5
  <2>7. Named[n - (j - 1)] = NextNamed(Named[(n - (j - 1)) - 1], request[n - (j - 1)])
    <3> HIDE DEF T
    <3> QED BY <2>5, NamedIs
  <2>8. NextNamed({}, request[n - (j - 1)]) = {}
    BY DEF NextNamed
  <2> QED BY <2>3, <2>5, <2>6, <2>7, <2>8
<1>3. n - k \in 0..n /\ n - (n - k) = k
  BY <1>1
<1> QED BY <1>2, <1>3

\* The guest's path is within the bounds, and x, which it names, is reached
\* without leaving the folder.
Plain(x) ==
  /\ Unambiguous /\ request # <<>>
  /\ x \in Named[Len(request)]
  /\ \A k \in 1..Len(request) : ComponentOk(request[k])
  /\ RelLen(request) <= MaxPath
  /\ \A k \in 1..Len(request) - 1 : \A y \in Named[k] : InFolder(Real(y))
  /\ Real(x) # NoNode => InFolder(Real(x))

\* What is joined so far is the name of what the path names so far.
OnTheWay ==
  /\ Len(joined) <= Len(request)
  /\ joined = <<>> => at = Folder
  /\ joined # <<>> => /\ at \in Named[Len(joined)]
                      /\ above \in Named[Len(joined) - 1]
                      /\ joined[Len(joined)] = tree.name[at]

PathInv ==
  /\ doing \in {"walk", "idle"} => at = Folder
  /\ doing = "join" => \A x : Plain(x) => OnTheWay
  /\ doing \in {"answered", "refused"} =>
       \A x : Plain(x) => doing = "answered" /\ Entry(outcome.dir, outcome.leaf) = {x}

LEMMA SamePath ==
  ASSUME UNCHANGED <<tree, request>>
  PROVE  Named' = Named /\ \A x : Plain(x)' <=> Plain(x)
<1>1. \A x : Real(x)' = Real(x)
  BY SamePlaces
<1>2. Named' = Named
  BY DEF Named, Real
<1>3. Unambiguous' <=> Unambiguous
  BY DEF Unambiguous
<1> QED BY <1>1, <1>2, <1>3, SameLevels DEF Plain

LEMMA PathStart == BorderInit => PathInv
BY DEF BorderInit, PathInv

LEMMA PathResolves ==
  ASSUME AllAcceptable, BorderInv, PathInv, NEW p \in Requests, Resolves(p)
  PROVE  PathInv'
<1>1. /\ request' = p /\ at' = Folder /\ joined' = <<>>
      /\ p \in Seq(Seq(Chars))
  BY TreesAssumption DEF Resolves, PathInv, BorderInv
<1>2. CASE p = <<>>
  BY <1>1, <1>2 DEF Resolves, PathInv, Plain
<1>3. CASE p # <<>> /\ RelLen(p) <= MaxPath
  <2>1. doing' = "join"
    BY <1>3 DEF Resolves
  <2>2. OnTheWay'
    BY <1>1 DEF OnTheWay
  <2> QED BY <2>1, <2>2 DEF PathInv
<1>4. CASE p # <<>> /\ ~(RelLen(p) <= MaxPath)
  <2>1. doing' = "refused"
    BY <1>4 DEF Resolves
  <2>2. RelLen(request)' = RelLen(p)
    BY <1>1 DEF RelLen
  <2> QED BY <1>4, <2>1, <2>2 DEF PathInv, Plain
<1> QED BY <1>2, <1>3, <1>4

\* Where the path stands: what it names so far is at, which leads into the
\* folder unless it is the last.
LEMMA Standing ==
  ASSUME tree \in Trees, request \in Seq(Seq(Chars)), NEW x, Plain(x),
         joined \in Seq(Seq(Chars)), OnTheWay
  PROVE  /\ Folder \in Nodes
         /\ at \in Named[Len(joined)]
         /\ Len(joined) < Len(request) => InFolder(Real(at))
<1>1. Folder \in Nodes /\ Folder \notin Links /\ Folder # NoNode
  BY TreesAssumption DEF Nodes
<1>2. at \in Named[Len(joined)]
  BY <1>1, NamedIs DEF OnTheWay
<1>3. Named[0] = {Folder}
  BY <1>1, NamedIs
<1>4. ASSUME Len(joined) < Len(request) PROVE InFolder(Real(at))
  <2>1. CASE joined = <<>>
    <3>1. Real(at) = Folder
      BY <1>1, <2>1, RealType DEF OnTheWay
    <3> QED BY <1>1, <3>1, InsideIs DEF InFolder
  <2>2. CASE joined # <<>>
    <3>1. Len(joined) \in 1..Len(request) - 1
      BY <1>4, <2>2
    <3> QED BY <1>2, <3>1 DEF Plain
  <2> QED BY <2>1, <2>2
<1> QED BY <1>1, <1>2, <1>4

\* The next component names one entry of that directory, and match_fold() finds
\* that one and no other.
LEMMA JoinNamed ==
  ASSUME tree \in Trees, request \in Seq(Seq(Chars)), NEW x, Plain(x),
         joined \in Seq(Seq(Chars)), OnTheWay, Len(joined) < Len(request), at \in Nodes
  PROVE  /\ ComponentOk(request[Len(joined) + 1])
         /\ \E y \in Named[Len(joined) + 1] :
              /\ OnDisk(Real(at), request[Len(joined) + 1]) = {tree.name[y]}
              /\ Real(at) \in Dirs /\ Entry(Real(at), tree.name[y]) = {y}
<1> DEFINE m == Len(joined)
           c == request[m + 1]
           d == Real(at)
<1>1. m \in Nat /\ m + 1 \in 1..Len(request) /\ (m + 1) - 1 = m /\ m + 1 \in 0..Len(request)
      /\ m \in 0..Len(request) /\ c \in Seq(Chars)
  OBVIOUS
<1>2. Folder \in Nodes /\ at \in Named[m] /\ InFolder(d)
  BY Standing
<1>3. ComponentOk(c)
  BY <1>1 DEF Plain
<1>4. Named[m + 1] # {}
  BY <1>1, <1>2, NamedThrough DEF Plain
<1>5. Named[m + 1] = NextNamed(Named[m], c)
  <2>1. Named[m + 1] = NextNamed(Named[(m + 1) - 1], c)
    BY <1>1, <1>2, NamedIs
  <2> QED BY <1>1, <2>1
<1>6. PICK y \in Named[m + 1] : TRUE
  BY <1>4
<1>7. PICK y0 \in Named[m] : tree.parent[y] = Real(y0) /\ NameEqFold(tree.name[y], c)
  BY <1>5, <1>6 DEF NextNamed
<1>8. y0 = at /\ y \in Nodes /\ tree.parent[y] = d
  <2>1. Unambiguous
    BY DEF Plain
  <2> HIDE DEF m
  <2>2. y0 = at
    BY <1>1, <1>2, <1>7, <2>1, NamesOne
  <2> QED BY <1>5, <1>6, <1>7, <2>2 DEF NextNamed
<1>9. d \in Nodes /\ d \in Dirs
  <2>1. d # NoNode
    BY <1>2 DEF InFolder
  <2> QED BY <1>8, <2>1, TreeTypes
<1>10. UnderRoot(d)
  BY <1>2, <1>9, InsideIsUnderRoot
\* Whatever entry equals the component but for case is y.
<1>11. ASSUME NEW z \in Nodes, tree.parent[z] = d, NameEqFold(tree.name[z], c) PROVE z = y
  <2>1. NameEqFold(tree.name[z], tree.name[y])
    BY <1>7, <1>11 DEF NameEqFold
  <2> QED BY <1>8, <1>11, <2>1 DEF Plain, Unambiguous
<1>12. NameEqFold(c, c)
  BY DEF NameEqFold
<1>13. Entry(d, tree.name[y]) = {y}
  <2>1. y \in Entry(d, tree.name[y])
    BY <1>8 DEF Entry, Entries
  <2> QED BY <2>1, OneEntry
<1> DEFINE matches == {tree.name[z] : z \in {v \in Entries(d) : NameEqFold(tree.name[v], c)}}
<1>14. matches = {tree.name[y]}
  <2>1. {v \in Entries(d) : NameEqFold(tree.name[v], c)} = {y}
    <3> HIDE DEF d, c
    <3> QED BY <1>7, <1>8, <1>11 DEF Entries
  <2> QED BY <2>1
<1>15. OnDisk(d, c) = {tree.name[y]}
  <2>1. CASE Entry(d, c) = {}
    BY <1>9, <1>10, <1>14, <2>1 DEF OnDisk
  <2>2. CASE Entry(d, c) # {}
    <3>1. PICK z \in Entry(d, c) : TRUE
      BY <2>2
    <3>2. z \in Nodes /\ tree.parent[z] = d /\ tree.name[z] = c
      BY <3>1 DEF Entry, Entries
    <3>3. z = y
      BY <1>11, <1>12, <3>2
    <3> QED BY <2>2, <3>2, <3>3 DEF OnDisk
  <2> QED BY <2>1, <2>2
<1> QED BY <1>3, <1>6, <1>9, <1>13, <1>15

LEMMA PathJoins ==
  ASSUME AllAcceptable, BorderInv, PathInv, Join
  PROVE  PathInv'
<1>1. /\ tree \in Trees /\ request \in Seq(Seq(Chars)) /\ joined \in Seq(Seq(Chars))
      /\ doing = "join" /\ Len(joined) < Len(request)
      /\ UNCHANGED <<tree, request, outcome>>
      /\ doing' \in {"join", "refused"}
  BY DEF AllAcceptable, Join
<1>2. SUFFICES ASSUME NEW x, Plain(x) PROVE doing' = "join" /\ OnTheWay'
  BY <1>1, SamePath DEF PathInv
<1>3. OnTheWay
  BY <1>1, <1>2 DEF PathInv
<1> DEFINE m == Len(joined)
           c == request[m + 1]
           d == Real(at)
<1>4. at \in Named[m] /\ InFolder(d) /\ Folder \in Nodes
  BY <1>1, <1>2, <1>3, Standing
<1>5. at \in Nodes
  <2>1. CASE m = 0
    BY <1>1, <1>3, <1>4, <2>1 DEF OnTheWay
  <2>2. CASE m # 0
    <3>1. m \in 1..Len(request)
      BY <1>1, <2>2
    <3>2. Named[m] = NextNamed(Named[m - 1], request[m])
      BY <1>1, <1>4, <3>1, NamedIs
    <3> QED BY <1>4, <3>2 DEF NextNamed
  <2> QED BY <2>1, <2>2
<1>6. PICK y \in Named[m + 1] :
        /\ OnDisk(d, c) = {tree.name[y]}
        /\ d \in Dirs /\ Entry(d, tree.name[y]) = {y}
  BY <1>1, <1>2, <1>3, <1>5, JoinNamed
<1>7. ComponentOk(c)
  BY <1>1, <1>2, <1>3, <1>5, JoinNamed
<1>8. /\ doing' = "join" /\ joined' = Append(joined, tree.name[y]) /\ above' = at
      /\ at' = CHOOSE z \in Entry(d, tree.name[y]) : TRUE
  BY <1>1, <1>6, <1>7 DEF Join
<1>9. at' = y
  BY <1>6, <1>8
<1>10. Len(joined') = m + 1 /\ joined'[m + 1] = tree.name[y] /\ joined' # <<>> /\ (m + 1) - 1 = m
       /\ m + 1 <= Len(request)
  BY <1>1, <1>8
<1>11. Named' = Named /\ tree' = tree /\ request' = request
  BY <1>1, SamePath
<1>12. OnTheWay'
  <2> HIDE DEF m, c, d
  <2> QED BY <1>4, <1>6, <1>8, <1>9, <1>10, <1>11 DEF OnTheWay
<1> QED BY <1>8, <1>12

LEMMA PathChecked ==
  ASSUME AllAcceptable, BorderInv, PathInv, Check
  PROVE  PathInv'
<1>1. /\ tree \in Trees /\ request \in Seq(Seq(Chars)) /\ joined \in Seq(Seq(Chars))
      /\ doing = "join" /\ Len(joined) = Len(request) /\ request # <<>>
      /\ UNCHANGED <<tree, request>>
      /\ doing' \in {"answered", "refused"}
  BY DEF AllAcceptable, BorderInv, Check
<1>2. SUFFICES ASSUME NEW x, Plain(x)
               PROVE  doing' = "answered" /\ Entry(outcome'.dir, outcome'.leaf) = {x}
  <2>1. \A d, n : Entry(d, n)' = Entry(d, n)
    BY <1>1, SamePlaces
  <2> QED BY <1>1, <2>1, SamePath DEF PathInv
<1>3. OnTheWay
  BY <1>1, <1>2 DEF PathInv
<1> DEFINE n == Len(request)
<1>4. /\ n \in 1..n /\ n \in 0..n /\ n - 1 \in 0..n /\ joined # <<>>
      /\ n # 1 => n - 1 \in 1..n - 1
  BY <1>1
<1>5. Folder \in Nodes /\ Folder \notin Links /\ Folder # NoNode /\ Folder \in Named[0] /\ Unambiguous
  BY <1>1, <1>2, NamedIs, TreesAssumption DEF Nodes, Plain
<1>6. at \in Named[n] /\ above \in Named[n - 1] /\ joined[n] = tree.name[at]
  BY <1>1, <1>3, <1>4 DEF OnTheWay
<1>7. at = x
  BY <1>1, <1>2, <1>4, <1>5, <1>6, NamesOne DEF Plain
<1>8. Named[n] = NextNamed(Named[n - 1], request[n])
  BY <1>1, <1>4, <1>5, NamedIs
<1>9. PICK y \in Named[n - 1] : tree.parent[x] = Real(y)
  BY <1>6, <1>7, <1>8 DEF NextNamed
<1>10. x \in Nodes /\ tree.parent[x] = Real(above)
  <2>1. y = above
    BY <1>1, <1>4, <1>5, <1>6, <1>9, NamesOne
  <2> QED BY <1>6, <1>7, <1>8, <1>9, <2>1 DEF NextNamed
<1>11. InFolder(Real(above))
  <2>1. CASE n = 1
    <3>1. above = Folder
      BY <1>1, <1>5, <1>6, <2>1, NamedIs
    <3>2. Real(above) = Folder
      BY <1>1, <1>5, <3>1, RealType
    <3> QED BY <1>1, <1>5, <3>2, InsideIs DEF InFolder
  <2>2. CASE n # 1
    <3> QED BY <1>2, <1>4, <1>6, <2>2 DEF Plain
  <2> QED BY <2>1, <2>2
<1>12. UnderRoot(Real(above))
  <2>1. Real(above) \in Nodes
    <3>1. above \in Nodes \cup {NoNode}
      BY DEF BorderInv
    <3> QED BY <1>1, <1>11, <3>1, RealType DEF InFolder
  <2> QED BY <1>1, <1>11, <2>1, InsideIsUnderRoot
<1>13. Real(at) # NoNode => UnderRoot(Real(at))
  <2>1. Real(x) \in Nodes \cup {NoNode}
    BY <1>1, <1>10, RealType
  <2>2. Real(x) # NoNode => InFolder(Real(x))
    BY <1>2 DEF Plain
  <2> QED BY <1>1, <1>7, <2>1, <2>2, InsideIsUnderRoot
<1>14. doing' = "answered" /\ outcome' = [dir |-> Real(above), leaf |-> joined[Len(joined)]]
  BY <1>12, <1>13 DEF Check
<1>15. outcome'.dir = Real(above) /\ outcome'.leaf = tree.name[x]
  BY <1>1, <1>6, <1>7, <1>14
<1>16. Entry(Real(above), tree.name[x]) = {x}
  <2>1. x \in Entry(Real(above), tree.name[x])
    BY <1>10 DEF Entry, Entries
  <2> QED BY <1>1, <2>1, OneEntry
<1> QED BY <1>14, <1>15, <1>16

LEMMA PathStep == AllAcceptable /\ BorderInv /\ PathInv /\ [BorderNext]_border => PathInv'
<1> SUFFICES ASSUME AllAcceptable, BorderInv, PathInv, [BorderNext]_border PROVE PathInv'
  OBVIOUS
<1>1. CASE PassEnds \/ (\E d \in Dirs, depth \in 0..MaxDepth + 1 : Descend(d, depth))
  BY <1>1 DEF PassEnds, Descend, PathInv
<1>2. CASE UNCHANGED border
  <2>1. UNCHANGED <<tree, doing, request, joined, above, at, outcome>>
    BY <1>2 DEF border
  <2>2. (\A d, n : Entry(d, n)' = Entry(d, n)) /\ (\A x : Plain(x)' <=> Plain(x)) /\ Named' = Named
    BY <2>1, SamePlaces, SamePath
  <2>3. OnTheWay' <=> OnTheWay
    BY <2>1, <2>2 DEF OnTheWay
  <2> QED BY <2>1, <2>2, <2>3 DEF PathInv
<1> QED BY <1>1, <1>2, PathResolves, PathJoins, PathChecked DEF BorderNext

\* The border refuses nothing that is inside, for any tree that is no deeper
\* than MaxDepth: where no two names differ in case only, resolve_path() reaches
\* what an acceptable path names in any spelling, through any links that stay in
\* the folder, and make_writable() has reached every object before it.
THEOREM InsideIsReached == BorderSpec => [](Shallow => Reaches)
<1>1. AllAcceptable /\ PassInv /\ PathInv => (Shallow => Reaches)
  BY DEF PassInv, AllTouched, PathInv, Plain, Reaches
<1> QED BY <1>1, BorderStart, BorderStep, AcceptableStart, AcceptableStep, PassStart, PassStep,
           PathStart, PathStep, PTL DEF BorderSpec
==============================================================================
