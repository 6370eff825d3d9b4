--------------------------- MODULE ClientsProofs ---------------------------
(***************************************************************************)
(* The programs that make synced calls, one at a time at the end of any    *)
(* connection, keep the promise of Calls.  The invariant says where the    *)
(* call that is being made is: in the frame that asks for it, in the box   *)
(* of the task that works on it, or in the result that answers it, and in  *)
(* no two places.  A second invariant, over the first, follows the items   *)
(* of the answer, also those that fcat, fdir and fstat print.  A third,    *)
(* over both, keeps what the program knows of the calls it has made, for   *)
(* its exit status; a fourth the session's table of open files and the     *)
(* descriptors that the program has used up; a fifth, over the first       *)
(* alone, the rows of display's image; and the last, over the fourth, what *)
(* every variable holds, which for the window is the credit of the data    *)
(* and the acks that are under way.                                        *)
(***************************************************************************)
EXTENDS Clients, FiniteSetTheorems, SequenceTheorems, TLAPS

IsSeq(s) == s \in Seq({s[k] : k \in DOMAIN s})

\* What the program has yet to handle.
Answers == rcvd \o toClient

OnlyAcks(n) == \A k \in 1 .. n : toServer[k].type = "ack"
NoResult(n) == \A k \in 1 .. n : Answers[k].type # "result"
NoTask      == \A i \in Ids : box[i].op # "read"

Basic ==
  /\ IsSeq(rcvd) /\ IsSeq(toClient) /\ IsSeq(toServer) /\ IsSeq(served)
  /\ script \in Seq(Made) /\ step \in 0 .. Len(script)
  /\ DOMAIN box = Ids /\ ended \in BOOLEAN
  /\ (pc = "exited") = (exit # "none")
  /\ pc = "read" => step < Len(script)
  /\ pc \in {"status", "wait", "block", "threads", "clicks"} => step = Len(script)
  /\ pc \in {"status", "wait"} => program # "buttonDemo"

\* No call is being made.
Idle ==
  /\ pc \notin {"read", "clicks"} /\ Len(served) = step
  /\ OnlyAcks(Len(toServer)) /\ NoTask /\ Answers = <<>>

\* The session has yet to read the request.
Asked ==
  /\ pc = "read" /\ ~ended /\ Len(served) = step
  /\ Answers = <<>> /\ NoTask
  /\ toServer # <<>> /\ OnlyAcks(Len(toServer) - 1)
  /\ toServer[Len(toServer)].type = "request" /\ toServer[Len(toServer)].id = 0
  /\ toServer[Len(toServer)].call = script[step + 1]

\* A task works on it.
Working ==
  /\ pc = "read" /\ ~ended /\ Len(served) = step
  /\ OnlyAcks(Len(toServer)) /\ NoResult(Len(Answers))
  /\ box[0] = script[step + 1] /\ box[0].op = "read" /\ box[1].op # "read"

\* The result is the last frame under way.
Answered ==
  /\ pc = "read" /\ Len(served) = step + 1
  /\ OnlyAcks(Len(toServer)) /\ NoTask
  /\ Answers # <<>> /\ NoResult(Len(Answers) - 1)
  /\ Answers[Len(Answers)].type = "result"
  /\ served[step + 1].ok = (Answers[Len(Answers)].value = Ok)

\* button-demo is past its script.
Beyond ==
  /\ pc \in {"clicks", "exited"} /\ program = "buttonDemo"
  /\ step = Len(script) /\ step <= Len(served)

\* The session is over, and the result lost.
CutOff == ended /\ NoTask /\ (pc = "exited" \/ NoResult(Len(Answers)))

Phase == Idle \/ Asked \/ Working \/ Answered \/ Beyond \/ CutOff

CallInv ==
  /\ IsTool => script = <<>> /\ step = 0
  /\ ~IsTool => Basic /\ Phase

----------------------------------------------------------------------------
(* Sequences of whatever there is in them.                                 *)

LEMMA SeqOfAny ==
  ASSUME NEW S, NEW s \in Seq(S)
  PROVE  IsSeq(s)
<1> DEFINE R == {s[k] : k \in DOMAIN s}
<1>1. Len(s) \in Nat /\ s \in [1 .. Len(s) -> S] /\ DOMAIN s = 1 .. Len(s)
  BY LenProperties
<1>2. s \in [1 .. Len(s) -> R]
  BY <1>1
<1>3. s \in Seq(R)
  BY <1>1, <1>2, SeqDef
<1> QED
  BY <1>3 DEF IsSeq

LEMMA SeqWidens ==
  ASSUME NEW s, IsSeq(s)
  PROVE  /\ Len(s) \in Nat /\ DOMAIN s = 1 .. Len(s)
         /\ \A T : {s[k] : k \in DOMAIN s} \subseteq T => s \in Seq(T)
         /\ s = <<>> <=> Len(s) = 0
<1> DEFINE R == {s[k] : k \in DOMAIN s}
<1>1. s \in Seq(R)
  BY DEF IsSeq
<1> HIDE DEF R
<1>2. Len(s) \in Nat /\ DOMAIN s = 1 .. Len(s)
  BY <1>1, LenProperties
<1>3. \A T : R \subseteq T => s \in Seq(T)
  BY <1>1, SeqMonotonic
<1>4. s = <<>> <=> Len(s) = 0
  BY <1>1, EmptySeq
<1> QED
  BY <1>2, <1>3, <1>4 DEF R

LEMMA Joined ==
  ASSUME NEW s, IsSeq(s), NEW t, IsSeq(t)
  PROVE  /\ IsSeq(s \o t) /\ Len(s \o t) = Len(s) + Len(t)
         /\ \A k \in 1 .. Len(s) : (s \o t)[k] = s[k]
         /\ \A k \in 1 .. Len(t) : (s \o t)[Len(s) + k] = t[k]
<1> DEFINE U == {s[k] : k \in DOMAIN s} \cup {t[k] : k \in DOMAIN t}
<1>1. s \in Seq(U) /\ t \in Seq(U)
  BY SeqWidens
<1>2. Len(s) \in Nat /\ Len(t) \in Nat
  BY SeqWidens
<1> HIDE DEF U
<1>3. /\ s \o t \in Seq(U) /\ Len(s \o t) = Len(s) + Len(t)
      /\ \A k \in 1 .. Len(s) + Len(t) : (s \o t)[k] = IF k <= Len(s) THEN s[k] ELSE t[k - Len(s)]
  BY <1>1, ConcatProperties
<1>4. IsSeq(s \o t)
  BY <1>3, SeqOfAny
<1> QED
  BY <1>2, <1>3, <1>4

LEMMA One ==
  ASSUME NEW x
  PROVE  IsSeq(<<x>>) /\ Len(<<x>>) = 1 /\ <<x>>[1] = x
<1>1. <<x>> \in Seq({x})
  OBVIOUS
<1> QED
  BY <1>1, SeqOfAny

LEMMA Appended ==
  ASSUME NEW s, IsSeq(s), NEW x
  PROVE  /\ IsSeq(Append(s, x)) /\ Append(s, x) = s \o <<x>>
         /\ Len(Append(s, x)) = Len(s) + 1 /\ Len(s) \in Nat
         /\ Append(s, x)[Len(s) + 1] = x
         /\ \A k \in 1 .. Len(s) : Append(s, x)[k] = s[k]
<1> DEFINE one == <<x>>
<1>0. IsSeq(one)
  BY One
<1>1. Len(one) = 1 /\ one[1] = x
  BY One
<1>2. s \in Seq({s[k] : k \in DOMAIN s} \cup {x})
  BY SeqWidens
<1>3. Append(s, x) = s \o one
  BY <1>2
<1>4. Len(s) \in Nat
  BY SeqWidens
<1> HIDE DEF one
<1>5. /\ IsSeq(s \o one) /\ Len(s \o one) = Len(s) + Len(one)
      /\ \A k \in 1 .. Len(s) : (s \o one)[k] = s[k]
      /\ \A k \in 1 .. Len(one) : (s \o one)[Len(s) + k] = one[k]
  BY <1>0, Joined
<1>6. 1 \in 1 .. Len(one)
  BY <1>1
<1>7. (s \o one)[Len(s) + 1] = x
  BY <1>1, <1>5, <1>6
<1> QED
  BY <1>1, <1>3, <1>4, <1>5, <1>7

LEMMA None == IsSeq(<<>>) /\ Len(<<>>) = 0
<1>1. <<>> \in Seq({})
  OBVIOUS
<1> QED
  BY <1>1, SeqOfAny

LEMMA Tailed ==
  ASSUME NEW s, IsSeq(s), s # <<>>
  PROVE  /\ IsSeq(Tail(s)) /\ Len(Tail(s)) = Len(s) - 1 /\ Len(s) >= 1
         /\ Head(s) = s[1]
         /\ \A k \in 1 .. Len(s) - 1 : Tail(s)[k] = s[k + 1]
<1> DEFINE R == {s[k] : k \in DOMAIN s}
<1>1. s \in Seq(R)
  BY DEF IsSeq
<1> HIDE DEF R
<1>2. Len(s) \in Nat /\ Len(s) # 0
  BY SeqWidens
<1>3. /\ Tail(s) \in Seq(R) /\ Len(Tail(s)) = Len(s) - 1
      /\ \A k \in 1 .. Len(Tail(s)) : Tail(s)[k] = s[k + 1]
  BY <1>1, HeadTailProperties
<1>4. Head(s) = s[1]
  BY <1>1, <1>2
<1>5. IsSeq(Tail(s))
  BY <1>3, SeqOfAny
<1> QED
  BY <1>2, <1>3, <1>4, <1>5

LEMMA Begins ==
  ASSUME NEW s, IsSeq(s), NEW n \in 0 .. Len(s)
  PROVE  /\ IsSeq(SubSeq(s, 1, n)) /\ Len(SubSeq(s, 1, n)) = n
         /\ \A k \in 1 .. n : SubSeq(s, 1, n)[k] = s[k]
<1> DEFINE R == {s[k] : k \in DOMAIN s}
<1>1. Len(s) \in Nat /\ n \in Nat
  BY SeqWidens
<1>2. \A k \in 1 .. n : s[k] \in R
  BY <1>1, SeqWidens
<1> HIDE DEF R
<1>3. /\ SubSeq(s, 1, n) \in Seq(R)
      /\ Len(SubSeq(s, 1, n)) = IF 1 <= n THEN n - 1 + 1 ELSE 0
      /\ \A k \in 1 .. n - 1 + 1 : SubSeq(s, 1, n)[k] = s[1 + k - 1]
  BY <1>1, <1>2, SubSeqProperties
<1>4. IsSeq(SubSeq(s, 1, n))
  BY <1>3, SeqOfAny
<1> QED
  BY <1>1, <1>3, <1>4

LEMMA Split ==
  ASSUME NEW s, IsSeq(s), NEW n \in 0 .. Len(s)
  PROVE  IsSeq(SubSeq(s, n + 1, Len(s))) /\ SubSeq(s, 1, n) \o SubSeq(s, n + 1, Len(s)) = s
<1> DEFINE R == {s[k] : k \in DOMAIN s}
<1>1. s \in Seq(R)
  BY DEF IsSeq
<1>2. Len(s) \in Nat /\ n \in Nat /\ DOMAIN s = 1 .. Len(s)
  BY SeqWidens
<1>3. \A k \in n + 1 .. Len(s) : s[k] \in R
  BY <1>2
<1> HIDE DEF R
<1>4. SubSeq(s, n + 1, Len(s)) \in Seq(R)
  BY <1>2, <1>3, SubSeqProperties
<1>5. 1 \in 1 .. Len(s) + 1 /\ n \in 1 - 1 .. Len(s) /\ Len(s) \in n .. Len(s)
  BY <1>2
<1>6. SubSeq(s, 1, n) \o SubSeq(s, n + 1, Len(s)) = SubSeq(s, 1, Len(s))
  BY <1>1, <1>5, ConcatAdjacentSubSeq
<1>7. SubSeq(s, 1, Len(s)) = s
  BY <1>1, SubSeqFull
<1> QED
  BY <1>4, <1>6, <1>7, SeqOfAny

----------------------------------------------------------------------------
(* What a step does to the frames the program has yet to handle.           *)

LEMMA AnswersAre ==
  ASSUME IsSeq(rcvd), IsSeq(toClient)
  PROVE  /\ IsSeq(Answers) /\ Len(Answers) = Len(rcvd) + Len(toClient)
         /\ Len(rcvd) \in Nat /\ Len(toClient) \in Nat /\ Len(Answers) \in Nat
         /\ Answers = <<>> <=> rcvd = <<>> /\ toClient = <<>>
         /\ rcvd # <<>> => Answers # <<>> /\ Len(Answers) >= 1 /\ Head(rcvd) = Answers[1]
<1>1. /\ IsSeq(Answers) /\ Len(Answers) = Len(rcvd) + Len(toClient)
      /\ \A k \in 1 .. Len(rcvd) : Answers[k] = rcvd[k]
  BY Joined DEF Answers
<1>2. Len(rcvd) \in Nat /\ Len(toClient) \in Nat /\ Len(Answers) \in Nat
  BY <1>1, SeqWidens
<1>3. /\ Answers = <<>> <=> Len(Answers) = 0
      /\ rcvd = <<>> <=> Len(rcvd) = 0
      /\ toClient = <<>> <=> Len(toClient) = 0
  BY <1>1, SeqWidens
<1>4. rcvd # <<>> => Len(rcvd) >= 1 /\ Head(rcvd) = rcvd[1]
  BY Tailed
<1> QED
  BY <1>1, <1>2, <1>3, <1>4

LEMMA AnswerTaken ==
  ASSUME IsSeq(rcvd), IsSeq(toClient), rcvd # <<>>, rcvd' = Tail(rcvd), toClient' = toClient
  PROVE  /\ IsSeq(rcvd') /\ Len(Answers') = Len(Answers) - 1
         /\ \A k \in 1 .. Len(Answers) - 1 : Answers'[k] = Answers[k + 1]
<1>1. /\ IsSeq(rcvd') /\ Len(rcvd') = Len(rcvd) - 1 /\ Len(rcvd) >= 1
      /\ \A k \in 1 .. Len(rcvd) - 1 : rcvd'[k] = rcvd[k + 1]
  BY Tailed
<1>2. /\ Len(Answers) = Len(rcvd) + Len(toClient)
      /\ \A k \in 1 .. Len(rcvd) : Answers[k] = rcvd[k]
      /\ \A k \in 1 .. Len(toClient) : Answers[Len(rcvd) + k] = toClient[k]
  BY Joined DEF Answers
<1>3. /\ Len(Answers') = Len(rcvd') + Len(toClient)
      /\ \A k \in 1 .. Len(rcvd') : Answers'[k] = rcvd'[k]
      /\ \A k \in 1 .. Len(toClient) : Answers'[Len(rcvd') + k] = toClient[k]
  BY <1>1, Joined DEF Answers
<1>4. Len(rcvd) \in Nat /\ Len(toClient) \in Nat
  BY SeqWidens
<1>5. ASSUME NEW k \in 1 .. Len(Answers) - 1 PROVE Answers'[k] = Answers[k + 1]
  <2>1. CASE k <= Len(rcvd')
    BY <1>1, <1>2, <1>3, <1>4, <2>1
  <2>2. CASE k > Len(rcvd')
    <3> DEFINE j == k - Len(rcvd')
    <3>1. j \in 1 .. Len(toClient) /\ Len(rcvd') + j = k /\ Len(rcvd) + j = k + 1
      BY <1>1, <1>2, <1>4, <2>2
    <3> HIDE DEF j
    <3> QED
      BY <1>2, <1>3, <3>1
  <2> QED
    BY <1>1, <1>4, <2>1, <2>2
<1> QED
  BY <1>1, <1>2, <1>3, <1>4, <1>5

LEMMA AnswersDropped ==
  ASSUME IsSeq(rcvd), IsSeq(toClient), rcvd' = <<>>, toClient' = toClient
  PROVE  /\ IsSeq(rcvd') /\ Answers' = toClient
         /\ \A k \in 1 .. Len(Answers') : \E j \in 1 .. Len(Answers) : Answers'[k] = Answers[j]
<1>1. IsSeq(rcvd')
  BY None
<1>2. toClient \in Seq({toClient[k] : k \in DOMAIN toClient})
  BY DEF IsSeq
<1>3. Answers' = toClient
  BY <1>2, ConcatEmptySeq DEF Answers
<1>4. /\ Len(Answers) = Len(rcvd) + Len(toClient)
      /\ \A k \in 1 .. Len(toClient) : Answers[Len(rcvd) + k] = toClient[k]
  BY Joined DEF Answers
<1>5. Len(rcvd) \in Nat /\ Len(toClient) \in Nat
  BY SeqWidens
<1>6. ASSUME NEW k \in 1 .. Len(toClient)
      PROVE  \E j \in 1 .. Len(Answers) : toClient[k] = Answers[j]
  <2>1. Len(rcvd) + k \in 1 .. Len(Answers)
    BY <1>4, <1>5
  <2> QED
    BY <1>4, <2>1
<1> QED
  BY <1>1, <1>3, <1>6

LEMMA AnswersCome ==
  ASSUME IsSeq(rcvd), IsSeq(toClient), rcvd' = rcvd, NEW frames, IsSeq(frames),
         toClient' = toClient \o frames
  PROVE  /\ IsSeq(toClient') /\ Len(Answers') = Len(Answers) + Len(frames)
         /\ \A k \in 1 .. Len(Answers) : Answers'[k] = Answers[k]
         /\ \A k \in 1 .. Len(frames) : Answers'[Len(Answers) + k] = frames[k]
<1> DEFINE U == {rcvd[k] : k \in DOMAIN rcvd} \cup {toClient[k] : k \in DOMAIN toClient}
                \cup {frames[k] : k \in DOMAIN frames}
<1>1. rcvd \in Seq(U) /\ toClient \in Seq(U) /\ frames \in Seq(U)
  BY SeqWidens
<1> HIDE DEF U
<1>2. Answers' = Answers \o frames
  BY <1>1, ConcatAssociative, SMTT(30) DEF Answers
<1>3. IsSeq(Answers)
  BY Joined DEF Answers
<1>4. IsSeq(toClient')
  BY Joined
<1> QED
  BY <1>2, <1>3, <1>4, Joined

LEMMA AnswersLost ==
  ASSUME IsSeq(rcvd), IsSeq(toClient), rcvd' = rcvd, NEW n \in 0 .. Len(toClient),
         toClient' = SubSeq(toClient, 1, n)
  PROVE  /\ IsSeq(toClient') /\ Len(Answers') = Len(Answers) - (Len(toClient) - n)
         /\ \A k \in 1 .. Len(Answers') : Answers'[k] = Answers[k]
<1>1. /\ IsSeq(toClient') /\ Len(toClient') = n
      /\ \A k \in 1 .. n : toClient'[k] = toClient[k]
  BY Begins
<1>2. /\ Len(Answers) = Len(rcvd) + Len(toClient)
      /\ \A k \in 1 .. Len(rcvd) : Answers[k] = rcvd[k]
      /\ \A k \in 1 .. Len(toClient) : Answers[Len(rcvd) + k] = toClient[k]
  BY Joined DEF Answers
<1>3. /\ Len(Answers') = Len(rcvd) + n
      /\ \A k \in 1 .. Len(rcvd) : Answers'[k] = rcvd[k]
      /\ \A k \in 1 .. n : Answers'[Len(rcvd) + k] = toClient'[k]
  BY <1>1, Joined DEF Answers
<1>4. Len(rcvd) \in Nat /\ Len(toClient) \in Nat
  BY SeqWidens
<1>5. ASSUME NEW k \in 1 .. Len(Answers') PROVE Answers'[k] = Answers[k]
  <2>1. CASE k <= Len(rcvd)
    BY <1>2, <1>3, <1>4, <2>1
  <2>2. CASE k > Len(rcvd)
    <3> DEFINE j == k - Len(rcvd)
    <3>1. j \in 1 .. n /\ j \in 1 .. Len(toClient) /\ Len(rcvd) + j = k
      BY <1>3, <1>4, <2>2
    <3> HIDE DEF j
    <3> QED
      BY <1>1, <1>2, <1>3, <3>1
  <2> QED
    BY <1>3, <1>4, <2>1, <2>2
<1> QED
  BY <1>1, <1>2, <1>3, <1>4, <1>5

LEMMA AnswersRead ==
  ASSUME IsSeq(rcvd), IsSeq(toClient), Receive
  PROVE  IsSeq(rcvd') /\ IsSeq(toClient') /\ Answers' = Answers
<1>1. PICK n \in 1 .. Len(toClient) :
        /\ rcvd' = SubSeq(toClient, 1, n)
        /\ toClient' = SubSeq(toClient, n + 1, Len(toClient))
  BY DEF Receive
<1>2. n \in 0 .. Len(toClient)
  BY SeqWidens
<1>3. IsSeq(rcvd') /\ IsSeq(toClient') /\ Answers' = toClient
  BY <1>1, <1>2, Begins, Split DEF Answers
<1>4. toClient \in Seq({toClient[k] : k \in DOMAIN toClient})
  BY DEF IsSeq
<1>5. Answers = toClient
  BY <1>4, ConcatEmptySeq DEF Answers, Receive
<1> QED
  BY <1>3, <1>5

----------------------------------------------------------------------------
(* The scripts are made of calls.                                          *)

LEMMA CallsAre ==
  ASSUME NEW names, IsSeq(names)
  PROVE  /\ IsSeq(Opens(names)) /\ IsSeq(Puts(names)) /\ IsSeq(Links(names))
         /\ \A s \in PutsOrNone(names) : IsSeq(s)
<1>1. Len(names) \in Nat /\ DOMAIN names = 1 .. Len(names)
  BY SeqWidens
<1> DEFINE opens == {Call("open", names[k]) : k \in DOMAIN names}
           puts  == {Call("put", names[k]) : k \in DOMAIN names}
           links == {Call("link", names[k]) : k \in DOMAIN names}
<1>2. /\ Opens(names) \in [1 .. Len(names) -> opens]
      /\ Puts(names) \in [1 .. Len(names) -> puts]
      /\ Links(names) \in [1 .. Len(names) -> links]
  BY <1>1 DEF Opens, Puts, Links
<1> HIDE DEF opens, puts, links
<1>3. Opens(names) \in Seq(opens) /\ Puts(names) \in Seq(puts) /\ Links(names) \in Seq(links)
  BY <1>1, <1>2, SeqDef
<1>4. IsSeq(Opens(names)) /\ IsSeq(Puts(names)) /\ IsSeq(Links(names))
  BY <1>3, SeqOfAny
<1> QED
  BY <1>4, None DEF PutsOrNone

LEMMA SameLength ==
  ASSUME NEW a \in Nat, NEW b \in Nat, 1 .. a = 1 .. b
  PROVE  a = b
<1>1. CASE a < b
  <2>1. b \in 1 .. b /\ b \notin 1 .. a
    BY <1>1
  <2> QED
    BY <2>1
<1>2. CASE b < a
  <2>1. a \in 1 .. a /\ a \notin 1 .. b
    BY <1>2
  <2> QED
    BY <2>1
<1> QED
  BY <1>1, <1>2

LEMMA ChunksAre ==
  /\ IsSeq(WriteImage) /\ Len(WriteImage) > 0 /\ FullChunks \in Nat
  /\ \A k \in 1 .. FullChunks :
       /\ k \in 1 .. Len(WriteImage)
       /\ WriteImage[k] = Chunk((k - 1) * ChunkRows, k * ChunkRows - 1)
  /\ FullChunks * ChunkRows < Height =>
       /\ FullChunks + 1 \in 1 .. Len(WriteImage)
       /\ WriteImage[FullChunks + 1] = Chunk(FullChunks * ChunkRows, Height - 1)
  /\ \A k \in 1 .. Len(WriteImage) : \E first, last : WriteImage[k] = Chunk(first, last)
<1> DEFINE full == {k \in 0 .. Height : k * ChunkRows < Height - ChunkRows}
<1>1. Height \in Nat \ {0} /\ ChunkRows \in Nat
  BY ConnectionAssumption, SyncedAssumption
<1>2. IsFiniteSet(0 .. Height)
  BY <1>1, FS_Interval
<1>3. IsFiniteSet(full)
  BY <1>2, FS_Subset
<1>4. FullChunks \in Nat
  BY <1>3, FS_CardinalityType DEF FullChunks
<1> DEFINE Nth(k) == Chunk((k - 1) * ChunkRows, k * ChunkRows - 1)
           made   == {Nth(k) : k \in 1 .. FullChunks}
           chunks == [k \in 1 .. FullChunks |-> Nth(k)]
<1>5. IsSeq(chunks) /\ Len(chunks) = FullChunks
  <2> HIDE DEF Nth
  <2>1. chunks \in [1 .. FullChunks -> made]
    OBVIOUS
  <2> HIDE DEF made
  <2>2. chunks \in Seq(made)
    BY <1>4, <2>1, SeqDef
  <2>3. DOMAIN chunks = 1 .. Len(chunks) /\ Len(chunks) \in Nat /\ DOMAIN chunks = 1 .. FullChunks
    BY <2>2, LenProperties
  <2>4. IsSeq(chunks)
    BY <2>2, SeqOfAny
  <2> HIDE DEF chunks
  <2>5. Len(chunks) = FullChunks
    <3>1. Len(chunks) \in Nat /\ 1 .. Len(chunks) = 1 .. FullChunks
      BY <2>3
    <3> QED
      BY <1>4, <3>1, SameLength
  <2> QED
    BY <2>4, <2>5
<1> DEFINE rest == IF FullChunks * ChunkRows < Height
                     THEN <<Chunk(FullChunks * ChunkRows, Height - 1)>> ELSE <<>>
<1>6. WriteImage = chunks \o rest
  BY DEF WriteImage
<1> HIDE DEF chunks
<1>7. /\ IsSeq(rest) /\ Len(rest) \in Nat
      /\ FullChunks * ChunkRows < Height =>
           Len(rest) = 1 /\ rest[1] = Chunk(FullChunks * ChunkRows, Height - 1)
      /\ \A k \in 1 .. Len(rest) : \E first, last : rest[k] = Chunk(first, last)
  BY One, None
<1>8. FullChunks = 0 => Len(rest) = 1
  BY <1>1, One
<1>9. \A k \in 1 .. FullChunks : chunks[k] = Chunk((k - 1) * ChunkRows, k * ChunkRows - 1)
  <2> HIDE DEF Nth
  <2>1. \A k \in 1 .. FullChunks : chunks[k] = Nth(k)
    BY DEF chunks
  <2> QED
    BY <2>1 DEF Nth
<1> HIDE DEF rest
<1>10. /\ IsSeq(WriteImage) /\ Len(WriteImage) = FullChunks + Len(rest)
       /\ \A k \in 1 .. FullChunks : WriteImage[k] = chunks[k]
       /\ \A k \in 1 .. Len(rest) : WriteImage[FullChunks + k] = rest[k]
  <2>1. IsSeq(chunks) /\ IsSeq(rest)
    BY <1>5, <1>7
  <2>2. /\ IsSeq(chunks \o rest) /\ Len(chunks \o rest) = Len(chunks) + Len(rest)
        /\ \A k \in 1 .. Len(chunks) : (chunks \o rest)[k] = chunks[k]
        /\ \A k \in 1 .. Len(rest) : (chunks \o rest)[Len(chunks) + k] = rest[k]
    BY <2>1, Joined
  <2> QED
    BY <1>5, <1>6, <2>2
<1>11. ASSUME NEW k \in 1 .. Len(WriteImage)
       PROVE  \E first, last : WriteImage[k] = Chunk(first, last)
  <2>1. CASE k <= FullChunks
    BY <1>4, <1>9, <1>10, <2>1
  <2>2. CASE k > FullChunks
    <3> DEFINE j == k - FullChunks
    <3>1. j \in 1 .. Len(rest) /\ k = FullChunks + j
      BY <1>4, <1>7, <1>10, <2>2
    <3> HIDE DEF j
    <3> QED
      BY <1>7, <1>10, <3>1
  <2> QED
    BY <1>4, <2>1, <2>2
<1>12. FullChunks * ChunkRows < Height =>
         /\ FullChunks + 1 \in 1 .. Len(WriteImage)
         /\ WriteImage[FullChunks + 1] = Chunk(FullChunks * ChunkRows, Height - 1)
  <2> SUFFICES ASSUME FullChunks * ChunkRows < Height
               PROVE  /\ FullChunks + 1 \in 1 .. Len(WriteImage)
                      /\ WriteImage[FullChunks + 1] = Chunk(FullChunks * ChunkRows, Height - 1)
    OBVIOUS
  <2>1. Len(rest) = 1 /\ rest[1] = Chunk(FullChunks * ChunkRows, Height - 1)
    BY <1>7
  <2> QED
    BY <1>4, <1>10, <2>1
<1>13. Len(WriteImage) > 0 /\ \A k \in 1 .. FullChunks : k \in 1 .. Len(WriteImage)
  BY <1>4, <1>7, <1>8, <1>10
<1> QED
  BY <1>4, <1>9, <1>10, <1>11, <1>12, <1>13

LEMMA WriteImageIs == IsSeq(WriteImage) /\ Len(WriteImage) > 0
BY ChunksAre

LEMMA DisplaysAre ==
  ASSUME NEW format, IsSeq(format), NEW named, IsSeq(named)
  PROVE  IsSeq(Display(format, named))
<1>1. /\ IsSeq(<<"lock">>) /\ IsSeq(<<"view">>) /\ IsSeq(<<"window">>)
      /\ IsSeq(<<"compositing", "procid", ".~size", "v/.~size">>)
  BY DEF IsSeq
<1> QED
  BY <1>1, CallsAre, Joined, WriteImageIs DEF Display

LEMMA FormatsAre == \A format \in Formats : IsSeq(format)
<1>1. /\ IsSeq(<<"v/.~alpha-last">>) /\ IsSeq(<<"v/.~little-endian">>)
      /\ IsSeq(<<"v/.~depth", "v/.~grayscale", "v/.~stride">>)
  BY DEF IsSeq
<1>2. /\ \A s \in PutsOrNone(<<"v/.~alpha-last">>) : IsSeq(s)
      /\ \A s \in PutsOrNone(<<"v/.~little-endian">>) : IsSeq(s)
      /\ IsSeq(Puts(<<"v/.~depth", "v/.~grayscale", "v/.~stride">>))
  BY <1>1, CallsAre
<1>3. ASSUME NEW alpha \in PutsOrNone(<<"v/.~alpha-last">>),
             NEW little \in PutsOrNone(<<"v/.~little-endian">>)
      PROVE  IsSeq(Format(alpha, little))
  BY <1>2, Joined DEF Format
<1> QED
  BY <1>3 DEF Formats

LEMMA ScriptsAre ==
  ASSUME NEW p \in DOMAIN Scripts, NEW s \in Scripts[p]
  PROVE  IsSeq(s)
<1>1. CASE p = "fset"
  <2>1. IsSeq(<<"f">>)
    BY DEF IsSeq
  <2> QED
    BY <1>1, <2>1, CallsAre DEF Scripts
<1>2. CASE p = "library"
  <2>1. IsSeq(Library)
    BY DEF IsSeq, Library
  <2> QED
    BY <1>2, <2>1 DEF Scripts
<1>3. CASE p = "aboutForge"
  <2>1. /\ IsSeq(<<"lock">>) /\ IsSeq(<<"procid", ".~title", "size">>)
        /\ IsSeq(<<"view", "v/icon/view", "v/main/view">>)
        /\ IsSeq(<<"v/icon/v/width", "v/icon/v/height", "v/icon/v/.margin-top",
                  "v/icon/v/.margin-left", "v/icon/v/.margin-right", "v/main/v/.margin-top",
                  "v/main/v/.margin-right", "v/main/v/.margin-left">>)
        /\ IsSeq(<<"v/icon/v/view", "v/main/v/view">>)
        /\ IsSeq(<<"v/icon/v/v/data", "v/main/v/v/text", "v/icon/v/v/disabling",
                  "v/main/v/v/disabling", "vis">>)
        /\ IsSeq(<<"window">>) /\ IsSeq(<<"w/text-font", "w/vis">>)
    BY DEF IsSeq
  <2>2. IsSeq(AboutForge)
    BY <2>1, CallsAre, Joined DEF AboutForge
  <2> QED
    BY <1>3, <2>2 DEF Scripts
<1>4. CASE p = "forgeTest"
  <2>1. /\ IsSeq(<<"lock", "window">>) /\ IsSeq(<<"w/.~title">>)
        /\ IsSeq(<<"view", "v/view">>) /\ IsSeq(<<"v/padding", "v/v/text">>)
    BY DEF IsSeq
  <2>2. IsSeq(ForgeTest)
    BY <2>1, CallsAre, Joined DEF ForgeTest
  <2> QED
    BY <1>4, <2>2 DEF Scripts
<1>5. CASE p = "buttonDemo"
  <2>1. /\ IsSeq(<<"lock">>) /\ IsSeq(<<".~title">>)
        /\ IsSeq(<<"view", "v/view">>)
        /\ IsSeq(<<"v/height", "v/padding", "v/v/title">>)
        /\ IsSeq(<<"window">>)
    BY DEF IsSeq
  <2>2. IsSeq(ButtonDemo)
    BY <2>1, CallsAre, Joined DEF ButtonDemo
  <2> QED
    BY <1>5, <2>2 DEF Scripts
<1>6. CASE p = "interact"
  <2>1. /\ IsSeq(<<"lock">>)
        /\ IsSeq(<<"view", "v/events/view", "v/raster/view">>)
        /\ IsSeq(<<"compositing", "procid", ".~size", "r/.~size">>)
        /\ IsSeq(<<"window">>)
        /\ IsSeq(<<".~title">>)
        /\ IsSeq(<<"r/.~alpha-last", "r/.~little-endian", "r/.~depth", "r/.~grayscale",
                                "r/.~stride">>)
    BY DEF IsSeq
  <2>2. s \in Interacts
    BY <1>6 DEF Scripts
  <2>3. ASSUME NEW format, IsSeq(format), NEW named, IsSeq(named) PROVE IsSeq(Interact(format, named))
    BY <2>1, <2>3, CallsAre, Joined DEF Interact
  <2> QED
    BY <2>1, <2>2, <2>3, CallsAre DEF Interacts
<1>7. CASE p = "display"
  <2>1. IsSeq(<<".~title">>)
    BY DEF IsSeq
  <2>2. \A t \in {<<>>} \cup Formats : IsSeq(t)
    BY FormatsAre, None
  <2>3. s \in Displays
    BY <1>7 DEF Scripts
  <2> QED
    BY <2>1, <2>2, <2>3, CallsAre, DisplaysAre DEF Displays
<1>8. CASE p = "watch"
  <2> QED
    BY <1>8, None, DisplaysAre DEF Scripts
<1> QED
  BY <1>1, <1>2, <1>3, <1>4, <1>5, <1>6, <1>7, <1>8 DEF Scripts

LEMMA ScriptsMade ==
  /\ \A p \in DOMAIN Scripts : \A s \in Scripts[p] : s \in Seq(Made)
  /\ WriteImage \in Seq(Made)
<1>1. ASSUME NEW s \in {WriteImage} \cup UNION {Scripts[p] : p \in DOMAIN Scripts}
      PROVE  s \in Seq(Made)
  <2>1. IsSeq(s)
    BY ScriptsAre, WriteImageIs
  <2>2. {s[k] : k \in DOMAIN s} \subseteq Made
    BY DEF Made, CallsOf
  <2> QED
    BY <2>1, <2>2, SeqWidens
<1> QED
  BY <1>1

----------------------------------------------------------------------------
(* How steps of Clients are steps of Calls.                                *)

CallStep == [C!CNext]_(C!cvars)

\* Nothing happens to the calls, except perhaps that they are over.
LEMMA NoCall ==
  ASSUME script' = script, step' = step, InScript' = InScript, Over => Over'
  PROVE  CallStep
<1>1. CASE Over' = Over
  BY <1>1 DEF CallStep, C!cvars
<1>2. CASE Over' # Over
  <2>1. Over' = TRUE
    BY <1>2 DEF Over
  <2> QED
    BY <2>1 DEF CallStep, C!CNext, C!Stop
<1> QED
  BY <1>1, <1>2

LEMMA SameInScript ==
  ASSUME program' = program, script' = script, served' = served
  PROVE  InScript' = InScript /\ (IsTool' <=> IsTool)
BY DEF InScript, IsTool

LEMMA ToolsMakeNoCalls ==
  ASSUME program' = program, IsTool
  PROVE  InScript = <<>> /\ InScript' = <<>> /\ (IsTool' <=> IsTool)
<1>1. IsTool' /\ program # "buttonDemo" /\ program' # "buttonDemo"
  BY DEF IsTool, ToolSet, Printers
<1> QED
  BY <1>1 DEF InScript

LEMMA ShortInScript ==
  ASSUME ~IsTool, IsSeq(served), script \in Seq(Made)
  PROVE  Len(served) <= Len(script) => InScript = served
<1>1. Len(served) \in Nat /\ Len(script) \in Nat
  BY SeqWidens, LenProperties
<1> QED
  BY <1>1 DEF InScript

\* What is served after the script is none of its calls.
LEMMA LongInScript ==
  ASSUME program = "buttonDemo", program' = program, script' = script,
         IsSeq(served), script \in Seq(Made), Len(script) <= Len(served),
         NEW x, served' = Append(served, x)
  PROVE  InScript' = InScript /\ IsSeq(served') /\ Len(served') = Len(served) + 1
<1> DEFINE n == Len(script)  U == {served[k] : k \in DOMAIN served} \cup {x}
<1>1. n \in Nat /\ Len(served) \in Nat
  BY SeqWidens, LenProperties
<1>2. served \in Seq(U) /\ <<x>> \in Seq(U) /\ served' = served \o <<x>>
  BY SeqWidens
<1>3. IsSeq(served') /\ Len(served') = Len(served) + 1
  BY <1>2, One, Joined
<1>4. SubSeq(served \o <<x>>, 1, n) = SubSeq(served, 1, n)
  <2>1. CASE n = 0
    BY <1>1, <2>1, SubSeqEmpty
  <2>2. CASE n # 0
    <3>1. 1 \in 1 .. Len(served) /\ n \in 1 .. Len(served)
      BY <1>1, <2>2
    <3> HIDE DEF U, n
    <3> QED
      BY <1>2, <3>1, SubSeqOfConcat1
  <2> QED
    BY <2>1, <2>2
<1>5. SubSeq(served, 1, Len(served)) = served
  <2> HIDE DEF U
  <2> QED
    BY <1>2, SubSeqFull
<1>6. ~IsTool /\ ~IsTool'
  BY DEF IsTool, ToolSet, Printers
<1>7. InScript = SubSeq(served, 1, n)
  <2>1. CASE n < Len(served)
    BY <1>6, <2>1 DEF InScript
  <2>2. CASE n = Len(served)
    BY <1>1, <1>5, <1>6, <2>2 DEF InScript
  <2> QED
    BY <1>1, <2>1, <2>2
<1>8. InScript' = SubSeq(served', 1, n)
  BY <1>1, <1>3, <1>6 DEF InScript
<1> QED
  BY <1>2, <1>3, <1>4, <1>7, <1>8

\* The call that is being made is served.
LEMMA CallServed ==
  ASSUME ~IsTool, program' = program, script' = script, step' = step,
         ended' = ended, exit' = exit, ~Over,
         IsSeq(served), script \in Seq(Made), step \in 0 .. Len(script),
         Len(served) = step, step < Len(script),
         NEW ok \in BOOLEAN,
         served' = Append(served, [call |-> script[step + 1], ok |-> ok])
  PROVE  /\ CallStep
         /\ IsSeq(served') /\ Len(served') = step + 1 /\ served'[step + 1].ok = ok
<1> DEFINE x == [call |-> script[step + 1], ok |-> ok]
<1>1. Len(script) \in Nat /\ step \in Nat
  BY LenProperties
<1>3. IsSeq(served') /\ Len(served') = step + 1 /\ served'[step + 1] = x
  BY Appended, ZenonT(30)
<1>4. InScript = served
  BY <1>1, ShortInScript
<1>5. ~IsTool'
  BY DEF IsTool
<1>6. InScript' = served'
  BY <1>1, <1>3, <1>5 DEF InScript
<1>7. Over' = Over
  BY DEF Over
<1>8. C!Serve
  BY <1>4, <1>6, <1>7 DEF C!Serve
<1> QED
  BY <1>3, <1>8 DEF CallStep, C!CNext

----------------------------------------------------------------------------
(* The session's answers.                                                  *)

\* A result comes, and nothing after it.
ResultComes(ok) ==
  /\ IsSeq(toClient') /\ Len(Answers') > Len(Answers)
  /\ \A k \in 1 .. Len(Answers) : Answers'[k] = Answers[k]
  /\ \A k \in Len(Answers) + 1 .. Len(Answers') - 1 : Answers'[k].type # "result"
  /\ Answers'[Len(Answers')].type = "result"
  /\ (Answers'[Len(Answers')].value = Ok) = ok

LEMMA OneSent ==
  ASSUME IsSeq(rcvd), IsSeq(toClient), rcvd' = rcvd, NEW x, Reply(<<x>>)
  PROVE  /\ IsSeq(toClient') /\ IsSeq(Answers') /\ Answers' # <<>>
         /\ Len(Answers) \in Nat /\ Len(Answers') = Len(Answers) + 1
         /\ \A k \in 1 .. Len(Answers) : Answers'[k] = Answers[k]
         /\ Answers'[Len(Answers')] = x
<1> DEFINE frames == <<x>>
<1>1. IsSeq(frames)
  BY One
<1>2. Len(frames) = 1 /\ frames[1] = x
  BY One
<1>3. toClient' = toClient \o frames
  BY DEF Reply
<1> HIDE DEF frames
<1>4. /\ IsSeq(toClient') /\ Len(Answers') = Len(Answers) + Len(frames)
      /\ \A k \in 1 .. Len(Answers) : Answers'[k] = Answers[k]
      /\ \A k \in 1 .. Len(frames) : Answers'[Len(Answers) + k] = frames[k]
  BY <1>1, <1>3, AnswersCome
<1>5. Len(Answers) \in Nat
  BY AnswersAre
<1>6. IsSeq(Answers')
  BY <1>4, Joined DEF Answers
<1>7. Len(Answers') # 0
  BY <1>2, <1>4, <1>5
<1> QED
  BY <1>2, <1>4, <1>5, <1>6, <1>7, None

LEMMA ResultAlone ==
  ASSUME IsSeq(rcvd), IsSeq(toClient), rcvd' = rcvd, NEW id, NEW value, Respond(id, value)
  PROVE  ResultComes(value = Ok)
<1> DEFINE frame == Answer("result", id, value)
<1>1. frame.type = "result" /\ frame.value = value
  BY DEF Answer
<1>2. Reply(<<frame>>)
  BY DEF Respond
<1> HIDE DEF frame
<1>3. /\ IsSeq(toClient') /\ Len(Answers) \in Nat /\ Len(Answers') = Len(Answers) + 1
      /\ \A k \in 1 .. Len(Answers) : Answers'[k] = Answers[k]
      /\ Answers'[Len(Answers')] = frame
  BY <1>2, OneSent
<1> QED
  BY <1>1, <1>3 DEF ResultComes

\* What stat and list answer.
LEMMA LookAnswers ==
  ASSUME IsSeq(rcvd), IsSeq(toClient), rcvd' = rcvd, NEW f, ServeLook(f)
  PROVE  \E n \in Nat :
           /\ given' = n /\ IsSeq(toClient') /\ Len(Answers) \in Nat
           /\ Len(Answers') = Len(Answers) + n + 1
           /\ \A k \in 1 .. Len(Answers) : Answers'[k] = Answers[k]
           /\ \A k \in 1 .. n : Answers'[Len(Answers) + k] = Answer(f.call.op, f.id, k)
           /\ Answers'[Len(Answers) + n + 1] = Answer("result", f.id, Ok)
<1>1. PICK n \in 0 .. MaxItems :
        /\ given' = n
        /\ toClient' = toClient \o ([k \in 1 .. n |-> Answer(f.call.op, f.id, k)] \o <<Answer("result", f.id, Ok)>>)
  BY DEF ServeLook, Reply
<1> DEFINE items  == [k \in 1 .. n |-> Answer(f.call.op, f.id, k)]
           kinds  == {Answer(f.call.op, f.id, k) : k \in 1 .. n}
           last   == Answer("result", f.id, Ok)
           one    == <<last>>
           frames == items \o one
<1>2. n \in Nat
  BY ConnectionAssumption
<1>3. IsSeq(items) /\ Len(items) = n
  <2>1. items \in [1 .. n -> kinds]
    OBVIOUS
  <2> HIDE DEF kinds
  <2>2. items \in Seq(kinds)
    BY <1>2, <2>1, SeqDef
  <2>3. DOMAIN items = 1 .. Len(items) /\ Len(items) \in Nat
    BY <2>2, LenProperties
  <2>4. IsSeq(items)
    BY <2>2, SeqOfAny
  <2>5. 1 .. Len(items) = 1 .. n
    BY <2>3
  <2> HIDE DEF items
  <2>6. Len(items) = n
    BY <1>2, <2>3, <2>5, SameLength
  <2> QED
    BY <2>4, <2>6
<1>4. \A k \in 1 .. n : items[k] = Answer(f.call.op, f.id, k)
  OBVIOUS
<1>5. IsSeq(one)
  BY One
<1>6. Len(one) = 1 /\ one[1] = last
  BY One
<1> HIDE DEF items, one, last
<1>8. /\ IsSeq(frames) /\ Len(frames) = n + Len(one)
      /\ \A k \in 1 .. n : frames[k] = items[k]
      /\ \A k \in 1 .. Len(one) : frames[n + k] = one[k]
  <2>1. IsSeq(items)
    BY <1>3
  <2>2. /\ IsSeq(frames) /\ Len(frames) = Len(items) + Len(one)
        /\ \A k \in 1 .. Len(items) : frames[k] = items[k]
        /\ \A k \in 1 .. Len(one) : frames[Len(items) + k] = one[k]
    BY <1>5, <2>1, Joined
  <2> HIDE DEF frames
  <2> QED
    BY <1>3, <2>2
<1>9. toClient' = toClient \o frames
  BY <1>1 DEF items, one, last
<1> HIDE DEF frames
<1>10. /\ IsSeq(toClient') /\ Len(Answers') = Len(Answers) + Len(frames)
       /\ \A k \in 1 .. Len(Answers) : Answers'[k] = Answers[k]
       /\ \A k \in 1 .. Len(frames) : Answers'[Len(Answers) + k] = frames[k]
  BY <1>8, <1>9, AnswersCome
<1>11. Len(Answers) \in Nat /\ Len(frames) = n + 1 /\ frames[n + 1] = last
  BY <1>6, <1>8, AnswersAre
<1>12. /\ Len(Answers') = Len(Answers) + n + 1
       /\ Answers'[Len(Answers) + n + 1] = last
  BY <1>2, <1>10, <1>11
<1>13. ASSUME NEW k \in 1 .. n PROVE Answers'[Len(Answers) + k] = Answer(f.call.op, f.id, k)
  <2>1. k \in 1 .. Len(frames)
    BY <1>2, <1>11
  <2> QED
    BY <1>4, <1>8, <1>10, <2>1
<1> QED
  BY <1>1, <1>2, <1>10, <1>11, <1>12, <1>13 DEF last

LEMMA LookServed ==
  ASSUME IsSeq(rcvd), IsSeq(toClient), rcvd' = rcvd, NEW f, ServeLook(f)
  PROVE  ResultComes(TRUE)
<1>1. PICK n \in Nat :
        /\ IsSeq(toClient') /\ Len(Answers) \in Nat
        /\ Len(Answers') = Len(Answers) + n + 1
        /\ \A k \in 1 .. Len(Answers) : Answers'[k] = Answers[k]
        /\ \A k \in 1 .. n : Answers'[Len(Answers) + k] = Answer(f.call.op, f.id, k)
        /\ Answers'[Len(Answers) + n + 1] = Answer("result", f.id, Ok)
  BY LookAnswers
<1>2. f.call.op # "result"
  BY DEF ServeLook
<1>3. ASSUME NEW k \in Len(Answers) + 1 .. Len(Answers') - 1 PROVE Answers'[k].type # "result"
  <2> DEFINE j == k - Len(Answers)
  <2>1. j \in 1 .. n /\ Len(Answers) + j = k
    BY <1>1
  <2> HIDE DEF j
  <2>2. Answers'[k] = Answer(f.call.op, f.id, j)
    BY <1>1, <2>1
  <2> QED
    BY <1>2, <2>2 DEF Answer
<1>4. Answers'[Len(Answers')] = Answer("result", f.id, Ok)
  BY <1>1
<1>5. Answers'[Len(Answers')].type = "result" /\ Answers'[Len(Answers')].value = Ok
  BY <1>4 DEF Answer
<1> QED
  BY <1>1, <1>3, <1>5 DEF ResultComes

LEMMA RequestServed ==
  ASSUME IsSeq(rcvd), IsSeq(toClient), rcvd' = rcvd, NEW f, ServeRequest(f)
  PROVE  \E ok \in BOOLEAN :
           ResultComes(ok) /\ served' = Append(served, [call |-> f.call, ok |-> ok])
<1>1. CASE ServeLook(f)
  <2>1. served' = Append(served, [call |-> f.call, ok |-> TRUE])
    BY <1>1 DEF ServeLook, Record
  <2> QED
    BY <1>1, <2>1, LookServed
<1>2. CASE ServeChange(f)
  <2>1. served' = Append(served, [call |-> f.call, ok |-> TRUE]) /\ Respond(f.id, Ok)
    BY <1>2 DEF ServeChange, Record
  <2>2. ResultComes(Ok = Ok)
    BY <2>1, ResultAlone
  <2>3. ResultComes(TRUE)
    BY <2>2 DEF Ok, ResultComes
  <2> QED
    BY <2>1, <2>3
<1>3. CASE ServeRefusal(f)
  <2>1. served' = Append(served, [call |-> f.call, ok |-> FALSE]) /\ Respond(f.id, Refused)
    BY <1>3 DEF ServeRefusal, Record
  <2>2. ResultComes(Refused = Ok)
    BY <2>1, ResultAlone
  <2>3. ResultComes(FALSE)
    BY <2>2 DEF Ok, Refused, ResultComes
  <2> QED
    BY <2>1, <2>3
<1> QED
  BY <1>1, <1>2, <1>3 DEF ServeRequest

----------------------------------------------------------------------------
(* The session's steps.                                                    *)

LEMMA ServeKeepsBasic ==
  ASSUME Basic, Serve, UNCHANGED <<toolVars, scriptVars>>
  PROVE  /\ IsSeq(toClient') /\ IsSeq(toServer') /\ DOMAIN box' = Ids
         /\ served' = served \/ \E x : served' = Append(served, x)
<1> DEFINE f == Head(toServer)
<1>1. rcvd' = rcvd /\ IsSeq(rcvd) /\ IsSeq(toClient) /\ IsSeq(toServer)
  BY DEF Serve, clientVars, Basic
<1>2. IsSeq(toServer')
  BY <1>1, Tailed DEF Serve
<1>3. CASE ServeRequest(f)
  <2>1. DOMAIN box' = Ids
    BY <1>3 DEF ServeRequest, Checked
  <2> HIDE DEF f
  <2> QED
    BY <1>1, <1>2, <1>3, <2>1, RequestServed DEF ResultComes
<1>4. CASE ServeRead(f)
  BY <1>1, <1>2, <1>4 DEF ServeRead, Checked
<1>5. CASE ServePing(f)
  <2> DEFINE pong == Answer("pong", 0, 0)
  <2>1. toClient' = toClient \o <<pong>> /\ DOMAIN box' = Ids /\ served' = served
    BY <1>5 DEF ServePing, Reply, Checked, answerVars
  <2> HIDE DEF pong
  <2> QED
    BY <1>1, <1>2, <2>1, One, Joined
<1>6. CASE ServeAck(f)
  BY <1>1, <1>2, <1>6 DEF ServeAck, Checked, answerVars
<1>7. CASE ServeCancel(f)
  <2>1. DOMAIN box' = Ids /\ served' = served
    BY <1>7 DEF ServeCancel, Checked, answerVars
  <2>2. \E x : toClient' = toClient \o <<x>>
    BY <1>7 DEF ServeCancel, Respond, Reply
  <2> QED
    BY <1>1, <1>2, <2>1, <2>2, One, Joined
<1> QED
  BY <1>3, <1>4, <1>5, <1>6, <1>7 DEF Serve

\* What the session makes of the frames that come before or after the request.
LEMMA AckServed ==
  ASSUME Basic, Phase, Serve, UNCHANGED <<toolVars, scriptVars>>, Head(toServer).type = "ack",
         ~Beyond
  PROVE  Phase' /\ served' = served
<1> DEFINE f == Head(toServer)
<1>1. /\ UNCHANGED <<program, pc, exit, rcvd, ended, script, step>> /\ ~ended
      /\ toServer # <<>> /\ toServer' = Tail(toServer)
  BY DEF Serve, clientVars, scriptVars, callVars
<1>2. ServeAck(f)
  BY DEF Serve, ServeRequest, ServeRead, ServePing, ServeCancel
<1>3. toClient' = toClient /\ served' = served /\ box' = Checked
  BY <1>2 DEF ServeAck, answerVars
<1>4. Answers' = Answers
  BY <1>1, <1>3 DEF Answers
<1>5. /\ Len(toServer') = Len(toServer) - 1 /\ Len(toServer) \in Nat
      /\ \A k \in 1 .. Len(toServer) - 1 : toServer'[k] = toServer[k + 1]
  BY <1>1, Tailed, SeqWidens DEF Basic
<1>6. /\ \A i \in Ids : box[i].op # "read" => box'[i].op # "read"
      /\ \A i \in Ids : box[i].op = "read" => box'[i] = box[i]
  BY <1>3 DEF Checked, Free, Done, Call
<1>7. OnlyAcks(Len(toServer)) => OnlyAcks(Len(toServer))'
  BY <1>5 DEF OnlyAcks
<1>8. NoTask => NoTask'
  BY <1>6 DEF NoTask
<1>9. CASE Idle
  BY <1>1, <1>3, <1>4, <1>7, <1>8, <1>9 DEF Idle, Phase
<1>10. CASE Asked
  <2>1. Len(toServer) # 1
    BY <1>10, <1>1, Tailed DEF Asked, Basic
  <2>2. toServer' # <<>>
    <3>1. Len(toServer') # 0
      BY <1>5, <2>1
    <3> QED
      BY <3>1, None
  <2>3. toServer'[Len(toServer')] = toServer[Len(toServer)]
    <3>1. Len(toServer) - 1 \in 1 .. Len(toServer) - 1
      BY <1>1, <1>5, <2>1, SeqWidens DEF Basic
    <3> QED
      BY <1>5, <3>1
  <2>4. OnlyAcks(Len(toServer) - 1)'
    <3>1. \A k \in 1 .. Len(toServer) - 1 : toServer[k].type = "ack"
      BY <1>10 DEF OnlyAcks, Asked
    <3>2. \A k \in 1 .. Len(toServer') - 1 : toServer'[k].type = "ack"
      BY <1>5, <3>1
    <3> QED
      BY <3>2 DEF OnlyAcks
  <2> QED
    BY <1>1, <1>3, <1>4, <1>8, <1>10, <2>2, <2>3, <2>4 DEF Asked, Phase
<1>11. CASE Working
  <2>1. NoResult(Len(Answers))'
    BY <1>4, <1>11 DEF Working, NoResult
  <2>2. box'[0] = box[0] /\ box'[1].op # "read"
    BY <1>6, <1>11 DEF Working, Ids
  <2> QED
    BY <1>1, <1>3, <1>7, <1>11, <2>1, <2>2 DEF Working, Phase
<1>12. CASE Answered
  <2>1. NoResult(Len(Answers) - 1)'
    BY <1>4, <1>12 DEF Answered, NoResult
  <2> QED
    BY <1>1, <1>3, <1>4, <1>7, <1>8, <1>12, <2>1 DEF Answered, Phase
<1> QED
  BY <1>1, <1>9, <1>10, <1>11, <1>12 DEF Phase, CutOff

\* The session reads the request.
LEMMA AskedServed ==
  ASSUME Basic, Asked, ~IsTool, Serve, UNCHANGED <<toolVars, scriptVars>>,
         Head(toServer).type # "ack"
  PROVE  IsSeq(served') /\ Phase' /\ CallStep
<1> DEFINE f == Head(toServer)
<1>1. /\ UNCHANGED <<program, pc, exit, rcvd, ended, script, step>> /\ ~ended
      /\ toServer # <<>> /\ toServer' = Tail(toServer)
  BY DEF Serve, clientVars, scriptVars, callVars
<1>2. /\ Len(toServer') = Len(toServer) - 1 /\ Len(toServer) \in Nat /\ Len(toServer) >= 1
      /\ f = toServer[1]
  BY <1>1, Tailed, SeqWidens DEF Basic
<1>3. Len(toServer) = 1
  <2>1. OnlyAcks(Len(toServer) - 1)
    BY DEF Asked
  <2> QED
    BY <1>2, <2>1 DEF OnlyAcks
<1>4. f.type = "request" /\ f.id = 0 /\ f.call = script[step + 1]
  BY <1>2, <1>3 DEF Asked
<1>5. OnlyAcks(Len(toServer))'
  BY <1>2, <1>3 DEF OnlyAcks
<1>6. /\ pc = "read" /\ step < Len(script) /\ Len(served) = step /\ NoTask /\ Answers = <<>>
      /\ IsSeq(served) /\ script \in Seq(Made) /\ step \in 0 .. Len(script)
      /\ IsSeq(rcvd) /\ IsSeq(toClient)
  BY DEF Asked, Basic
<1>7. exit = "none" /\ ~Over
  BY <1>1, <1>6 DEF Basic, Over
<1>8. Len(Answers) = 0
  BY <1>6, None
<1>9. CASE ServeRequest(f)
  <2>1. PICK ok \in BOOLEAN :
          ResultComes(ok) /\ served' = Append(served, [call |-> f.call, ok |-> ok])
    <3> HIDE DEF f
    <3> QED
      BY <1>1, <1>6, <1>9, RequestServed
  <2>2. served' = Append(served, [call |-> script[step + 1], ok |-> ok])
    BY <1>4, <2>1
  <2>3. CallStep /\ IsSeq(served') /\ Len(served') = step + 1 /\ served'[step + 1].ok = ok
    BY <1>1, <1>6, <1>7, <2>2, CallServed
  <2>4. NoTask'
    BY <1>6, <1>9 DEF ServeRequest, Checked, NoTask, Free, Call
  <2>5. Len(Answers') \in Nat /\ Len(Answers') > 0 /\ IsSeq(Answers')
    <3>1. IsSeq(rcvd') /\ IsSeq(toClient')
      BY <1>1, <1>6, <2>1 DEF ResultComes
    <3>2. IsSeq(Answers')
      BY <3>1, Joined DEF Answers
    <3> QED
      BY <1>8, <2>1, <3>2, SeqWidens DEF ResultComes
  <2>6. Answers' # <<>>
    BY <2>5, None
  <2>7. NoResult(Len(Answers) - 1)'
    BY <1>8, <2>1, <2>5 DEF NoResult, ResultComes
  <2>8. Answered'
    BY <1>1, <1>5, <1>6, <2>1, <2>3, <2>4, <2>6, <2>7 DEF Answered, ResultComes
  <2> QED
    BY <2>3, <2>8 DEF Phase
<1>10. CASE ServeRead(f)
  <2>1. toClient' = toClient /\ served' = served /\ box' = [Checked EXCEPT ![0] = script[step + 1]]
        /\ script[step + 1].op = "read"
    BY <1>4, <1>10 DEF ServeRead
  <2>2. box'[0] = script[step + 1] /\ box'[1].op # "read"
    BY <1>6, <2>1 DEF Checked, NoTask, Ids, Free, Call
  <2>3. NoResult(Len(Answers))'
    <3>1. Answers' = Answers
      BY <1>1, <2>1 DEF Answers
    <3> QED
      BY <1>8, <3>1 DEF NoResult
  <2>4. Working'
    BY <1>1, <1>5, <1>6, <2>1, <2>2, <2>3 DEF Working
  <2>5. CallStep
    BY <1>1, <2>1, NoCall, SameInScript DEF Over
  <2> QED
    BY <1>6, <2>1, <2>4, <2>5 DEF Phase
<1> QED
  BY <1>4, <1>9, <1>10 DEF Serve, ServePing, ServeAck, ServeCancel

LEMMA ServeKeeps ==
  ASSUME Basic, Phase, ~IsTool, Serve, UNCHANGED <<toolVars, scriptVars>>
  PROVE  Basic' /\ Phase' /\ CallStep
<1>1. /\ UNCHANGED <<program, pc, exit, rcvd, ended, script, step>> /\ ~ended
      /\ toServer # <<>>
  BY DEF Serve, clientVars, scriptVars, callVars
<1>2. /\ IsSeq(toClient') /\ IsSeq(toServer') /\ DOMAIN box' = Ids
      /\ served' = served \/ \E x : served' = Append(served, x)
  BY ServeKeepsBasic
<1>3. IsSeq(served') => Basic'
  BY <1>1, <1>2 DEF Basic
<1>4. Over' = Over
  BY <1>1 DEF Over
<1>5. CASE ~Beyond /\ Head(toServer).type = "ack"
  <2>1. Phase' /\ served' = served
    BY <1>5, AckServed
  <2>2. CallStep
    BY <1>1, <1>4, <2>1, NoCall, SameInScript
  <2> QED
    BY <1>3, <2>1, <2>2 DEF Basic
<1>6. CASE ~Beyond /\ Head(toServer).type # "ack"
  <2>1. Asked
    <3>1. Head(toServer) = toServer[1] /\ Len(toServer) >= 1 /\ Len(toServer) \in Nat
      BY <1>1, Tailed, SeqWidens DEF Basic
    <3>2. ~OnlyAcks(Len(toServer))
      BY <1>6, <3>1 DEF OnlyAcks
    <3> QED
      BY <1>1, <1>6, <3>2 DEF Phase, Idle, Working, Answered, CutOff
  <2> QED
    BY <1>3, <1>6, <2>1, AskedServed
<1>7. CASE Beyond
  <2>1. /\ IsSeq(served) /\ script \in Seq(Made) /\ program = "buttonDemo" /\ step = Len(script)
        /\ step <= Len(served) /\ pc \in {"clicks", "exited"}
    BY <1>7 DEF Beyond, Basic
  <2>2. InScript' = InScript /\ IsSeq(served') /\ step <= Len(served')
    <3>1. CASE served' = served
      BY <1>1, <2>1, <3>1, SameInScript
    <3>2. CASE \E x : served' = Append(served, x)
      <4>1. PICK x : served' = Append(served, x)
        BY <3>2
      <4>2. InScript' = InScript /\ IsSeq(served') /\ Len(served') = Len(served) + 1
        BY <1>1, <2>1, <4>1, LongInScript
      <4>3. Len(served) \in Nat /\ step \in Nat
        BY <2>1, SeqWidens, LenProperties
      <4> QED
        BY <2>1, <4>2, <4>3
    <3> QED
      BY <1>2, <3>1, <3>2
  <2>3. Beyond'
    BY <1>1, <2>1, <2>2 DEF Beyond
  <2>4. CallStep
    BY <1>1, <1>4, <2>2, NoCall
  <2> QED
    BY <1>3, <2>2, <2>3, <2>4 DEF Phase
<1> QED
  BY <1>5, <1>6, <1>7

\* The session ends, and some of what is under way to the program is lost.
LEMMA EndKeeps ==
  ASSUME Basic, Phase, ~IsTool, EndSession, UNCHANGED <<toolVars, scriptVars>>,
         NEW n \in 0 .. Len(toClient), toClient' = SubSeq(toClient, 1, n)
  PROVE  Basic' /\ Phase' /\ CallStep
<1>1. /\ UNCHANGED <<program, pc, exit, rcvd, script, step, served>> /\ ended' = TRUE
      /\ toServer' = <<>> /\ box' = [i \in Ids |-> Free]
  BY DEF EndSession, clientVars, scriptVars, callVars
<1>2. IsSeq(rcvd) /\ IsSeq(toClient) /\ Len(toClient) \in Nat
  BY SeqWidens DEF Basic
<1>3. /\ IsSeq(toClient') /\ Len(Answers') = Len(Answers) - (Len(toClient) - n)
      /\ \A k \in 1 .. Len(Answers') : Answers'[k] = Answers[k]
  BY <1>1, <1>2, AnswersLost
<1>4. Len(Answers) \in Nat /\ Len(Answers') <= Len(Answers) /\ n \in Nat
      /\ Len(toClient) - n \in Nat /\ Len(Answers') \in Int
  BY <1>2, <1>3, AnswersAre
<1>5. IsSeq(toServer') /\ Len(toServer') = 0
  BY <1>1, None
<1>6. Basic'
  BY <1>1, <1>3, <1>5 DEF Basic
<1>7. NoTask'
  BY <1>1 DEF NoTask, Free, Call
<1>8. Over'
  BY <1>1 DEF Over
<1>9. CallStep
  BY <1>1, <1>8, NoCall, SameInScript
<1>10. CASE Beyond
  <2>1. Beyond'
    BY <1>1, <1>10 DEF Beyond
  <2> QED
    BY <1>6, <1>9, <2>1 DEF Phase
<1>11. CASE NoResult(Len(Answers))
  <2>1. NoResult(Len(Answers))'
    BY <1>3, <1>4, <1>11 DEF NoResult
  <2>2. CutOff'
    BY <1>1, <1>7, <2>1 DEF CutOff
  <2> QED
    BY <1>6, <1>9, <2>2 DEF Phase
<1>12. CASE Idle \/ Asked \/ Working
  <2>1. NoResult(Len(Answers))
    BY <1>12, None DEF Idle, Asked, Working, NoResult
  <2> QED
    BY <1>11, <2>1
<1>13. CASE Answered
  <2>1. CASE Len(Answers') = Len(Answers)
    <3>1. Answers' # <<>>
      <4>1. Len(Answers') # 0
        BY <1>2, <1>13, <2>1, AnswersAre, SeqWidens DEF Answered
      <4> QED
        BY <4>1, None
    <3>2. NoResult(Len(Answers) - 1)'
      <4>1. \A k \in 1 .. Len(Answers) - 1 : Answers[k].type # "result"
        BY <1>13 DEF NoResult, Answered
      <4>2. \A k \in 1 .. Len(Answers') - 1 : Answers'[k].type # "result"
        <5>1. ASSUME NEW k \in 1 .. Len(Answers') - 1 PROVE Answers'[k].type # "result"
          <6>1. k \in 1 .. Len(Answers') /\ k \in 1 .. Len(Answers) - 1
            BY <1>4, <2>1
          <6> QED
            BY <1>3, <4>1, <6>1
        <5> QED
          BY <5>1
      <4> QED
        BY <4>2 DEF NoResult
    <3>3. Answers'[Len(Answers')] = Answers[Len(Answers)]
      <4>1. Len(Answers') \in 1 .. Len(Answers')
        BY <1>2, <1>4, <1>13, <2>1, AnswersAre, SeqWidens DEF Answered
      <4> QED
        BY <1>3, <2>1, <4>1
    <3>4. OnlyAcks(Len(toServer))'
      BY <1>5 DEF OnlyAcks
    <3>5. Answered'
      BY <1>1, <1>7, <1>13, <3>1, <3>2, <3>3, <3>4 DEF Answered
    <3> QED
      BY <1>6, <1>9, <3>5 DEF Phase
  <2>2. CASE Len(Answers') # Len(Answers)
    <3>1. \A k \in 1 .. Len(Answers') : k \in 1 .. Len(Answers) - 1
      BY <1>4, <2>2
    <3>2. NoResult(Len(Answers))'
      BY <1>3, <1>13, <3>1 DEF NoResult, Answered
    <3>3. CutOff'
      BY <1>1, <1>7, <3>2 DEF CutOff
    <3> QED
      BY <1>6, <1>9, <3>3 DEF Phase
  <2> QED
    BY <2>1, <2>2
<1>14. CASE CutOff
  <2>1. CASE pc = "exited"
    <3>1. CutOff'
      BY <1>1, <1>7, <2>1 DEF CutOff
    <3> QED
      BY <1>6, <1>9, <3>1 DEF Phase
  <2> QED
    BY <1>11, <1>14, <2>1 DEF CutOff
<1> QED
  BY <1>6, <1>9, <1>10, <1>12, <1>13, <1>14 DEF Phase

LEMMA SessionEnds ==
  ASSUME Basic, Phase, ~IsTool, ServeBadFrame \/ ServeEnd \/ Cut, UNCHANGED <<toolVars, scriptVars>>
  PROVE  Basic' /\ Phase' /\ CallStep
<1>1. EndSession
  BY DEF ServeBadFrame, ServeEnd, Cut
<1>2. IsSeq(toClient) /\ Len(toClient) \in Nat
  BY SeqWidens DEF Basic
<1>3. toClient = SubSeq(toClient, 1, Len(toClient))
  BY <1>2, SubSeqFull DEF IsSeq
<1>4. \E n \in 0 .. Len(toClient) : toClient' = SubSeq(toClient, 1, n)
  <2>1. CASE Cut
    BY <2>1 DEF Cut
  <2>2. CASE ServeBadFrame \/ ServeEnd
    <3>1. toClient' = toClient
      BY <2>2 DEF ServeBadFrame, ServeEnd
    <3>2. Len(toClient) \in 0 .. Len(toClient)
      BY <1>2
    <3> QED
      BY <1>3, <3>1, <3>2
  <2> QED
    BY <2>1, <2>2
<1> QED
  BY <1>1, <1>4, EndKeeps

LEMMA TaskDataKeeps ==
  ASSUME Basic, Phase, ~IsTool, NEW i \in Ids, TaskData(i), UNCHANGED <<toolVars, scriptVars>>
  PROVE  Basic' /\ Phase' /\ CallStep
<1>1. /\ UNCHANGED <<program, pc, exit, rcvd, toServer, script, step, served, box, ended>>
      /\ box[i].op = "read"
  BY DEF TaskData, clientVars, scriptVars, callVars
<1> DEFINE frame == Answer("read", i, given + 1)  frames == <<frame>>
<1>2. toClient' = toClient \o frames
  BY DEF TaskData, Reply
<1>3. IsSeq(frames)
  BY One
<1>4. Len(frames) = 1 /\ frames[1] = frame
  BY One
<1>5. frame.type # "result"
  BY DEF Answer
<1> HIDE DEF frame, frames
<1>6. /\ IsSeq(toClient') /\ Len(Answers') = Len(Answers) + Len(frames)
      /\ \A k \in 1 .. Len(Answers) : Answers'[k] = Answers[k]
      /\ \A k \in 1 .. Len(frames) : Answers'[Len(Answers) + k] = frames[k]
  BY <1>1, <1>2, <1>3, AnswersCome DEF Basic
<1>7. Basic'
  BY <1>1, <1>6 DEF Basic
<1>8. CallStep
  BY <1>1, NoCall, SameInScript DEF Over
<1>9. Working \/ Beyond
  BY <1>1 DEF Phase, Idle, Asked, Answered, CutOff, NoTask
<1>10. CASE Working
  <2>1. Len(Answers) \in Nat /\ Len(Answers') = Len(Answers) + 1 /\ Answers'[Len(Answers) + 1] = frame
    BY <1>4, <1>6, AnswersAre DEF Basic
  <2>2. NoResult(Len(Answers))'
    BY <1>5, <1>6, <1>10, <2>1, SMTT(30) DEF Working, NoResult
  <2>3. OnlyAcks(Len(toServer))'
    BY <1>1, <1>10 DEF Working, OnlyAcks
  <2> QED
    BY <1>1, <1>7, <1>8, <1>10, <2>2, <2>3 DEF Working, Phase
<1>11. CASE Beyond
  BY <1>1, <1>7, <1>8, <1>11 DEF Beyond, Phase
<1> QED
  BY <1>9, <1>10, <1>11

\* A task answers: the call it works on is served.
LEMMA TaskAnswers ==
  ASSUME Basic, Phase, ~IsTool, NEW i \in Ids, TaskResult(i) \/ StreamFails(i),
         UNCHANGED <<toolVars, scriptVars>>
  PROVE  Basic' /\ Phase' /\ CallStep
<1>1. /\ UNCHANGED <<program, pc, exit, rcvd, toServer, script, step, ended>>
      /\ box[i].op = "read" /\ box' = [box EXCEPT ![i] = Done]
  BY DEF TaskResult, StreamFails, clientVars, scriptVars, callVars
<1>2. PICK ok \in BOOLEAN :
        /\ Respond(i, IF ok THEN Ok ELSE Refused)
        /\ served' = Append(served, [call |-> box[i], ok |-> ok])
  BY DEF TaskResult, StreamFails, Record
<1>3. /\ IsSeq(rcvd) /\ IsSeq(toClient) /\ IsSeq(served) /\ script \in Seq(Made)
      /\ step \in 0 .. Len(script)
  BY DEF Basic
<1>4. ResultComes(ok)
  <2>1. ResultComes((IF ok THEN Ok ELSE Refused) = Ok)
    BY <1>1, <1>2, <1>3, ResultAlone
  <2>2. ((IF ok THEN Ok ELSE Refused) = Ok) = ok
    BY DEF Ok, Refused
  <2> QED
    BY <2>1, <2>2 DEF ResultComes
<1>5. IsSeq(served')
  BY <1>2, <1>3, Appended
<1>6. Basic'
  BY <1>1, <1>4, <1>5 DEF Basic, ResultComes
<1>7. Working \/ Beyond
  BY <1>1 DEF Phase, Idle, Asked, Answered, CutOff, NoTask
<1>8. CASE Working
  <2>1. /\ pc = "read" /\ step < Len(script) /\ Len(served) = step /\ i = 0
        /\ box[0] = script[step + 1] /\ box[1].op # "read" /\ ~ended
    BY <1>1, <1>8 DEF Working, Basic, Ids
  <2>2. ~Over
    BY <2>1 DEF Basic, Over
  <2>3. CallStep /\ Len(served') = step + 1 /\ served'[step + 1].ok = ok
    BY <1>1, <1>2, <1>3, <2>1, <2>2, CallServed
  <2>4. NoTask'
    <3>1. DOMAIN box = Ids
      BY DEF Basic
    <3> QED
      BY <1>1, <2>1, <3>1 DEF NoTask, Done, Call, Ids
  <2>5. /\ IsSeq(toClient') /\ Len(Answers') > Len(Answers) /\ Len(Answers) \in Nat
        /\ Len(Answers') \in Nat /\ Answers' # <<>>
    <3>1. IsSeq(rcvd') /\ IsSeq(toClient')
      BY <1>1, <1>3, <1>4 DEF ResultComes
    <3>2. IsSeq(Answers')
      BY <3>1, Joined DEF Answers
    <3>3. Len(Answers) \in Nat
      BY <1>3, AnswersAre
    <3> QED
      BY <1>4, <3>1, <3>2, <3>3, SeqWidens DEF ResultComes
  <2>6. NoResult(Len(Answers) - 1)'
    BY <1>4, <1>8, <2>5 DEF NoResult, Working, ResultComes
  <2>7. OnlyAcks(Len(toServer))'
    BY <1>1, <1>8 DEF Working, OnlyAcks
  <2>8. Answered'
    BY <1>1, <1>4, <2>1, <2>3, <2>4, <2>5, <2>6, <2>7 DEF Answered, ResultComes
  <2> QED
    BY <1>6, <2>3, <2>8 DEF Phase
<1>9. CASE Beyond
  <2>1. /\ program = "buttonDemo" /\ step = Len(script) /\ step <= Len(served)
    BY <1>9 DEF Beyond
  <2>2. InScript' = InScript /\ Len(served') = Len(served) + 1
    BY <1>1, <1>2, <1>3, <2>1, LongInScript
  <2>3. Len(served) \in Nat /\ step \in Nat
    BY <1>3, SeqWidens, LenProperties
  <2>4. Beyond'
    BY <1>1, <1>9, <2>2, <2>3 DEF Beyond
  <2>5. CallStep
    BY <1>1, <2>2, NoCall DEF Over
  <2> QED
    BY <1>6, <2>4, <2>5 DEF Phase
<1> QED
  BY <1>7, <1>8, <1>9

----------------------------------------------------------------------------
(* The program's steps.                                                    *)

\* The variables that no step of the program changes.
TheirsKept == UNCHANGED <<program, toClient, ended, box, served>>

LEMMA OthersKept ==
  ASSUME Others, UNCHANGED program
  PROVE  TheirsKept
BY DEF Others, TheirsKept, sessionVars, answerVars

LEMMA Sent ==
  ASSUME IsSeq(toServer), NEW x, Send(<<x>>) \/ SendFails
  PROVE  /\ IsSeq(toServer')
         /\ ended => toServer' = toServer
         /\ ~ended => /\ Len(toServer') = Len(toServer) + 1 /\ toServer'[Len(toServer) + 1] = x
                      /\ \A k \in 1 .. Len(toServer) : toServer'[k] = toServer[k]
<1> DEFINE frames == <<x>>
<1>1. CASE ended
  BY <1>1 DEF Send, SendFails
<1>2. CASE ~ended
  <2>1. IsSeq(frames)
    BY One
  <2>2. Len(frames) = 1 /\ frames[1] = x
    BY One
  <2>3. toServer' = toServer \o frames
    BY <1>2 DEF Send, SendFails
  <2> HIDE DEF frames
  <2>4. /\ IsSeq(toServer') /\ Len(toServer') = Len(toServer) + Len(frames)
        /\ \A k \in 1 .. Len(toServer) : toServer'[k] = toServer[k]
        /\ \A k \in 1 .. Len(frames) : toServer'[Len(toServer) + k] = frames[k]
    BY <2>1, <2>3, Joined
  <2> QED
    BY <1>2, <2>2, <2>4
<1> QED
  BY <1>1, <1>2

LEMMA AckSent ==
  ASSUME IsSeq(toServer), NEW x, x.type = "ack", Send(<<x>>) \/ SendFails, OnlyAcks(Len(toServer))
  PROVE  OnlyAcks(Len(toServer))'
<1>1. CASE ended
  BY <1>1, Sent DEF OnlyAcks
<1>2. CASE ~ended
  <2>1. /\ Len(toServer') = Len(toServer) + 1 /\ toServer'[Len(toServer) + 1] = x
        /\ \A k \in 1 .. Len(toServer) : toServer'[k] = toServer[k]
    BY <1>2, Sent
  <2>2. Len(toServer) \in Nat
    BY SeqWidens
  <2>3. ASSUME NEW k \in 1 .. Len(toServer') PROVE toServer'[k].type = "ack"
    <3>1. CASE k = Len(toServer) + 1
      BY <2>1, <3>1
    <3>2. CASE k # Len(toServer) + 1
      <4>1. k \in 1 .. Len(toServer)
        BY <2>1, <2>2, <3>2
      <4> QED
        BY <2>1, <4>1 DEF OnlyAcks
    <3> QED
      BY <3>1, <3>2
  <2> QED
    BY <2>3 DEF OnlyAcks
<1> QED
  BY <1>1, <1>2

\* Once the session is over no task is left.
LEMMA EndedPhases ==
  ASSUME Phase, ended, pc = "read"
  PROVE  NoTask
BY DEF Phase, Idle, Asked, Working, Answered, Beyond, CutOff

\* The steps that make no call and wait for none.
LEMMA QuietKeeps ==
  ASSUME Basic, Phase, ~IsTool, TheirsKept, UNCHANGED <<script, step>>,
         pc # "exited", pc' # "read",
         pc' = "clicks" => pc = "clicks",
         pc = "clicks" => pc' \in {"clicks", "exited"},
         pc = "read" => ended /\ pc' = "exited",
         (pc' = "exited") = (exit' # "none"),
         pc' \in {"status", "wait", "block", "threads"} => step = Len(script),
         pc' \in {"status", "wait"} => program # "buttonDemo",
         IF pc = "clicks" THEN IsSeq(toServer') ELSE toServer' = toServer,
         rcvd' = rcvd \/ (pc = "clicks" /\ rcvd # <<>> /\ rcvd' = Tail(rcvd))
  PROVE  Basic' /\ Phase' /\ CallStep
<1>1. UNCHANGED <<program, toClient, ended, box, served>>
  BY DEF TheirsKept
<1>2. /\ IsSeq(rcvd) /\ IsSeq(toClient) /\ IsSeq(toServer) /\ exit = "none"
      /\ pc = "clicks" => step = Len(script)
  BY DEF Basic
<1>3. IsSeq(rcvd') /\ IsSeq(toServer')
  BY <1>2, Tailed
<1>4. Basic'
  BY <1>1, <1>2, <1>3 DEF Basic
<1>5. CallStep
  <2>1. Over => Over'
    BY <1>1, <1>2 DEF Over
  <2> QED
    BY <1>1, <2>1, NoCall, SameInScript
<1>6. CASE pc = "read"
  <2>1. NoTask
    BY <1>6, EndedPhases
  <2>2. CutOff'
    BY <1>1, <1>6, <2>1 DEF CutOff, NoTask
  <2> QED
    BY <1>4, <1>5, <2>2 DEF Phase
<1>7. CASE Beyond
  <2>1. Beyond'
    BY <1>1, <1>7 DEF Beyond
  <2> QED
    BY <1>4, <1>5, <2>1 DEF Phase
<1>8. CASE Idle
  <2>1. pc # "clicks" /\ pc' # "clicks" /\ rcvd' = rcvd /\ toServer' = toServer
    BY <1>8 DEF Idle
  <2>2. Answers' = Answers
    BY <1>1, <2>1 DEF Answers
  <2>3. Idle'
    BY <1>1, <1>8, <2>1, <2>2 DEF Idle, NoTask, OnlyAcks
  <2> QED
    BY <1>4, <1>5, <2>3 DEF Phase
<1>9. CASE CutOff
  <2>1. NoResult(Len(Answers))'
    <3>1. \A k \in 1 .. Len(Answers) : Answers[k].type # "result"
      BY <1>9 DEF CutOff, NoResult
    <3>2. CASE rcvd' = rcvd
      BY <1>1, <3>1, <3>2 DEF NoResult, Answers
    <3>3. CASE rcvd # <<>> /\ rcvd' = Tail(rcvd)
      <4>1. /\ Len(Answers') = Len(Answers) - 1 /\ Len(Answers) \in Nat
            /\ \A k \in 1 .. Len(Answers) - 1 : Answers'[k] = Answers[k + 1]
        BY <1>1, <1>2, <3>3, AnswerTaken, AnswersAre
      <4>2. ASSUME NEW k \in 1 .. Len(Answers') PROVE Answers'[k].type # "result"
        <5>1. k \in 1 .. Len(Answers) - 1 /\ k + 1 \in 1 .. Len(Answers)
          BY <4>1
        <5> QED
          BY <3>1, <4>1, <5>1
      <4> QED
        BY <4>2 DEF NoResult
    <3> QED
      BY <3>2, <3>3
  <2>2. CutOff'
    BY <1>1, <1>9, <2>1 DEF CutOff, NoTask
  <2> QED
    BY <1>4, <1>5, <2>2 DEF Phase
<1> QED
  BY <1>6, <1>7, <1>8, <1>9 DEF Phase, Asked, Working, Answered

\* Before a receiver is thrown away, the session was over or it was empty.
LEMMA DroppedKeepsCutOff ==
  ASSUME Basic, CutOff, pc # "exited", TheirsKept, rcvd' = <<>>
  PROVE  CutOff'
<1>1. UNCHANGED <<program, toClient, ended, box, served>>
  BY DEF TheirsKept
<1>2. /\ IsSeq(rcvd')
      /\ \A k \in 1 .. Len(Answers') : \E j \in 1 .. Len(Answers) : Answers'[k] = Answers[j]
  BY <1>1, AnswersDropped DEF Basic
<1>3. NoResult(Len(Answers))'
  BY <1>2 DEF CutOff, NoResult
<1> QED
  BY <1>1, <1>3 DEF CutOff, NoTask

LEMMA DroppedWhenIdle ==
  ASSUME Basic, Idle, TheirsKept, rcvd' = <<>>
  PROVE  Answers' = <<>>
<1>1. UNCHANGED toClient /\ IsSeq(rcvd) /\ IsSeq(toClient)
  BY DEF TheirsKept, Basic
<1>2. Answers' = toClient
  BY <1>1, AnswersDropped
<1> QED
  BY <1>1, <1>2, AnswersAre DEF Idle

LEMMA MakeCallKeeps ==
  ASSUME Basic, Phase, ~IsTool, MakeCall, TheirsKept
  PROVE  Basic' /\ Phase' /\ CallStep
<1> DEFINE call  == script[step + 1]
           frame == Frame("request", 0, call, Descriptor(call), [r \in call.rows |-> raster[r]])
<1>1. UNCHANGED <<program, toClient, ended, box, served>>
  BY DEF TheirsKept
<1>2. pc = "next" /\ step < Len(script) /\ UNCHANGED <<script, step>>
  BY DEF MakeCall
<1>3. CASE Killed
  <2>1. pc' = "exited" /\ exit' = "killed" /\ rcvd' = rcvd /\ toServer' = toServer
    BY <1>3 DEF Killed, Exit
  <2> QED
    BY <1>2, <2>1, QuietKeeps
<1>4. CASE ~Killed
  <2>1. /\ Send(<<frame>>) \/ SendFails
        /\ pc' = "read" /\ rcvd' = <<>> /\ exit' = exit
    BY <1>4 DEF MakeCall
  <2>2. frame.type = "request" /\ frame.id = 0 /\ frame.call = script[step + 1]
    BY DEF Frame
  <2> HIDE DEF frame
  <2>3. /\ IsSeq(toServer') /\ IsSeq(toServer)
        /\ ~ended => /\ Len(toServer') = Len(toServer) + 1 /\ toServer'[Len(toServer) + 1] = frame
                     /\ \A k \in 1 .. Len(toServer) : toServer'[k] = toServer[k]
    BY <2>1, Sent DEF Basic
  <2>4. IsSeq(rcvd')
    BY <2>1, None
  <2>5. Basic'
    BY <1>1, <1>2, <2>1, <2>3, <2>4 DEF Basic
  <2>6. CallStep
    BY <1>1, <1>2, <2>1, NoCall, SameInScript DEF Over
  <2>7. CASE Idle
    <3>1. Answers' = <<>>
      BY <2>1, <2>7, DroppedWhenIdle
    <3>2. CASE ended
      <4>1. Len(Answers') = 0
        BY <3>1, None
      <4>2. CutOff'
        BY <1>1, <2>7, <3>2, <4>1 DEF CutOff, Idle, NoTask, NoResult
      <4> QED
        BY <2>5, <2>6, <4>2 DEF Phase
    <3>3. CASE ~ended
      <4>1. Len(toServer) \in Nat
        BY <2>3, SeqWidens
      <4>2. Len(toServer') = Len(toServer) + 1 /\ toServer'[Len(toServer')] = frame /\ toServer' # <<>>
        <5>1. Len(toServer') # 0
          BY <2>3, <3>3, <4>1
        <5> QED
          BY <2>3, <3>3, <5>1, None
      <4>3. OnlyAcks(Len(toServer) - 1)'
        <5>1. \A k \in 1 .. Len(toServer) : toServer[k].type = "ack"
          BY <2>7 DEF Idle, OnlyAcks
        <5>2. \A k \in 1 .. Len(toServer') - 1 : toServer'[k].type = "ack"
          BY <2>3, <3>3, <4>1, <5>1
        <5> QED
          BY <5>2 DEF OnlyAcks
      <4>4. Asked'
        BY <1>1, <1>2, <2>1, <2>2, <2>7, <3>1, <3>3, <4>2, <4>3 DEF Asked, Idle, NoTask
      <4> QED
        BY <2>5, <2>6, <4>4 DEF Phase
    <3> QED
      BY <3>2, <3>3
  <2>8. CASE CutOff
    BY <1>2, <2>1, <2>5, <2>6, <2>8, DroppedKeepsCutOff DEF Phase
  <2> QED
    BY <1>2, <2>7, <2>8 DEF Phase, Asked, Working, Answered, Beyond
<1> QED
  BY <1>3, <1>4

LEMMA ReadClicksKeeps ==
  ASSUME Basic, Phase, ~IsTool, ReadClicks, TheirsKept
  PROVE  Basic' /\ Phase' /\ CallStep
<1> DEFINE frame == Frame("request", 0, Call("read", "clicked"), 0, <<>>)
<1>1. UNCHANGED <<program, toClient, ended, box, served>>
  BY DEF TheirsKept
<1>2. pc = "next" /\ step = Len(script) /\ UNCHANGED <<script, step>> /\ program = "buttonDemo"
  BY DEF ReadClicks, AtScriptEnd, callVars
<1>3. CASE Killed
  <2>1. pc' = "exited" /\ exit' = "killed" /\ rcvd' = rcvd /\ toServer' = toServer
    BY <1>3 DEF Killed, Exit
  <2> QED
    BY <1>2, <2>1, QuietKeeps
<1>4. CASE ~Killed
  <2>1. /\ Send(<<frame>>) \/ SendFails
        /\ pc' = "clicks" /\ rcvd' = <<>> /\ exit' = exit
    BY <1>4 DEF ReadClicks
  <2> HIDE DEF frame
  <2>2. IsSeq(toServer') /\ IsSeq(rcvd')
    BY <2>1, Sent, None DEF Basic
  <2>3. Basic'
    BY <1>1, <1>2, <2>1, <2>2 DEF Basic
  <2>4. CallStep
    BY <1>1, <1>2, <2>1, NoCall, SameInScript DEF Over
  <2>5. CASE Idle
    <3>1. Len(served) \in Nat /\ step \in Nat
      BY LenProperties, SeqWidens DEF Basic
    <3>2. Beyond'
      BY <1>1, <1>2, <2>1, <2>5, <3>1 DEF Idle, Beyond
    <3> QED
      BY <2>3, <2>4, <3>2 DEF Phase
  <2>6. CASE CutOff
    BY <1>2, <2>1, <2>3, <2>4, <2>6, DroppedKeepsCutOff DEF Phase
  <2> QED
    BY <1>2, <2>5, <2>6 DEF Phase, Asked, Working, Answered, Beyond
<1> QED
  BY <1>3, <1>4

LEMMA TakeItemKeeps ==
  ASSUME Basic, Phase, ~IsTool, TakeItem, TheirsKept
  PROVE  Basic' /\ Phase' /\ CallStep
<1> DEFINE ack == Signal("ack", 0)
<1>1. UNCHANGED <<program, toClient, ended, box, served>>
  BY DEF TheirsKept
<1>2. /\ pc = "read" /\ rcvd # <<>> /\ Head(rcvd).type # "result" /\ UNCHANGED <<script, step>>
      /\ IsSeq(rcvd) /\ IsSeq(toClient) /\ IsSeq(toServer)
  BY DEF TakeItem, Waiting, callVars, Basic
<1>3. CASE Killed
  <2>1. pc' = "exited" /\ exit' = "killed" /\ rcvd' = rcvd /\ toServer' = toServer /\ ended
    BY <1>3 DEF Killed, Exit
  <2> QED
    BY <1>2, <2>1, QuietKeeps
<1>4. CASE ~Killed
  <2>1. /\ toServer' = toServer \/ Send(<<ack>>) \/ SendFails
        /\ pc' = "read" /\ rcvd' = Tail(rcvd) /\ exit' = exit
    BY <1>2, <1>4 DEF TakeItem
  <2>2. ack.type = "ack"
    BY DEF Signal, Frame
  <2> HIDE DEF ack
  <2>3. IsSeq(toServer') /\ (OnlyAcks(Len(toServer)) => OnlyAcks(Len(toServer))')
    <3>1. CASE toServer' = toServer
      BY <1>2, <3>1 DEF OnlyAcks
    <3>2. CASE Send(<<ack>>) \/ SendFails
      BY <1>2, <2>2, <3>2, Sent, AckSent
    <3> QED
      BY <2>1, <3>1, <3>2
  <2>4. /\ IsSeq(rcvd') /\ Len(Answers') = Len(Answers) - 1
        /\ \A k \in 1 .. Len(Answers) - 1 : Answers'[k] = Answers[k + 1]
    BY <1>1, <1>2, <2>1, AnswerTaken
  <2>5. Len(Answers) \in Nat /\ Len(Answers) >= 1 /\ Answers # <<>> /\ Answers[1].type # "result"
    BY <1>2, AnswersAre
  <2>6. Basic'
    BY <1>1, <1>2, <2>1, <2>3, <2>4 DEF Basic
  <2>7. CallStep
    BY <1>1, <1>2, <2>1, NoCall, SameInScript DEF Over
  <2>8. CASE NoResult(Len(Answers))
    <3>1. \A k \in 1 .. Len(Answers) : Answers[k].type # "result"
      BY <2>8 DEF NoResult
    <3>2. ASSUME NEW k \in 1 .. Len(Answers') PROVE Answers'[k].type # "result"
      <4>1. k \in 1 .. Len(Answers) - 1 /\ k + 1 \in 1 .. Len(Answers)
        BY <2>4, <2>5
      <4> QED
        BY <2>4, <3>1, <4>1
    <3>3. NoResult(Len(Answers))'
      BY <3>2 DEF NoResult
    <3>4. CASE CutOff
      <4>1. CutOff'
        BY <1>1, <3>3, <3>4 DEF CutOff, NoTask
      <4> QED
        BY <2>6, <2>7, <4>1 DEF Phase
    <3>5. CASE Working
      <4>1. Working'
        BY <1>1, <1>2, <2>1, <2>3, <3>3, <3>5 DEF Working
      <4> QED
        BY <2>6, <2>7, <4>1 DEF Phase
    <3>6. ~Answered
      <4>1. Len(Answers) \in 1 .. Len(Answers)
        BY <2>5
      <4> QED
        BY <3>1, <4>1 DEF Answered
    <3> QED
      BY <1>2, <2>5, <3>4, <3>5, <3>6 DEF Phase, Idle, Asked, Beyond
  <2>9. CASE Answered
    <3>1. Len(Answers) > 1
      <4>1. Len(Answers) # 1
        BY <2>5, <2>9 DEF Answered
      <4>2. Len(Answers) \in Nat /\ Len(Answers) >= 1
        BY <2>5
      <4>3. \A n \in Nat : n >= 1 /\ n # 1 => n > 1
        OBVIOUS
      <4> QED
        BY <4>1, <4>2, <4>3
    <3>2. IsSeq(Answers') /\ Answers' # <<>>
      <4>1. IsSeq(toClient')
        BY <1>1, <1>2
      <4>2. Len(Answers') # 0
        BY <2>4, <2>5, <3>1
      <4> QED
        BY <2>4, <4>1, <4>2, None, Joined DEF Answers
    <3>3. Answers'[Len(Answers')] = Answers[Len(Answers)]
      <4>1. Len(Answers) \in Nat /\ Len(Answers) - 1 >= 1
        BY <2>5, <3>1
      <4>2. Len(Answers) - 1 \in 1 .. Len(Answers) - 1
        BY <4>1
      <4> QED
        BY <2>4, <2>5, <4>2
    <3>4. \A k \in 1 .. Len(Answers) - 1 : Answers[k].type # "result"
      BY <2>9 DEF Answered, NoResult
    <3>5. ASSUME NEW k \in 1 .. Len(Answers') - 1 PROVE Answers'[k].type # "result"
      <4>1. k \in 1 .. Len(Answers) - 1 /\ k + 1 \in 1 .. Len(Answers) - 1
        BY <2>4, <2>5
      <4> QED
        BY <2>4, <3>4, <4>1
    <3>6. NoResult(Len(Answers) - 1)'
      BY <3>5 DEF NoResult
    <3>7. Answered'
      BY <1>1, <1>2, <2>1, <2>3, <2>9, <3>2, <3>3, <3>6 DEF Answered, NoTask
    <3> QED
      BY <2>6, <2>7, <3>7 DEF Phase
  <2> QED
    BY <1>2, <2>5, <2>8, <2>9 DEF Phase, Idle, Asked, Working, Beyond, CutOff
<1> QED
  BY <1>3, <1>4

LEMMA TakeResultKeeps ==
  ASSUME Basic, Phase, ~IsTool, TakeResult, TheirsKept
  PROVE  Basic' /\ Phase' /\ CallStep
<1>1. UNCHANGED <<program, toClient, ended, box, served>>
  BY DEF TheirsKept
<1>2. /\ pc = "read" /\ rcvd # <<>> /\ Head(rcvd).type = "result" /\ rcvd' = Tail(rcvd)
      /\ result' = Head(rcvd).value /\ step' = step + 1 /\ UNCHANGED <<script, toServer>>
  BY DEF TakeResult, Waiting
<1>3. /\ IsSeq(rcvd) /\ IsSeq(toClient) /\ IsSeq(served) /\ script \in Seq(Made)
      /\ step \in 0 .. Len(script) /\ step < Len(script) /\ exit = "none" /\ ended \in BOOLEAN
  BY <1>2 DEF Basic
<1>4. /\ IsSeq(rcvd') /\ Len(Answers') = Len(Answers) - 1
      /\ Len(Answers) \in Nat /\ Len(Answers) >= 1 /\ Answers # <<>> /\ Head(rcvd) = Answers[1]
  BY <1>1, <1>2, <1>3, AnswerTaken, AnswersAre
<1>5. Answered
  <2>1. ~NoResult(Len(Answers))
    BY <1>2, <1>4 DEF NoResult
  <2> QED
    BY <1>2, <1>4, <2>1 DEF Phase, Idle, Asked, Working, Beyond, CutOff
<1>6. Len(Answers) = 1
  <2>1. ASSUME Len(Answers) # 1 PROVE FALSE
    <3>1. \A n \in Nat : n >= 1 /\ n # 1 => 1 \in 1 .. n - 1
      OBVIOUS
    <3>2. 1 \in 1 .. Len(Answers) - 1
      BY <1>4, <2>1, <3>1
    <3> QED
      BY <1>2, <1>4, <1>5, <3>2 DEF Answered, NoResult
  <2> QED
    BY <2>1
<1>7. served[step + 1].ok = (result' = Ok)
  BY <1>2, <1>4, <1>5, <1>6 DEF Answered
<1>8. /\ pc' \in {"next", "exited"} /\ (pc' = "exited") = (exit' # "none")
      /\ (exit' # "none") = ~(result' = Ok \/ IsOptional(script[step + 1]))
  <2>1. CASE result' = Ok \/ IsOptional(script[step + 1])
    BY <1>3, <2>1 DEF TakeResult
  <2>2. CASE ~(result' = Ok \/ IsOptional(script[step + 1]))
    <3>1. pc' = "exited" /\ exit' = (IF program = "fset" THEN "success" ELSE "failure")
      BY <2>2 DEF TakeResult, Exit
    <3> QED
      BY <2>2, <3>1
  <2> QED
    BY <2>1, <2>2
<1>9. step' \in 0 .. Len(script') /\ Len(script) \in Nat
  BY <1>2, <1>3, LenProperties
<1>10. Basic'
  BY <1>1, <1>2, <1>3, <1>4, <1>8, <1>9 DEF Basic
<1>11. Answers' = <<>>
  <2>1. IsSeq(Answers')
    BY <1>1, <1>3, <1>4, Joined DEF Answers
  <2>2. Len(Answers') = 0
    BY <1>4, <1>6
  <2> QED
    BY <2>1, <2>2, SeqWidens
<1>12. Idle'
  BY <1>1, <1>2, <1>5, <1>8, <1>11 DEF Answered, Idle, OnlyAcks, NoTask
<1>13. InScript = served /\ InScript' = served
  <2>1. Len(served) = step + 1
    BY <1>5 DEF Answered
  <2>2. InScript = served
    BY <1>3, <1>9, <2>1, ShortInScript
  <2> QED
    BY <1>1, <1>2, <2>2, SameInScript
<1>14. Over' = (Over \/ ~(served[step + 1].ok \/ IsOptional(script[step + 1])))
  BY <1>1, <1>3, <1>7, <1>8 DEF Over
<1>15. C!Return
  BY <1>2, <1>5, <1>13, <1>14 DEF C!Return, Answered
<1> QED
  BY <1>10, <1>12, <1>15 DEF Phase, CallStep, C!CNext

LEMMA LoseConnectionKeeps ==
  ASSUME Basic, Phase, ~IsTool, LoseConnection, TheirsKept
  PROVE  Basic' /\ Phase' /\ CallStep
<1>1. UNCHANGED <<program, toClient, ended, box, served>>
  BY DEF TheirsKept
<1>2. /\ pc = "read" /\ rcvd = <<>> /\ toClient = <<>> /\ ended
      /\ UNCHANGED <<script, toServer, rcvd>>
  BY DEF LoseConnection, AtEnd
<1>3. step \in 0 .. Len(script) /\ step < Len(script) /\ exit = "none" /\ Len(script) \in Nat
  BY <1>2, LenProperties DEF Basic
<1>4. CASE IsOptional(script[step + 1])
  <2>1. step' = step + 1 /\ pc' = "next" /\ exit' = exit
    BY <1>4 DEF LoseConnection
  <2>2. Basic'
    BY <1>1, <1>2, <1>3, <2>1 DEF Basic
  <2>3. Answers = <<>>
    BY <1>2, AnswersAre DEF Basic
  <2>4. CutOff'
    <3>1. CutOff
      BY <1>2, <2>3 DEF Phase, Idle, Asked, Working, Answered, Beyond
    <3>2. Answers' = Answers
      BY <1>1, <1>2 DEF Answers
    <3> QED
      BY <1>1, <1>2, <3>1, <3>2 DEF CutOff, NoTask, NoResult
  <2>5. InScript' = InScript
    BY <1>1, <1>2, SameInScript
  <2>6. Over' = Over /\ Over
    BY <1>1, <1>2, <2>1 DEF Over
  <2>7. C!GiveUp
    BY <1>2, <1>3, <1>4, <2>1, <2>5, <2>6 DEF C!GiveUp
  <2> QED
    BY <2>2, <2>4, <2>7 DEF Phase, CallStep, C!CNext
<1>5. CASE ~IsOptional(script[step + 1])
  <2>1. step' = step /\ pc' = "exited" /\ exit' = "abort"
    BY <1>5 DEF LoseConnection, Exit
  <2> QED
    BY <1>2, <2>1, QuietKeeps
<1> QED
  BY <1>4, <1>5

\* The program writes the image again.
LEMMA SeedChangedKeeps ==
  ASSUME Basic, Phase, ~IsTool, SeedChanged, TheirsKept
  PROVE  Basic' /\ Phase' /\ CallStep
<1> DEFINE image == WriteImage
<1>0. script' = script \o image
  BY DEF SeedChanged
<1>1. /\ UNCHANGED <<program, toClient, ended, box, served>>
      /\ pc = "wait" /\ pc' = "next" /\ UNCHANGED <<exit, rcvd, toServer, step>>
  BY DEF TheirsKept, SeedChanged
<1>2. /\ script \in Seq(Made) /\ step = Len(script) /\ program # "buttonDemo"
      /\ step \in 0 .. Len(script) /\ exit = "none"
  BY <1>1 DEF Basic
<1>3. image \in Seq(Made) /\ Len(image) > 0
  BY ScriptsMade, WriteImageIs
<1> HIDE DEF image
<1>4. /\ script' \in Seq(Made) /\ Len(script') = Len(script) + Len(image)
      /\ Len(script) \in Nat /\ Len(image) \in Nat
  BY <1>0, <1>2, <1>3, ConcatProperties, LenProperties
<1>5. SubSeq(script', 1, Len(script)) = script
  <2>1. CASE Len(script) = 0
    BY <1>2, <2>1, EmptySeq, SubSeqEmpty
  <2>2. CASE Len(script) # 0
    <3>1. 1 \in 1 .. Len(script) /\ Len(script) \in 1 .. Len(script)
      BY <1>4, <2>2
    <3>2. SubSeq(script \o image, 1, Len(script)) = SubSeq(script, 1, Len(script))
      BY <1>2, <1>3, <3>1, SubSeqOfConcat1
    <3> QED
      BY <1>0, <1>2, <3>2, SubSeqFull
  <2> QED
    BY <2>1, <2>2
<1>6. Basic'
  <2>1. step' \in 0 .. Len(script')
    BY <1>1, <1>2, <1>3, <1>4
  <2> QED
    BY <1>1, <1>2, <1>4, <2>1 DEF Basic
<1>7. Answers' = Answers
  BY <1>1 DEF Answers
<1>8. Idle => Idle'
  BY <1>1, <1>7 DEF Idle, OnlyAcks, NoTask
<1>9. CutOff => CutOff'
  BY <1>1, <1>7 DEF CutOff, NoTask, NoResult
<1>10. Phase'
  BY <1>1, <1>8, <1>9 DEF Phase, Asked, Working, Answered, Beyond
<1>11. InScript = served /\ InScript' = served
  <2>1. IsTool' <=> IsTool
    BY <1>1 DEF IsTool
  <2> QED
    BY <1>1, <1>2, <2>1 DEF InScript
<1>12. Over' = Over
  BY <1>1 DEF Over
<1>13. C!Extend
  BY <1>1, <1>2, <1>3, <1>4, <1>5, <1>11, <1>12 DEF C!Extend
<1> QED
  BY <1>6, <1>10, <1>13 DEF CallStep, C!CNext

LEMMA ReceiveKeeps ==
  ASSUME Basic, Phase, ~IsTool, Receive, UNCHANGED scriptVars
  PROVE  Basic' /\ Phase' /\ CallStep
<1>1. /\ UNCHANGED <<program, pc, exit, toServer, ended, box, served, script, step>>
  BY DEF Receive, sessionVars, answerVars, scriptVars, callVars
<1>2. IsSeq(rcvd') /\ IsSeq(toClient') /\ Answers' = Answers
  BY AnswersRead DEF Basic
<1>3. Basic'
  BY <1>1, <1>2 DEF Basic
<1>4. CallStep
  BY <1>1, NoCall, SameInScript DEF Over
<1>5. /\ \A n : OnlyAcks(n)' <=> OnlyAcks(n)
      /\ \A n : NoResult(n)' <=> NoResult(n)
      /\ NoTask' <=> NoTask
  BY <1>1, <1>2 DEF OnlyAcks, NoResult, NoTask
<1>6. Phase'
  <2>1. /\ Idle => Idle'
        /\ Asked => Asked'
    BY <1>1, <1>2, <1>5 DEF Idle, Asked
  <2>2. Working => Working'
    BY <1>1, <1>2, <1>5 DEF Working
  <2>3. Answered => Answered'
    BY <1>1, <1>2, <1>5 DEF Answered
  <2>4. Beyond => Beyond'
    BY <1>1 DEF Beyond
  <2>5. CutOff => CutOff'
    BY <1>1, <1>2, <1>5 DEF CutOff
  <2> QED
    BY <2>1, <2>2, <2>3, <2>4, <2>5 DEF Phase
<1> QED
  BY <1>3, <1>4, <1>6

LEMMA HandleClickKeeps ==
  ASSUME Basic, Phase, ~IsTool, HandleClick, TheirsKept
  PROVE  Basic' /\ Phase' /\ CallStep
<1>1. pc = "clicks" /\ rcvd # <<>> /\ UNCHANGED <<script, step>> /\ exit = "none"
  BY DEF HandleClick, Clicks, Basic
<1>2. CASE Killed
  <2>1. pc' = "exited" /\ exit' = "killed" /\ rcvd' = rcvd /\ toServer' = toServer
    BY <1>2 DEF Killed, Exit
  <2>2. IsSeq(toServer')
    BY <2>1 DEF Basic
  <2> QED
    BY <1>1, <2>1, <2>2, QuietKeeps
<1>3. CASE ~Killed
  <2>1. /\ rcvd' = Tail(rcvd) /\ pc' = pc /\ exit' = exit
        /\ \E x : Send(<<x>>) \/ SendFails
    BY <1>3 DEF HandleClick
  <2>2. IsSeq(toServer')
    BY <2>1, Sent DEF Basic
  <2> QED
    BY <1>1, <2>1, <2>2, QuietKeeps
<1> QED
  BY <1>2, <1>3

\* The steps that end the program, or lead from one place after the script to
\* another.
LEMMA LaterStepsKeep ==
  ASSUME Basic, Phase, ~IsTool, TheirsKept,
         \/ Return \/ Proceed \/ Unblock \/ CheckStatus \/ Poll
         \/ HandleClickResult \/ HandleJunk \/ LoseClicks
  PROVE  Basic' /\ Phase' /\ CallStep
<1>1. IsSeq(toServer) /\ (exit = "none" <=> pc # "exited")
  BY DEF Basic
<1>2. CASE Return
  <2>1. pc = "next" /\ pc' = "exited" /\ exit' = "success" /\ UNCHANGED <<rcvd, toServer, script, step>>
    BY <1>2 DEF Return, AtScriptEnd, Exit, callVars
  <2> QED
    BY <1>1, <2>1, QuietKeeps
<1>3. CASE Proceed
  <2>1. /\ pc = "next" /\ step = Len(script) /\ pc' \in {"threads", "status", "block"}
        /\ pc' = "status" => program = "watch"
        /\ UNCHANGED <<exit, rcvd, toServer, script, step>>
    BY <1>3 DEF Proceed, AtScriptEnd, callVars
  <2> QED
    BY <1>1, <2>1, QuietKeeps
<1>4. CASE Unblock
  <2>1. pc = "block" /\ pc' = "exited" /\ exit' = "success" /\ UNCHANGED <<rcvd, toServer, script, step>>
    BY <1>4 DEF Unblock, Exit, callVars
  <2> QED
    BY <1>1, <2>1, QuietKeeps
<1>5. CASE CheckStatus
  <2>1. /\ pc = "status" /\ UNCHANGED <<rcvd, toServer, script, step>>
        /\ (pc' = "wait" /\ exit' = exit) \/ (pc' = "exited" /\ exit' = "success")
    BY <1>5 DEF CheckStatus, Exit, callVars
  <2>2. step = Len(script) /\ program # "buttonDemo"
    BY <2>1 DEF Basic
  <2> QED
    BY <1>1, <2>1, <2>2, QuietKeeps
<1>6. CASE Poll
  <2>1. pc = "wait" /\ UNCHANGED <<pc, exit, rcvd, toServer, script, step>>
    BY <1>6 DEF Poll, clientVars, callVars
  <2>2. step = Len(script) /\ program # "buttonDemo"
    BY <2>1 DEF Basic
  <2> QED
    BY <1>1, <2>1, <2>2, QuietKeeps
<1>7. CASE HandleClickResult
  <2>1. /\ pc = "clicks" /\ rcvd # <<>> /\ rcvd' = Tail(rcvd) /\ UNCHANGED <<toServer, script, step>>
        /\ \/ pc' = pc /\ exit' = exit
           \/ pc' = "exited" /\ exit' \in {"success", "failure"}
    BY <1>7 DEF HandleClickResult, Clicks, Exit, callVars
  <2> QED
    BY <1>1, <2>1, QuietKeeps
<1>8. CASE HandleJunk
  <2>1. pc = "clicks" /\ pc' = "exited" /\ exit' = "confused" /\ UNCHANGED <<rcvd, toServer, script, step>>
    BY <1>8 DEF HandleJunk, Clicks, Exit, callVars
  <2> QED
    BY <1>1, <2>1, QuietKeeps
<1>9. CASE LoseClicks
  <2>1. pc = "clicks" /\ pc' = "exited" /\ exit' = "failure" /\ UNCHANGED <<rcvd, toServer, script, step>>
    BY <1>9 DEF LoseClicks, Exit, callVars
  <2> QED
    BY <1>1, <2>1, QuietKeeps
<1> QED
  BY <1>2, <1>3, <1>4, <1>5, <1>6, <1>7, <1>8, <1>9

LEMMA ScriptKeeps ==
  ASSUME Basic, Phase, ~IsTool, ScriptStep, Others
  PROVE  Basic' /\ Phase' /\ CallStep
<1>1. UNCHANGED program
  BY DEF ScriptStep, MakeCall, TakeItem, TakeResult, LoseConnection, Return, Proceed, Unblock,
         CheckStatus, SeedChanged, Poll, ReadClicks, HandleClick, HandleClickResult, HandleJunk,
         LoseClicks, Killed, clientVars
<1>2. TheirsKept
  BY <1>1, OthersKept
<1> QED
  BY <1>2, MakeCallKeeps, TakeItemKeeps, TakeResultKeeps, LoseConnectionKeeps, SeedChangedKeeps,
     ReadClicksKeeps, HandleClickKeeps, LaterStepsKeep
     DEF ScriptStep

\* The programs of Tools take no part.
LEMMA ToolKeeps ==
  ASSUME IsTool, script = <<>>, step = 0, UNCHANGED <<program, script, step>>, Over => Over'
  PROVE  CallInv' /\ CallStep
<1>1. InScript = <<>> /\ InScript' = <<>> /\ (IsTool' <=> IsTool)
  BY ToolsMakeNoCalls
<1>2. CallStep
  BY <1>1, NoCall
<1> QED
  BY <1>1, <1>2 DEF CallInv

LEMMA ToolsGoOn ==
  ASSUME IsTool, Next
  PROVE  UNCHANGED <<program, script, step>> /\ (Over => Over')
<1>1. CASE (IsTool /\ ToolStep /\ Others /\ UNCHANGED scriptVars) \/ PingerThread
  <2>1. ended' = ended /\ script' = script /\ step' = step
    BY <1>1 DEF PingerThread, Others, sessionVars, scriptVars, callVars
  <2>2. program' = program /\ (exit' = exit \/ exit' \in {"killed", "success", "failure"})
    BY <1>1 DEF PingerThread, Pinger, SendPing, ToolStep, SendRequest, HandleItem, HandleResult,
                Finish, StartThreads, HandlePong, FinishPings, Killed, Exit
  <2> QED
    BY <2>1, <2>2 DEF Over
<1>2. CASE Receive /\ UNCHANGED <<toolVars, scriptVars>>
  BY <1>2 DEF Receive, sessionVars, scriptVars, callVars, Over
<1>3. CASE Session \/ StreamError \/ Loss
  <2>1. UNCHANGED <<clientVars, script, step>> /\ (ended' = ended \/ ended' = TRUE)
    BY <1>3 DEF Session, StreamError, Loss, SessionStep, Serve, ServeBadFrame, ServeEnd, TaskData,
                TaskResult, StreamFails, Cut, EndSession, scriptVars, callVars
  <2> QED
    BY <2>1 DEF clientVars, Over
<1>4. CASE Drawing \/ Rest
  BY <1>4 DEF Drawing, Rest, vars, connVars, clientVars, sessionVars, scriptVars, callVars, Over
<1> QED
  BY <1>1, <1>2, <1>3, <1>4 DEF Next, Program

\* Nothing that the invariant speaks of changes.
LEMMA NothingHappens ==
  ASSUME CallInv, UNCHANGED connVars, UNCHANGED callVars
  PROVE  CallInv' /\ CallStep
<1>1. UNCHANGED <<program, pc, exit, rcvd, toServer, toClient, ended, box, served, script, step>>
  BY DEF connVars, clientVars, sessionVars, answerVars, callVars
<1>2. CallStep
  BY <1>1, NoCall, SameInScript DEF Over
<1>3. Answers' = Answers /\ (IsTool' <=> IsTool) /\ (Basic' <=> Basic)
  BY <1>1 DEF Answers, IsTool, Basic
<1>4. /\ \A n : OnlyAcks(n)' <=> OnlyAcks(n)
      /\ \A n : NoResult(n)' <=> NoResult(n)
      /\ NoTask' <=> NoTask
  BY <1>1, <1>3 DEF OnlyAcks, NoResult, NoTask
<1>5. Phase => Phase'
  <2>1. (Idle => Idle') /\ (Asked => Asked')
    BY <1>1, <1>3, <1>4 DEF Idle, Asked
  <2>2. Working => Working'
    BY <1>1, <1>3, <1>4 DEF Working
  <2>3. Answered => Answered'
    BY <1>1, <1>3, <1>4 DEF Answered
  <2>4. (Beyond => Beyond') /\ (CutOff => CutOff')
    BY <1>1, <1>3, <1>4 DEF Beyond, CutOff
  <2> QED
    BY <2>1, <2>2, <2>3, <2>4 DEF Phase
<1> QED
  BY <1>1, <1>2, <1>3, <1>5 DEF CallInv

LEMMA InitCalls == Init => CallInv /\ C!CInit
<1> SUFFICES ASSUME Init PROVE CallInv /\ C!CInit
  OBVIOUS
<1>1. /\ exit = "none" /\ rcvd = <<>> /\ toServer = <<>> /\ toClient = <<>> /\ ended = FALSE
      /\ box = [i \in Ids |-> Free] /\ served = <<>> /\ program \in Programs
  BY DEF Init, InitConnection
<1>2. IsSeq(<<>>) /\ Len(<<>>) = 0
  BY None
<1>3. ~Over
  BY <1>1 DEF Over
<1>4. CASE IsTool
  <2>1. script = <<>> /\ step = 0
    BY <1>4 DEF Init
  <2>2. script \in Seq(Made)
    BY <2>1
  <2>3. InScript = <<>>
    BY <1>4, <1>1 DEF InScript
  <2> QED
    BY <1>3, <1>4, <2>1, <2>2, <2>3 DEF CallInv, C!CInit, Over
<1>5. CASE ~IsTool
  <2>1. pc = "next" /\ script \in Scripts[program] /\ step = 0
    BY <1>5 DEF Init, InitScript
  <2>2. program \in DOMAIN Scripts
    BY <1>1, <1>5, ClientsAssumption DEF IsTool
  <2>3. script \in Seq(Made)
    BY <2>1, <2>2, ScriptsMade
  <2>4. Len(script) \in Nat /\ Len(served) = 0
    BY <1>1, <1>2, <2>3, LenProperties
  <2>5. Basic
    <3>1. /\ IsSeq(rcvd) /\ IsSeq(toClient) /\ IsSeq(toServer) /\ IsSeq(served)
          /\ ended \in BOOLEAN /\ DOMAIN box = Ids
      BY <1>1, <1>2
    <3>2. step \in 0 .. Len(script)
      BY <2>1, <2>4
    <3> QED
      BY <1>1, <2>1, <2>3, <3>1, <3>2 DEF Basic
  <2>6. Answers = <<>>
    BY <1>1, <1>2, AnswersAre
  <2>7. NoTask /\ OnlyAcks(Len(toServer))
    BY <1>1, <1>2 DEF NoTask, OnlyAcks, Free, Call
  <2>8. Idle
    BY <2>1, <2>4, <2>6, <2>7 DEF Idle
  <2>9. InScript = <<>>
    BY <1>1, <2>3, <2>4, <1>2, <1>5, ShortInScript
  <2> QED
    BY <1>3, <1>5, <2>1, <2>3, <2>5, <2>8, <2>9 DEF CallInv, Phase, C!CInit, Over
<1> QED
  BY <1>4, <1>5

LEMMA StepKeepsCalls == CallInv /\ [Next]_vars => CallInv' /\ CallStep
<1> SUFFICES ASSUME CallInv, [Next]_vars PROVE CallInv' /\ CallStep
  OBVIOUS
<1>1. CASE UNCHANGED vars \/ Drawing \/ Rest
  <2>1. UNCHANGED connVars /\ UNCHANGED callVars
    BY <1>1 DEF vars, Drawing, Rest, scriptVars
  <2> QED
    BY <2>1, NothingHappens
<1>2. CASE IsTool /\ Next
  BY <1>2, ToolsGoOn, ToolKeeps DEF CallInv
<1>3. CASE ~IsTool /\ Next /\ ~(Drawing \/ Rest)
  <2>1. Basic /\ Phase
    BY <1>3 DEF CallInv
  <2>2. ASSUME program' = program, Basic' /\ Phase' /\ CallStep PROVE CallInv' /\ CallStep
    BY <1>3, <2>2 DEF CallInv, IsTool
  <2>3. CASE ~IsTool /\ ScriptStep /\ Others /\ UNCHANGED <<toolVars, authorVars>>
    <3>1. program' = program
      BY <2>3 DEF ScriptStep, MakeCall, TakeItem, TakeResult, LoseConnection, Return, Proceed,
             Unblock, CheckStatus, SeedChanged, Poll, ReadClicks, HandleClick, HandleClickResult,
             HandleJunk, LoseClicks, Killed, clientVars
    <3> QED
      BY <2>1, <2>2, <2>3, <3>1, ScriptKeeps
  <2>4. CASE Receive /\ UNCHANGED <<toolVars, scriptVars>>
    <3>1. program' = program
      BY <2>4 DEF Receive
    <3> QED
      BY <1>3, <2>1, <2>2, <2>4, <3>1, ReceiveKeeps
  <2>5. CASE Session \/ StreamError \/ Loss
    <3>1. program' = program
      BY <2>5 DEF Session, StreamError, Loss, SessionStep, Serve, ServeBadFrame, ServeEnd, TaskData,
                  TaskResult, StreamFails, Cut, EndSession, clientVars
    <3>2. UNCHANGED <<toolVars, scriptVars>>
      BY <2>5 DEF Session, StreamError, Loss
    <3>3. /\ Serve => Basic' /\ Phase' /\ CallStep
          /\ ServeBadFrame \/ ServeEnd \/ Cut => Basic' /\ Phase' /\ CallStep
      BY <1>3, <2>1, <3>2, ServeKeeps, SessionEnds
    <3>4. ASSUME NEW i \in Ids, TaskData(i) \/ TaskResult(i) \/ StreamFails(i)
          PROVE  Basic' /\ Phase' /\ CallStep
      BY <1>3, <2>1, <3>2, <3>4, TaskDataKeeps, TaskAnswers
    <3> QED
      BY <2>2, <2>5, <3>1, <3>3, <3>4 DEF Session, StreamError, Loss, SessionStep
  <2> QED
    BY <1>3, <2>3, <2>4, <2>5 DEF Next, Program, PingerThread
<1> QED
  BY <1>1, <1>2, <1>3

----------------------------------------------------------------------------

\* Whatever program makes them, and whatever the session refuses, reads or
\* loses: the synced calls (synced.cc) are served one at a time, in the order of
\* the script, each after the one before has returned, and none after one that
\* was refused.
THEOREM ImplementsCalls == Spec => CallsInOrder
<1>1. Init => CallInv /\ C!CInit
  BY InitCalls
<1>2. CallInv /\ [Next]_vars => CallInv' /\ [C!CNext]_(C!cvars)
  BY StepKeepsCalls DEF CallStep
<1> QED
  BY <1>1, <1>2, PTL DEF Spec, CallsInOrder, C!CSpec

\* Whether the program goes on after the k-th call that was served.
GoesOn(k) == InScript[k].ok \/ IsOptional(InScript[k].call)

\* At most one call is served that has not returned; what is served is the
\* script, in its order; and of the calls that have returned each was agreed to
\* or not needed, or the program is over.
PromiseInv ==
  /\ script \in Seq(Made) /\ step \in Nat /\ Over \in BOOLEAN
  /\ InScript \in Seq([call : Made, ok : BOOLEAN])
  /\ step <= Len(script) /\ Len(InScript) <= Len(script) /\ Len(InScript) <= step + 1
  /\ \A k \in 1 .. Len(InScript) : InScript[k].call = script[k]
  /\ \A k \in 1 .. Len(InScript) : k <= step => Over \/ GoesOn(k)
  /\ \A k \in 1 .. Len(InScript) : k < Len(InScript) => GoesOn(k)

\* Nothing is served after a call that was refused and that the program needed;
\* what is served is the beginning of the script.
NothingAfterRefusal ==
  /\ Len(InScript) <= Len(script)
  /\ \A k \in 1 .. Len(InScript) : k < Len(InScript) => GoesOn(k)
  /\ \A k \in 1 .. Len(InScript) : InScript[k].call = script[k]

LEMMA PromiseInit == C!CInit => PromiseInv
<1> SUFFICES ASSUME C!CInit PROVE PromiseInv
  OBVIOUS
<1>1. script \in Seq(Made) /\ step = 0 /\ InScript = <<>> /\ Over = FALSE
  BY DEF C!CInit
<1>2. InScript \in Seq([call : Made, ok : BOOLEAN]) /\ Len(InScript) = 0 /\ Len(script) \in Nat
  BY <1>1
<1>3. Over \in BOOLEAN
  BY <1>1
<1>4. \A k \in 1 .. Len(InScript) : FALSE
  BY <1>2
<1>5. script \in Seq(Made) /\ step = 0
  BY <1>1
<1>6. step \in Nat /\ step <= Len(script) /\ Len(InScript) <= Len(script) /\ Len(InScript) <= step + 1
  BY <1>2, <1>5
<1> QED
  BY <1>2, <1>3, <1>4, <1>5, <1>6, Zenon DEF PromiseInv

LEMMA PromiseServe ==
  ASSUME PromiseInv, C!Serve
  PROVE  PromiseInv'
<1> USE DEF PromiseInv, C!Serve
<1>1. PICK ok \in BOOLEAN : InScript' = Append(InScript, [call |-> script[step + 1], ok |-> ok])
  OBVIOUS
<1> DEFINE new == [call |-> script[step + 1], ok |-> ok]
<1>2. script[step + 1] \in Made
  OBVIOUS
<1>3. new \in [call : Made, ok : BOOLEAN]
  BY <1>2
<1>4. /\ InScript' \in Seq([call : Made, ok : BOOLEAN])
      /\ Len(InScript') = step + 1
      /\ InScript'[step + 1] = new
      /\ \A k \in 1 .. step : InScript'[k] = InScript[k]
  <2> HIDE DEF new
  <2> QED BY <1>1, <1>3 DEF new
<1>5. \A k \in 1 .. step : GoesOn(k)'
  BY <1>4 DEF GoesOn
<1>6. \A k \in 1 .. Len(InScript') : InScript'[k].call = script'[k]
  BY <1>4
<1> QED
  BY <1>4, <1>5, <1>6

LEMMA PromiseReturn ==
  ASSUME PromiseInv, C!Return
  PROVE  PromiseInv'
<1>1. \A k \in 1 .. Len(InScript) : GoesOn(k)' = GoesOn(k)
  BY DEF C!Return, GoesOn
<1>2. InScript[step + 1].call = script[step + 1]
  BY DEF C!Return, PromiseInv
<1>3. GoesOn(step + 1) <=> InScript[step + 1].ok \/ IsOptional(script[step + 1])
  BY <1>2, Zenon DEF GoesOn
<1>4. Over' \in BOOLEAN /\ (Over' \/ GoesOn(step + 1)) /\ (Over => Over')
  BY <1>3 DEF C!Return, PromiseInv
<1> QED
  BY <1>1, <1>4 DEF C!Return, PromiseInv

LEMMA PromiseExtend ==
  ASSUME PromiseInv, C!Extend
  PROVE  PromiseInv'
<1>1. \A k \in 1 .. Len(script) : script'[k] = script[k]
  BY DEF C!Extend, PromiseInv
<1>2. \A k \in 1 .. Len(InScript) : GoesOn(k)' = GoesOn(k)
  BY DEF C!Extend, GoesOn
<1> QED
  BY <1>1, <1>2 DEF C!Extend, PromiseInv

LEMMA PromiseStop ==
  ASSUME PromiseInv, C!Stop
  PROVE  PromiseInv'
  BY DEF PromiseInv, C!Stop, GoesOn

LEMMA PromiseGiveUp ==
  ASSUME PromiseInv, C!GiveUp
  PROVE  PromiseInv'
  BY DEF PromiseInv, C!GiveUp, GoesOn

\* A program that makes its calls one after the other (synced.cc) and gives up
\* at the first that fails leaves no call behind that failed and mattered, but
\* the last.
THEOREM RefusalIsLast == C!CSpec => []NothingAfterRefusal
<1>1. C!CInit => PromiseInv
  BY PromiseInit
<1>2. PromiseInv /\ [C!CNext]_(C!cvars) => PromiseInv'
  <2> SUFFICES ASSUME PromiseInv, [C!CNext]_(C!cvars) PROVE PromiseInv'
    OBVIOUS
  <2>1. CASE C!Serve
    BY <2>1, PromiseServe
  <2>2. CASE C!Return
    BY <2>2, PromiseReturn
  <2>3. CASE C!Extend
    BY <2>3, PromiseExtend
  <2>4. CASE C!Stop
    BY <2>4, PromiseStop
  <2>5. CASE C!GiveUp
    BY <2>5, PromiseGiveUp
  <2>6. CASE UNCHANGED (C!cvars)
    BY <2>6 DEF C!cvars, PromiseInv, GoesOn
  <2> QED
    BY <2>1, <2>2, <2>3, <2>4, <2>5, <2>6 DEF C!CNext
<1>3. PromiseInv => NothingAfterRefusal
  BY DEF PromiseInv, NothingAfterRefusal
<1> QED
  BY <1>1, <1>2, <1>3, PTL DEF C!CSpec

\* So what holds of Calls holds of the programs: what has been served of a script
\* is its beginning, and every call but the last was agreed to or not needed
\* (path_error, which wait_for_result in synced.cc throws, ends the program).
THEOREM NothingServedAfterRefusal == Spec => []NothingAfterRefusal
  BY RefusalIsLast, ImplementsCalls, PTL DEF CallsInOrder

----------------------------------------------------------------------------
(* What the programs have been given when a call returns.                  *)

\* The program has been given the first items of the answer, in order, and the
\* next n are the first frames that it has yet to handle; there are no others.
Flow(n) ==
  /\ IsSeq(taken) /\ (\A k \in 1 .. Len(taken) : taken[k] = k)
  /\ given = Len(taken) + n
  /\ \A k \in 1 .. n : Answers[k].value = Len(taken) + k

\* Between two calls nothing is under way, and what an answer held was given.
Quiet == pc \notin {"read", "clicks", "exited"}

ItemInv ==
  /\ Quiet => Answers = <<>> /\ (result = Ok => Flow(0))
  /\ pc = "read" => result = -1
  /\ Asked => taken = <<>>
  /\ Working => Flow(Len(Answers))
  /\ Answered => Flow(Len(Answers) - 1)

----------------------------------------------------------------------------
(* Items on their way.                                                     *)

LEMMA FlowWhole ==
  ASSUME Flow(0)
  PROVE  taken = [k \in 1 .. given |-> k]
<1>1. IsSeq(taken) /\ given = Len(taken) + 0 /\ \A k \in 1 .. Len(taken) : taken[k] = k
  BY DEF Flow
<1>2. Len(taken) \in Nat /\ DOMAIN taken = 1 .. Len(taken)
  BY <1>1, SeqWidens
<1>3. given = Len(taken)
  BY <1>1, <1>2
<1>4. taken = [k \in DOMAIN taken |-> taken[k]]
  <2> DEFINE R == {taken[k] : k \in DOMAIN taken}
  <2>1. taken \in Seq(R)
    BY <1>1 DEF IsSeq
  <2> HIDE DEF R
  <2>2. taken \in [1 .. Len(taken) -> R]
    BY <2>1
  <2> QED
    BY <2>2
<1> QED
  BY <1>1, <1>2, <1>3, <1>4

LEMMA FlowBegins ==
  ASSUME taken' = <<>>, given' = 0
  PROVE  \A n : n = 0 => Flow(n)'
<1>1. IsSeq(<<>>) /\ Len(<<>>) = 0
  BY None
<1> QED
  BY <1>1 DEF Flow

\* A request that is served at once: its items and its result.
LEMMA ServedItems ==
  ASSUME IsSeq(rcvd), IsSeq(toClient), rcvd' = rcvd, Answers = <<>>, taken' = <<>>,
         NEW f, ServeRequest(f)
  PROVE  Flow(Len(Answers) - 1)' /\ Answers' # <<>>
<1>0. Len(Answers) = 0 /\ IsSeq(<<>>) /\ Len(<<>>) = 0
  BY None
<1>1. CASE ServeLook(f)
  <2>1. PICK n \in Nat :
          /\ given' = n /\ Len(Answers') = 0 + n + 1
          /\ \A k \in 1 .. n : Answers'[0 + k] = Answer(f.call.op, f.id, k)
    BY <1>0, <1>1, LookAnswers
  <2>3. Len(Answers') = n + 1 /\ Len(Answers') # 0
    BY <2>1
  <2>4. \A k \in 1 .. n : Answers'[k].value = 0 + k
    <3>1. ASSUME NEW k \in 1 .. n PROVE Answers'[k].value = 0 + k
      <4>1. Answers'[0 + k] = Answer(f.call.op, f.id, k) /\ 0 + k = k
        BY <2>1
      <4> QED
        BY <4>1 DEF Answer
    <3> QED
      BY <3>1
  <2>5. n = 0 + n /\ Len(Answers') - 1 = n /\ Answers' # <<>>
    BY <2>3, None
  <2>6. Flow(n)'
    BY <1>0, <2>1, <2>4, <2>5 DEF Flow
  <2> QED
    BY <2>5, <2>6 DEF Flow
<1>2. CASE ServeChange(f) \/ ServeRefusal(f)
  <2>1. given' = 0 /\ \E x : Reply(<<x>>)
    BY <1>2 DEF ServeChange, ServeRefusal, Respond
  <2>2. Len(Answers') - 1 = 0 /\ Answers' # <<>>
    BY <1>0, <2>1, OneSent
  <2> QED
    BY <2>1, <2>2, FlowBegins
<1> QED
  BY <1>1, <1>2 DEF ServeRequest

\* A task sends another item.
LEMMA ItemSent ==
  ASSUME IsSeq(rcvd), IsSeq(toClient), NEW i, TaskData(i), Flow(Len(Answers))
  PROVE  Flow(Len(Answers))'
<1> DEFINE frame == Answer("read", i, given + 1)
<1>1. rcvd' = rcvd /\ taken' = taken /\ given' = given + 1 /\ Reply(<<frame>>)
  BY DEF TaskData, clientVars
<1>2. frame.value = given + 1
  BY DEF Answer
<1> HIDE DEF frame
<1>3. /\ Len(Answers) \in Nat /\ Len(Answers') = Len(Answers) + 1
      /\ \A k \in 1 .. Len(Answers) : Answers'[k] = Answers[k]
      /\ Answers'[Len(Answers')] = frame
  BY <1>1, OneSent
<1>4. IsSeq(taken) /\ Len(taken) \in Nat /\ given = Len(taken) + Len(Answers)
  BY SeqWidens DEF Flow
<1>5. ASSUME NEW k \in 1 .. Len(Answers') PROVE Answers'[k].value = Len(taken) + k
  <2>1. CASE k \in 1 .. Len(Answers)
    BY <1>3, <2>1 DEF Flow
  <2>2. CASE k = Len(Answers')
    BY <1>2, <1>3, <1>4, <2>2
  <2> QED
    BY <1>3, <2>1, <2>2
<1>6. given' = Len(taken) + Len(Answers')
  BY <1>1, <1>3, <1>4
<1> QED
  BY <1>1, <1>5, <1>6 DEF Flow

\* A result follows the items.
LEMMA ResultSent ==
  ASSUME IsSeq(rcvd), IsSeq(toClient), rcvd' = rcvd, taken' = taken, given' = given,
         NEW x, Reply(<<x>>), Flow(Len(Answers))
  PROVE  Flow(Len(Answers) - 1)'
<1>1. /\ Len(Answers) \in Nat /\ Len(Answers') = Len(Answers) + 1
      /\ \A k \in 1 .. Len(Answers) : Answers'[k] = Answers[k]
  BY OneSent
<1>2. Len(Answers') - 1 = Len(Answers)
  BY <1>1
<1> QED
  BY <1>1, <1>2 DEF Flow

\* The program is given an item.
LEMMA ItemTaken ==
  ASSUME IsSeq(rcvd), IsSeq(toClient), rcvd # <<>>, rcvd' = Tail(rcvd), toClient' = toClient,
         taken' = Append(taken, Head(rcvd).value), given' = given
  PROVE  \A n \in 1 .. Len(Answers) : Flow(n) => Flow(n - 1)'
<1> SUFFICES ASSUME NEW n \in 1 .. Len(Answers), Flow(n) PROVE Flow(n - 1)'
  OBVIOUS
<1>1. \A k \in 1 .. Len(Answers) - 1 : Answers'[k] = Answers[k + 1]
  BY AnswerTaken
<1>2. Len(Answers) \in Nat /\ Head(rcvd) = Answers[1]
  BY AnswersAre
<1>3. /\ IsSeq(taken') /\ Len(taken') = Len(taken) + 1 /\ Len(taken) \in Nat
      /\ taken'[Len(taken) + 1] = Head(rcvd).value
      /\ \A k \in 1 .. Len(taken) : taken'[k] = taken[k]
  <2>1. IsSeq(taken)
    BY DEF Flow
  <2> QED
    BY <2>1, Appended
<1>4. Head(rcvd).value = Len(taken) + 1 /\ given = Len(taken) + n
  BY <1>2, <1>3 DEF Flow
<1>5. \A k \in 1 .. Len(taken') : taken'[k] = k
  <2>1. ASSUME NEW k \in 1 .. Len(taken') PROVE taken'[k] = k
    <3>1. CASE k \in 1 .. Len(taken)
      BY <1>3, <3>1 DEF Flow
    <3>2. CASE k = Len(taken) + 1
      BY <1>3, <1>4, <3>2
    <3> QED
      BY <1>3, <3>1, <3>2
  <2> QED
    BY <2>1
<1>6. \A k \in 1 .. n - 1 : Answers'[k].value = Len(taken') + k
  <2>1. ASSUME NEW k \in 1 .. n - 1 PROVE Answers'[k].value = Len(taken') + k
    <3>1. k \in 1 .. Len(Answers) - 1 /\ k + 1 \in 1 .. n
      BY <1>2
    <3>2. Answers[k + 1].value = Len(taken) + (k + 1)
      BY <3>1 DEF Flow
    <3> QED
      BY <1>1, <1>3, <3>1, <3>2
  <2> QED
    BY <2>1
<1>7. given' = Len(taken') + (n - 1)
  BY <1>2, <1>3, <1>4
<1> QED
  BY <1>3, <1>5, <1>6, <1>7 DEF Flow

----------------------------------------------------------------------------
(* The synced calls.                                                       *)

\* While a program waits for an answer, each of these tells where the call is.
LEMMA WhereItIs ==
  ASSUME Basic, Phase, pc = "read"
  PROVE  /\ ~ended /\ Len(served) = step /\ NoTask => Asked
         /\ box[0].op = "read" => Working
         /\ (\E k \in 1 .. Len(Answers) : Answers[k].type = "result") => Answered
<1>1. Len(served) \in Nat /\ step \in Nat /\ ~Idle /\ ~Beyond
  BY SeqWidens, LenProperties DEF Basic, Idle, Beyond
<1>2. NoTask => ~Working
  BY DEF NoTask, Working, Ids
<1>3. Len(served) = step => ~Answered
  BY <1>1 DEF Answered
<1>4. CutOff => ended /\ NoTask /\ NoResult(Len(Answers))
  BY DEF CutOff
<1>5. NoTask => box[0].op # "read"
  BY DEF NoTask, Ids
<1>6. Asked \/ Answered => NoTask
  BY DEF Asked, Answered
<1>7. Asked => Answers = <<>> /\ Len(Answers) = 0
  BY None DEF Asked
<1>8. Working \/ CutOff => NoResult(Len(Answers))
  BY <1>4 DEF Working
<1> QED
  BY <1>1, <1>2, <1>3, <1>4, <1>5, <1>6, <1>7, <1>8 DEF Phase, NoResult

LEMMA ItemsSame ==
  ASSUME ItemInv, UNCHANGED <<pc, result, taken, given>>, Answers' = Answers,
         Asked' => Asked, Working' => Working, Answered' => Answered
  PROVE  ItemInv'
BY DEF ItemInv, Quiet, Flow

LEMMA ItemsElsewhere ==
  ASSUME pc' \in {"clicks", "exited"}
  PROVE  ItemInv'
BY DEF ItemInv, Quiet, Asked, Working, Answered

LEMMA ItemsQuiet ==
  ASSUME ItemInv, Quiet, UNCHANGED <<result, taken, given>>, Answers' = Answers, pc' # "read"
  PROVE  ItemInv'
BY DEF ItemInv, Quiet, Flow, Asked, Working, Answered

LEMMA MakeCallItems ==
  ASSUME Basic, Phase, ItemInv, ~IsTool, MakeCall, Others
  PROVE  ItemInv'
<1>1. UNCHANGED <<toClient, box>> /\ pc = "next"
  BY DEF Others, sessionVars, MakeCall
<1>2. CASE Killed
  BY <1>2, ItemsElsewhere DEF Killed, Exit
<1>3. CASE ~Killed
  <2>1. pc' = "read" /\ rcvd' = <<>> /\ taken' = <<>> /\ result' = -1
    BY <1>3 DEF MakeCall
  <2>2. NoTask /\ toClient = <<>>
    <3>1. Idle \/ CutOff
      BY <1>1 DEF Phase, Asked, Working, Answered, Beyond
    <3>2. Answers = <<>>
      BY <1>1 DEF ItemInv, Quiet
    <3> QED
      BY <3>1, <3>2, AnswersAre DEF Idle, CutOff, Basic
  <2>3. IsSeq(rcvd') /\ IsSeq(toClient') /\ toClient' = <<>>
    BY <1>1, <2>1, <2>2, None
  <2>4. Answers' = <<>>
    BY <2>1, <2>3 DEF Answers
  <2>5. ~Working'
    BY <1>1, <2>2 DEF Working, NoTask, Ids
  <2>6. ~Answered'
    BY <2>4 DEF Answered
  <2> QED
    BY <2>1, <2>5, <2>6 DEF ItemInv, Quiet
<1> QED
  BY <1>2, <1>3

LEMMA TakeItemItems ==
  ASSUME Basic, Phase, ItemInv, ~IsTool, TakeItem, Others
  PROVE  ItemInv'
<1>1. /\ UNCHANGED <<toClient, ended, box, served, given, step>> /\ pc = "read" /\ rcvd # <<>>
      /\ Head(rcvd).type # "result"
  BY DEF Others, sessionVars, answerVars, TakeItem, Waiting, callVars
<1>2. CASE Killed
  BY <1>2, ItemsElsewhere DEF Killed, Exit
<1>3. CASE ~Killed
  <2>1. /\ pc' = "read" /\ rcvd' = Tail(rcvd) /\ taken' = Append(taken, Head(rcvd).value)
        /\ result' = result
    BY <1>1, <1>3 DEF TakeItem
  <2>2. IsSeq(rcvd) /\ IsSeq(toClient)
    BY DEF Basic
  <2>3. \A n \in 1 .. Len(Answers) : Flow(n) => Flow(n - 1)'
    BY <1>1, <2>1, <2>2, ItemTaken
  <2>4. /\ Len(Answers') = Len(Answers) - 1 /\ Len(Answers) \in Nat /\ Len(Answers) >= 1
        /\ \A k \in 1 .. Len(Answers) - 1 : Answers'[k] = Answers[k + 1]
        /\ Answers # <<>> /\ Head(rcvd) = Answers[1]
    BY <1>1, <2>1, <2>2, AnswerTaken, AnswersAre
  <2>5. ~Asked'
    <3>1. ~(~ended /\ Len(served) = step /\ NoTask)
      BY <1>1, <2>4, WhereItIs DEF Asked
    <3>2. NoTask' <=> NoTask
      BY <1>1 DEF NoTask
    <3> QED
      BY <1>1, <3>1, <3>2 DEF Asked
  <2>6. Working' => Flow(Len(Answers))'
    <3> SUFFICES ASSUME Working' PROVE Flow(Len(Answers))'
      OBVIOUS
    <3>1. Working
      BY <1>1, WhereItIs DEF Working
    <3>2. Len(Answers) \in 1 .. Len(Answers) /\ Flow(Len(Answers))
      BY <2>4, <3>1 DEF ItemInv
    <3>3. PICK n \in 1 .. Len(Answers) : n = Len(Answers)
      BY <3>2
    <3>4. Flow(n - 1)' /\ Len(Answers') = n - 1
      BY <2>3, <2>4, <3>2, <3>3
    <3> QED
      BY <3>4 DEF Flow
  <2>7. Answered' => Flow(Len(Answers) - 1)'
    <3> SUFFICES ASSUME Answered' PROVE Flow(Len(Answers) - 1)'
      OBVIOUS
    <3>1. Len(Answers') \in Nat /\ Len(Answers') # 0
      <4>1. IsSeq(rcvd') /\ IsSeq(toClient') /\ Answers' # <<>>
        BY <1>1, <2>1, <2>2, AnswerTaken DEF Answered
      <4>2. IsSeq(Answers')
        BY <4>1, Joined DEF Answers
      <4> QED
        BY <4>1, <4>2, SeqWidens
    <3>2. PICK n \in Nat : n = Len(Answers)
      BY <2>4
    <3>3. Len(Answers') = n - 1 /\ n > 1
      BY <2>4, <3>1, <3>2
    <3>4. n - 1 \in 1 .. n - 1 /\ (n - 1) + 1 = n
      BY <3>3
    <3>5. Answers'[n - 1] = Answers[n]
      BY <2>4, <3>2, <3>4
    <3>6. Answers[n].type = "result"
      BY <3>3, <3>5 DEF Answered
    <3>7. Answered
      <4>1. n \in 1 .. Len(Answers)
        BY <3>2, <3>3
      <4> QED
        BY <1>1, <3>6, <4>1, WhereItIs
    <3>8. n - 1 \in 1 .. Len(Answers) /\ Flow(n - 1)
      <4>1. Flow(Len(Answers) - 1)
        BY <3>7 DEF ItemInv
      <4> QED
        BY <3>2, <3>3, <4>1
    <3>9. Flow((n - 1) - 1)' /\ (n - 1) - 1 = Len(Answers') - 1
      BY <2>3, <3>3, <3>8
    <3> QED
      BY <3>9 DEF Flow
  <2> QED
    BY <1>1, <2>1, <2>5, <2>6, <2>7 DEF ItemInv, Quiet
<1> QED
  BY <1>2, <1>3

\* The program takes the result, which is the last frame under way.
LEMMA LastTaken ==
  ASSUME IsSeq(rcvd), IsSeq(toClient), rcvd # <<>>, Head(rcvd).type = "result",
         NoResult(Len(Answers) - 1), rcvd' = Tail(rcvd), toClient' = toClient
  PROVE  IsSeq(rcvd') /\ Len(Answers) = 1 /\ Answers[1] = Head(rcvd) /\ Answers' = <<>>
<1>1. /\ IsSeq(rcvd') /\ Len(Answers') = Len(Answers) - 1
      /\ Len(Answers) \in Nat /\ Len(Answers) >= 1 /\ Head(rcvd) = Answers[1]
  BY AnswerTaken, AnswersAre
<1>2. Len(Answers) = 1
  <2>1. ASSUME Len(Answers) # 1 PROVE FALSE
    <3>1. \A n \in Nat : n >= 1 /\ n # 1 => 1 \in 1 .. n - 1
      OBVIOUS
    <3>2. 1 \in 1 .. Len(Answers) - 1
      BY <1>1, <2>1, <3>1
    <3> QED
      BY <1>1, <3>2 DEF NoResult
  <2> QED
    BY <2>1
<1>3. Answers' = <<>>
  <2>1. IsSeq(Answers')
    BY <1>1, Joined DEF Answers
  <2>2. Len(Answers') = 0
    BY <1>1, <1>2
  <2> QED
    BY <2>1, <2>2, SeqWidens
<1> QED
  BY <1>1, <1>2, <1>3

LEMMA ResultTaken ==
  ASSUME Basic, Phase, pc = "read", rcvd # <<>>, Head(rcvd).type = "result",
         rcvd' = Tail(rcvd), toClient' = toClient
  PROVE  Answered /\ Len(Answers) = 1 /\ Answers[1] = Head(rcvd) /\ Answers' = <<>>
<1>1. IsSeq(rcvd) /\ IsSeq(toClient)
  BY DEF Basic
<1>2. Len(Answers) \in Nat /\ Len(Answers) >= 1 /\ Head(rcvd) = Answers[1]
  BY <1>1, AnswersAre
<1>3. Answered
  <2>1. 1 \in 1 .. Len(Answers)
    BY <1>2
  <2> QED
    BY <1>2, <2>1, WhereItIs
<1> QED
  BY <1>1, <1>3, LastTaken DEF Answered

LEMMA TakeResultItems ==
  ASSUME Basic, Phase, ItemInv, ~IsTool, TakeResult, Others
  PROVE  ItemInv'
<1>1. /\ toClient' = toClient /\ given' = given /\ taken' = taken
      /\ pc = "read" /\ rcvd # <<>> /\ Head(rcvd).type = "result" /\ rcvd' = Tail(rcvd)
  BY DEF Others, sessionVars, answerVars, TakeResult, Waiting
<1>2. pc' \in {"next", "exited"}
  BY DEF TakeResult, Exit
<1>3. Answered /\ Len(Answers) = 1 /\ Answers' = <<>>
  BY <1>1, ResultTaken
<1>4. Flow(Len(Answers) - 1)
  BY <1>3 DEF ItemInv
<1>5. Flow(0)
  <2>1. Len(Answers) - 1 = 0
    BY <1>3
  <2> QED
    BY <1>4, <2>1
<1>6. Flow(0)'
  BY <1>1, <1>5 DEF Flow
<1> QED
  BY <1>2, <1>3, <1>6 DEF ItemInv, Quiet, Asked, Working, Answered

LEMMA LoseConnectionItems ==
  ASSUME Basic, Phase, ItemInv, ~IsTool, LoseConnection, Others
  PROVE  ItemInv'
<1>1. /\ pc = "read" /\ rcvd = <<>> /\ toClient = <<>> /\ UNCHANGED <<rcvd, toClient, result>>
      /\ pc' \in {"next", "exited"}
  BY DEF Others, LoseConnection, AtEnd, Exit
<1>2. result' # Ok
  BY <1>1 DEF ItemInv, Ok
<1>3. Answers' = <<>>
  <2>1. Answers' = Answers
    BY <1>1 DEF Answers
  <2> QED
    BY <1>1, <2>1, AnswersAre DEF Basic
<1> QED
  BY <1>1, <1>2, <1>3 DEF ItemInv, Quiet, Asked, Working, Answered

\* The steps after the script.
LEMMA LaterItems ==
  ASSUME Basic, ItemInv, ~IsTool, Others,
         \/ Return \/ Proceed \/ Unblock \/ CheckStatus \/ SeedChanged \/ Poll
         \/ ReadClicks \/ HandleClick \/ HandleClickResult \/ HandleJunk \/ LoseClicks
  PROVE  ItemInv'
<1>1. toClient' = toClient /\ given' = given
  BY DEF Others, sessionVars, answerVars
<1>2. CASE Return \/ Unblock \/ ReadClicks \/ HandleJunk \/ LoseClicks \/ HandleClickResult
  <2>1. pc' \in {"clicks", "exited"}
    BY <1>2 DEF Return, Unblock, ReadClicks, Killed, HandleJunk, LoseClicks, HandleClickResult,
                Clicks, Exit
  <2> QED
    BY <2>1, ItemsElsewhere
<1>3. CASE HandleClick
  <2>1. pc' \in {"clicks", "exited"}
    BY <1>3 DEF HandleClick, Clicks, Killed, Exit
  <2> QED
    BY <2>1, ItemsElsewhere
<1>4. CASE Proceed \/ CheckStatus \/ SeedChanged \/ Poll
  <2>1. Quiet /\ pc' # "read" /\ UNCHANGED <<rcvd, result, taken>>
    BY <1>4 DEF Proceed, AtScriptEnd, CheckStatus, SeedChanged, Poll, Exit, clientVars, Quiet
  <2>2. Answers' = Answers
    BY <1>1, <2>1 DEF Answers
  <2> QED
    BY <1>1, <2>1, <2>2, ItemsQuiet
<1> QED
  BY <1>2, <1>3, <1>4

\* The session's steps.
LEMMA ServeItems ==
  ASSUME Basic, Phase, ItemInv, ~IsTool, Serve, UNCHANGED <<toolVars, scriptVars>>
  PROVE  ItemInv'
<1> DEFINE f == Head(toServer)
<1>1. /\ UNCHANGED <<pc, result, taken, rcvd, ended, step>> /\ ~ended /\ toServer # <<>>
      /\ IsSeq(rcvd) /\ IsSeq(toClient)
  BY DEF Serve, clientVars, scriptVars, callVars, Basic
<1>2. CASE pc \in {"clicks", "exited"}
  BY <1>1, <1>2, ItemsElsewhere
<1>3. CASE pc \notin {"clicks", "exited"} /\ f.type = "ack"
  <2>1. ServeAck(f)
    BY <1>3 DEF Serve, ServeRequest, ServeRead, ServePing, ServeCancel
  <2>2. UNCHANGED <<toClient, given, served>> /\ box' = Checked
    BY <2>1 DEF ServeAck, answerVars
  <2>3. Answers' = Answers
    BY <1>1, <2>2 DEF Answers
  <2>4. \A i \in Ids : box'[i].op = "read" <=> box[i].op = "read"
    BY <2>2 DEF Checked, Free, Done, Call
  <2>5. NoTask' <=> NoTask
    BY <2>4 DEF NoTask
  <2>6. Asked' => Asked
    BY <1>1, <2>2, <2>5, WhereItIs DEF Asked
  <2>7. Working' => Working
    BY <1>1, <2>4, WhereItIs DEF Working, Ids
  <2>8. Answered' => Answered
    <3> SUFFICES ASSUME Answered' PROVE Answered
      OBVIOUS
    <3>1. Len(Answers) \in 1 .. Len(Answers)
      BY <1>1, <2>3, AnswersAre, SeqWidens DEF Answered
    <3> QED
      BY <1>1, <2>3, <3>1, WhereItIs DEF Answered
  <2> QED
    BY <1>1, <2>2, <2>3, <2>6, <2>7, <2>8, ItemsSame
<1>4. CASE pc \notin {"clicks", "exited"} /\ f.type # "ack"
  <2>1. Asked
    <3>1. Head(toServer) = toServer[1] /\ Len(toServer) >= 1 /\ Len(toServer) \in Nat
      BY <1>1, Tailed, SeqWidens DEF Basic
    <3>2. ~OnlyAcks(Len(toServer))
      BY <1>4, <3>1 DEF OnlyAcks
    <3> QED
      BY <1>1, <1>4, <3>2 DEF Phase, Idle, Working, Answered, Beyond, CutOff
  <2>2. pc = "read" /\ Answers = <<>> /\ taken = <<>> /\ NoTask
    BY <2>1 DEF Asked, ItemInv
  <2>3. f.type = "request"
    <3>1. /\ Len(toServer) \in Nat /\ Len(toServer) >= 1 /\ f = toServer[1]
      BY <1>1, Tailed, SeqWidens DEF Basic
    <3>2. Len(toServer) = 1
      <4>1. \A k \in 1 .. Len(toServer) - 1 : toServer[k].type = "ack"
        BY <2>1 DEF Asked, OnlyAcks
      <4>2. toServer[1].type # "ack"
        BY <1>4, <3>1
      <4>3. 1 \notin 1 .. Len(toServer) - 1
        BY <4>1, <4>2
      <4>4. \A n \in Nat : n >= 1 /\ n # 1 => 1 \in 1 .. n - 1
        OBVIOUS
      <4> QED
        BY <3>1, <4>3, <4>4
    <3> QED
      BY <2>1, <3>1, <3>2 DEF Asked
  <2>4. result' = -1
    BY <1>1, <2>2 DEF ItemInv
  <2>5. CASE ServeRequest(f)
    <3>1. Flow(Len(Answers) - 1)' /\ Answers' # <<>>
      <4> HIDE DEF f
      <4> QED
        BY <1>1, <2>2, <2>5, ServedItems
    <3>2. NoTask'
      BY <2>2, <2>5 DEF ServeRequest, Checked, NoTask, Free, Call
    <3>3. ~Asked' /\ ~Working'
      BY <3>1, <3>2 DEF Asked, Working, NoTask, Ids
    <3> QED
      BY <1>1, <2>2, <2>4, <3>1, <3>3 DEF ItemInv, Quiet
  <2>6. CASE ServeRead(f)
    <3>1. toClient' = toClient /\ given' = 0
      BY <2>6 DEF ServeRead
    <3>2. Answers' = Answers /\ Len(<<>>) = 0
      BY <1>1, <3>1, None DEF Answers
    <3>3. Flow(Len(Answers))'
      BY <1>1, <2>2, <3>1, <3>2, FlowBegins DEF Flow
    <3>4. ~Answered'
      BY <2>2, <3>2 DEF Answered
    <3> QED
      BY <1>1, <2>2, <2>4, <3>3, <3>4 DEF ItemInv, Quiet
  <2> QED
    BY <2>3, <2>5, <2>6 DEF Serve, ServePing, ServeAck, ServeCancel
<1> QED
  BY <1>2, <1>3, <1>4

LEMMA EndItems ==
  ASSUME Basic, Phase, ItemInv, ~IsTool, ServeBadFrame \/ ServeEnd \/ Cut,
         UNCHANGED <<toolVars, scriptVars>>
  PROVE  ItemInv'
<1>1. /\ UNCHANGED <<pc, result, taken, rcvd, given, served, step>> /\ ended' = TRUE
      /\ IsSeq(rcvd) /\ IsSeq(toClient)
  BY DEF ServeBadFrame, ServeEnd, Cut, EndSession, clientVars, scriptVars, callVars, Basic
<1>2. /\ IsSeq(Answers') /\ Len(Answers') \in Nat /\ Len(Answers') <= Len(Answers)
      /\ Len(Answers) \in Nat
      /\ \A k \in 1 .. Len(Answers') : Answers'[k] = Answers[k]
  <2>1. CASE Cut
    <3>1. PICK n \in 0 .. Len(toClient) : toClient' = SubSeq(toClient, 1, n)
      BY <2>1 DEF Cut
    <3>2. /\ IsSeq(toClient') /\ Len(Answers') = Len(Answers) - (Len(toClient) - n)
          /\ \A k \in 1 .. Len(Answers') : Answers'[k] = Answers[k]
      BY <1>1, <3>1, AnswersLost
    <3>3. IsSeq(rcvd') /\ IsSeq(Answers')
      BY <1>1, <3>2, Joined DEF Answers
    <3>4. Len(Answers) \in Nat /\ Len(toClient) \in Nat /\ Len(Answers') \in Nat
      BY <1>1, <3>3, AnswersAre, SeqWidens
    <3>5. \A a, b, c \in Nat : \A k \in 0 .. b : c = a - (b - k) => c <= a
      OBVIOUS
    <3>6. Len(Answers') <= Len(Answers)
      BY <3>2, <3>4, <3>5
    <3> QED
      BY <3>2, <3>3, <3>4, <3>6
  <2>2. CASE ServeBadFrame \/ ServeEnd
    <3>1. toClient' = toClient
      BY <2>2 DEF ServeBadFrame, ServeEnd
    <3>2. Answers' = Answers
      BY <1>1, <3>1 DEF Answers
    <3> QED
      BY <1>1, <3>2, AnswersAre
  <2> QED
    BY <2>1, <2>2
<1>3. Answers = <<>> => Answers' = <<>>
  <2> SUFFICES ASSUME Answers = <<>> PROVE Answers' = <<>>
    OBVIOUS
  <2>1. Len(Answers) = 0
    BY None
  <2>2. Len(Answers') = 0
    BY <1>2, <2>1
  <2> QED
    BY <1>2, <2>2, SeqWidens
<1>4. ~Asked' /\ ~Working'
  BY <1>1 DEF Asked, Working
<1>5. Answered' => Flow(Len(Answers) - 1)'
  <2> SUFFICES ASSUME Answered' PROVE Flow(Len(Answers) - 1)'
    OBVIOUS
  <2>1. Len(Answers') # 0 /\ Answers'[Len(Answers')].type = "result"
    BY <1>2, SeqWidens DEF Answered
  <2>2. PICK n \in Nat : n = Len(Answers')
    BY <1>2
  <2>3. n \in 1 .. Len(Answers) /\ Answers[n].type = "result"
    <3>1. n \in 1 .. Len(Answers')
      BY <2>1, <2>2
    <3>2. n <= Len(Answers)
      BY <1>2, <2>2
    <3> QED
      BY <1>2, <2>1, <2>2, <3>1, <3>2
  <2>4. Answered
    BY <1>1, <2>3, WhereItIs DEF Answered
  <2>5. n = Len(Answers)
    <3>1. n \notin 1 .. Len(Answers) - 1
      BY <2>3, <2>4 DEF Answered, NoResult
    <3> QED
      BY <1>2, <2>3, <3>1
  <2>6. Flow(n - 1)
    BY <2>4, <2>5 DEF ItemInv
  <2>7. Flow(n - 1)'
    <3>1. \A k \in 1 .. n - 1 : k \in 1 .. n
      OBVIOUS
    <3>2. \A k \in 1 .. n - 1 : Answers'[k] = Answers[k]
      BY <1>2, <2>2, <3>1
    <3> QED
      BY <1>1, <2>6, <3>2 DEF Flow
  <2> QED
    BY <2>2, <2>7 DEF Flow
<1>6. Flow(0) => Flow(0)'
  BY <1>1 DEF Flow
<1> QED
  BY <1>1, <1>3, <1>4, <1>5, <1>6 DEF ItemInv, Quiet

LEMMA TaskItems ==
  ASSUME Basic, Phase, ItemInv, ~IsTool, NEW i \in Ids,
         TaskData(i) \/ TaskResult(i) \/ StreamFails(i), UNCHANGED <<toolVars, scriptVars>>
  PROVE  ItemInv'
<1>1. /\ UNCHANGED <<pc, result, taken, rcvd, step>> /\ box[i].op = "read"
      /\ IsSeq(rcvd) /\ IsSeq(toClient)
  BY DEF TaskData, TaskResult, StreamFails, clientVars, scriptVars, callVars, Basic
<1>2. Working \/ Beyond
  BY <1>1 DEF Phase, Idle, Asked, Answered, CutOff, NoTask
<1>3. CASE Beyond
  BY <1>1, <1>3, ItemsElsewhere DEF Beyond
<1>4. CASE Working
  <2>1. pc = "read" /\ Flow(Len(Answers)) /\ result' = -1 /\ i = 0 /\ box[1].op # "read"
    BY <1>1, <1>4 DEF Working, ItemInv, Ids
  <2>2. CASE TaskData(i)
    <3>1. Flow(Len(Answers))'
      BY <1>1, <2>1, <2>2, ItemSent
    <3>2. box' = box
      BY <2>2 DEF TaskData
    <3>3. ~Asked' /\ ~Answered'
      BY <1>1, <3>2 DEF Asked, Answered, NoTask
    <3> QED
      BY <1>1, <2>1, <3>1, <3>3 DEF ItemInv, Quiet
  <2>3. CASE TaskResult(i) \/ StreamFails(i)
    <3>1. given' = given /\ (\E x : Reply(<<x>>)) /\ box' = [box EXCEPT ![i] = Done]
      BY <2>3 DEF TaskResult, StreamFails, Respond
    <3>2. Flow(Len(Answers) - 1)'
      BY <1>1, <2>1, <3>1, ResultSent
    <3>3. Answers' # <<>>
      BY <1>1, <3>1, OneSent
    <3>4. ~Asked' /\ ~Working'
      <4>1. box'[0].op # "read"
        BY <2>1, <3>1 DEF Done, Call, Basic, Ids
      <4> QED
        BY <3>3, <4>1 DEF Asked, Working
    <3> QED
      BY <1>1, <2>1, <3>2, <3>4 DEF ItemInv, Quiet
  <2> QED
    BY <2>2, <2>3
<1> QED
  BY <1>2, <1>3, <1>4

LEMMA ReceiveItems ==
  ASSUME Basic, Phase, ItemInv, Receive, UNCHANGED scriptVars
  PROVE  ItemInv'
<1>1. UNCHANGED <<pc, result, taken, given, toServer, ended, box, served, script, step>>
  BY DEF Receive, sessionVars, answerVars, scriptVars, callVars
<1>2. Answers' = Answers
  BY AnswersRead DEF Basic
<1>3. (Asked' => Asked) /\ (Working' => Working) /\ (Answered' => Answered)
  BY <1>1, <1>2 DEF Asked, Working, Answered, OnlyAcks, NoResult, NoTask
<1> QED
  BY <1>1, <1>2, <1>3, ItemsSame

LEMMA NothingOnItsWay ==
  ASSUME ItemInv, UNCHANGED connVars, UNCHANGED callVars
  PROVE  ItemInv'
<1>1. /\ UNCHANGED <<pc, result, taken, given, toServer, ended, box, served, script, step>>
      /\ UNCHANGED <<rcvd, toClient>>
  BY DEF connVars, clientVars, sessionVars, answerVars, callVars
<1>2. Answers' = Answers
  BY <1>1 DEF Answers
<1>3. (Asked' => Asked) /\ (Working' => Working) /\ (Answered' => Answered)
  BY <1>1, <1>2 DEF Asked, Working, Answered, OnlyAcks, NoResult, NoTask
<1> QED
  BY <1>1, <1>2, <1>3, ItemsSame

LEMMA InitItems ==
  ASSUME Init, ~IsTool
  PROVE  ItemInv
<1>1. /\ pc = "next" /\ taken = <<>> /\ given = 0 /\ rcvd = <<>> /\ toClient = <<>>
  BY DEF Init, InitScript, InitConnection
<1>2. IsSeq(<<>>) /\ Len(<<>>) = 0
  BY None
<1>3. Answers = <<>>
  BY <1>1, <1>2, AnswersAre
<1>4. Flow(0)
  BY <1>1, <1>2 DEF Flow
<1> QED
  BY <1>1, <1>3, <1>4 DEF ItemInv, Asked, Working, Answered

\* ItemInv for the programs that make synced calls.
LEMMA StepKeepsItems ==
  ASSUME CallInv, ItemInv, ~IsTool, [Next]_vars
  PROVE  ItemInv'
<1>0. Basic /\ Phase
  BY DEF CallInv
<1>1. CASE UNCHANGED vars \/ Drawing \/ Rest
  <2>1. UNCHANGED connVars /\ UNCHANGED callVars
    BY <1>1 DEF vars, Drawing, Rest, scriptVars
  <2> QED
    BY <2>1, NothingOnItsWay
<1>2. CASE ScriptStep /\ Others /\ UNCHANGED <<toolVars, authorVars>>
  BY <1>0, <1>2, MakeCallItems, TakeItemItems, TakeResultItems, LoseConnectionItems, LaterItems
     DEF ScriptStep
<1>3. CASE Receive /\ UNCHANGED <<toolVars, scriptVars>>
  BY <1>0, <1>3, ReceiveItems
<1>4. CASE Session \/ StreamError \/ Loss
  <2>1. UNCHANGED <<toolVars, scriptVars>>
    BY <1>4 DEF Session, StreamError, Loss
  <2>2. ASSUME NEW i \in Ids, TaskData(i) \/ TaskResult(i) \/ StreamFails(i) PROVE ItemInv'
    BY <1>0, <2>1, <2>2, TaskItems
  <2>3. CASE Serve
    BY <1>0, <2>1, <2>3, ServeItems
  <2>4. CASE ServeBadFrame \/ ServeEnd \/ Cut
    BY <1>0, <2>1, <2>4, EndItems
  <2> QED
    BY <1>4, <2>2, <2>3, <2>4 DEF Session, StreamError, Loss, SessionStep
<1> QED
  BY <1>1, <1>2, <1>3, <1>4 DEF Next, Program, PingerThread

----------------------------------------------------------------------------
(* fcat, fdir and fstat.                                                   *)

\* Nothing of what a printer does has been lost, and its one request is
\* unmade, on its way, worked on by a task, answered, or done with.
PrinterSane ==
  /\ IsSeq(rcvd) /\ IsSeq(toClient) /\ IsSeq(toServer)
  /\ DOMAIN box = Ids /\ ended \in BOOLEAN
  /\ (pc = "exited") = (exit # "none")
  /\ count = 0 /\ pongs = 0

AllFree == box = [i \in Ids |-> Free]

Begun ==
  /\ pc = "start" /\ ~ended /\ ~shut /\ result = Ok
  /\ toServer = <<>> /\ Answers = <<>> /\ taken = <<>> /\ served = <<>> /\ AllFree

Asking ==
  /\ pc = "read" /\ ~ended /\ ~shut /\ result = Ok
  /\ Answers = <<>> /\ taken = <<>> /\ served = <<>> /\ AllFree
  /\ Len(toServer) = 1 /\ toServer[1].type = "request" /\ toServer[1].id = 0
  /\ toServer[1].call = Call(Asks[program], "file")

Reading ==
  /\ pc = "read" /\ ~ended /\ ~shut /\ result = Ok /\ served = <<>>
  /\ OnlyAcks(Len(toServer)) /\ NoResult(Len(Answers))
  /\ box[0] = Call("read", "file") /\ box[1].op # "read"
  /\ Flow(Len(Answers))

\* The session has served what was asked, and agreed to it or not.
ServedIt(ok) ==
  /\ Len(served) = 1 /\ served[1].call.file = "file" /\ served[1].ok = ok

Replied ==
  /\ pc = "read" /\ ~ended /\ ~shut /\ result = Ok
  /\ OnlyAcks(Len(toServer)) /\ NoTask
  /\ Answers # <<>> /\ NoResult(Len(Answers) - 1)
  /\ Answers[Len(Answers)].type = "result"
  /\ ServedIt(Answers[Len(Answers)].value = Ok)
  /\ Flow(Len(Answers) - 1)

Told ==
  /\ pc \in {"read", "exited"} /\ shut /\ Answers = <<>>
  /\ OnlyAcks(Len(toServer)) /\ NoTask
  /\ ServedIt(result = Ok) /\ (result = Ok => Flow(0))
  /\ pc = "exited" => exit = IF result = Ok THEN "success" ELSE "failure"

Stage == Begun \/ Asking \/ Reading \/ Replied \/ Told

PrinterInv == ~lost => PrinterSane /\ Stage

LEMMA AsksAre ==
  ASSUME program \in Printers
  PROVE  Asks[program] \in {"read", "list", "stat"}
BY DEF Printers, Asks

LEMMA SendRequestStage ==
  ASSUME program \in Printers, ~lost, PrinterSane, Stage, SendRequest, Others
  PROVE  PrinterSane' /\ Asking' /\ program' = program
<1> DEFINE frame == Frame("request", 0, Call(Asks[program], "file"), 0, <<>>)
<1>1. /\ UNCHANGED <<toClient, ended, box, served, count, pongs>> /\ pc = "start"
  BY DEF Others, sessionVars, answerVars, SendRequest, toolVars
<1>2. Begun
  BY <1>1 DEF Stage, Asking, Reading, Replied, Told
<1>3. /\ Send(<<frame>>) \/ SendFails
      /\ pc' = "read" /\ UNCHANGED <<program, exit, result, taken, rcvd, shut>>
  BY <1>2 DEF SendRequest, Killed, Begun
<1>4. frame.type = "request" /\ frame.id = 0 /\ frame.call = Call(Asks[program], "file")
  BY DEF Frame
<1> HIDE DEF frame
<1>5. IsSeq(toServer') /\ Len(toServer') = Len(toServer) + 1 /\ toServer'[Len(toServer) + 1] = frame
  BY <1>2, <1>3, Sent DEF PrinterSane, Begun
<1>6. Len(toServer) = 0
  BY <1>2, None DEF Begun
<1>7. Len(toServer') = 1 /\ toServer'[1] = frame
  BY <1>5, <1>6
<1>8. Answers' = Answers
  BY <1>1, <1>3 DEF Answers
<1>9. PrinterSane'
  BY <1>1, <1>2, <1>3, <1>5 DEF PrinterSane, Begun
<1> QED
  BY <1>1, <1>2, <1>3, <1>4, <1>7, <1>8, <1>9 DEF Begun, Asking, AllFree

LEMMA HandleItemStage ==
  ASSUME program \in Printers, ~lost, PrinterSane, Stage, HandleItem, Others
  PROVE  PrinterSane' /\ Stage' /\ program' = program
<1> DEFINE ack == Signal("ack", 0)
<1>1. /\ UNCHANGED <<toClient, ended, box, served, count, pongs, given>>
      /\ pc = "read" /\ rcvd # <<>>
      /\ IsSeq(rcvd) /\ IsSeq(toClient) /\ IsSeq(toServer)
  BY DEF Others, sessionVars, answerVars, HandleItem, toolVars, PrinterSane
<1>2. Head(rcvd).type # "result"
  BY AsksAre DEF HandleItem
<1>3. /\ Len(Answers) \in Nat /\ Len(Answers) >= 1 /\ Answers # <<>> /\ Head(rcvd) = Answers[1]
  BY <1>1, AnswersAre
<1>4. Reading \/ Replied
  BY <1>1, <1>3 DEF Stage, Begun, Asking, Told
<1>5. /\ toServer' = toServer \/ Send(<<ack>>) \/ SendFails
      /\ rcvd' = Tail(rcvd) /\ taken' = Append(taken, Head(rcvd).value)
      /\ UNCHANGED <<program, pc, exit, result, shut>>
  BY <1>4 DEF HandleItem, Killed, Reading, Replied
<1>6. ack.type = "ack"
  BY DEF Signal, Frame
<1> HIDE DEF ack
<1>7. IsSeq(toServer') /\ OnlyAcks(Len(toServer))'
  <2>1. OnlyAcks(Len(toServer))
    BY <1>4 DEF Reading, Replied
  <2>2. CASE toServer' = toServer
    BY <1>1, <2>1, <2>2 DEF OnlyAcks
  <2>3. CASE Send(<<ack>>) \/ SendFails
    BY <1>1, <1>6, <2>1, <2>3, Sent, AckSent
  <2> QED
    BY <1>5, <2>2, <2>3
<1>8. /\ IsSeq(rcvd') /\ Len(Answers') = Len(Answers) - 1
      /\ \A k \in 1 .. Len(Answers) - 1 : Answers'[k] = Answers[k + 1]
      /\ \A n \in 1 .. Len(Answers) : Flow(n) => Flow(n - 1)'
  BY <1>1, <1>5, AnswerTaken, ItemTaken
<1>9. PrinterSane'
  BY <1>1, <1>5, <1>7, <1>8 DEF PrinterSane
<1>10. PICK n \in Nat : n = Len(Answers) /\ n >= 1
  BY <1>3
<1>11. Len(Answers') = n - 1
  BY <1>8, <1>10
<1>12. CASE Reading
  <2>1. n \in 1 .. Len(Answers) /\ Flow(n)
    BY <1>10, <1>12 DEF Reading
  <2>2. Flow(n - 1)'
    BY <1>8, <2>1
  <2>3. Flow(Len(Answers))'
    BY <1>11, <2>2 DEF Flow
  <2>4. NoResult(Len(Answers))'
    <3>1. \A k \in 1 .. n - 1 : k + 1 \in 1 .. n /\ k \in 1 .. n - 1
      OBVIOUS
    <3>2. \A k \in 1 .. n - 1 : Answers'[k].type # "result"
      BY <1>8, <1>10, <1>12, <3>1 DEF Reading, NoResult
    <3> QED
      BY <1>11, <3>2 DEF NoResult
  <2>5. Reading'
    BY <1>1, <1>5, <1>7, <1>12, <2>3, <2>4 DEF Reading
  <2> QED
    BY <1>5, <1>9, <2>5 DEF Stage
<1>13. CASE Replied
  <2>1. n > 1
    <3>1. n # 1
      BY <1>2, <1>3, <1>10, <1>13 DEF Replied
    <3> QED
      BY <1>10, <3>1
  <2>2. n - 1 \in 1 .. Len(Answers) /\ Flow(n - 1)
    BY <1>10, <1>13, <2>1 DEF Replied
  <2>3. Flow((n - 1) - 1)'
    BY <1>8, <2>2
  <2>4. Flow(Len(Answers) - 1)'
    BY <1>11, <2>3 DEF Flow
  <2>5. n - 1 \in 1 .. n - 1 /\ (n - 1) + 1 = n
    BY <2>1
  <2>6. Answers'[n - 1] = Answers[n]
    BY <1>8, <1>10, <2>5
  <2>7. Answers'[Len(Answers')] = Answers[Len(Answers)]
    BY <1>10, <1>11, <2>6
  <2>8. Answers' # <<>>
    BY <1>11, <2>1, None
  <2>9. NoResult(Len(Answers) - 1)'
    <3>1. \A k \in 1 .. (n - 1) - 1 : k + 1 \in 1 .. n - 1 /\ k \in 1 .. n - 1
      OBVIOUS
    <3>2. \A k \in 1 .. (n - 1) - 1 : Answers'[k].type # "result"
      BY <1>8, <1>10, <1>13, <3>1 DEF Replied, NoResult
    <3> QED
      BY <1>11, <3>2 DEF NoResult
  <2>10. Replied'
    BY <1>1, <1>5, <1>7, <1>13, <2>4, <2>7, <2>8, <2>9 DEF Replied, NoTask, ServedIt
  <2> QED
    BY <1>5, <1>9, <2>10 DEF Stage
<1> QED
  BY <1>4, <1>12, <1>13

LEMMA HandleResultStage ==
  ASSUME program \in Printers, ~lost, PrinterSane, Stage, HandleResult, Others
  PROVE  PrinterSane' /\ Stage' /\ program' = program
<1>1. /\ UNCHANGED <<program, pc, exit, taken, toServer, toClient, ended, box, served, given, count, pongs>>
      /\ pc = "read" /\ rcvd # <<>> /\ Head(rcvd).type = "result"
      /\ rcvd' = Tail(rcvd) /\ result' = Head(rcvd).value /\ shut' = TRUE
      /\ IsSeq(rcvd) /\ IsSeq(toClient)
  BY DEF Others, sessionVars, answerVars, HandleResult, toolVars, PrinterSane
<1>2. Len(Answers) \in Nat /\ Len(Answers) >= 1 /\ Answers # <<>> /\ Head(rcvd) = Answers[1]
  BY <1>1, AnswersAre
<1>3. Replied
  <2>1. ~Reading
    <3>1. 1 \in 1 .. Len(Answers)
      BY <1>2
    <3> QED
      BY <1>1, <1>2, <3>1 DEF Reading, NoResult
  <2> QED
    BY <1>1, <1>2, <2>1 DEF Stage, Begun, Asking, Told
<1>4. IsSeq(rcvd') /\ Len(Answers) = 1 /\ Answers' = <<>>
  BY <1>1, <1>3, LastTaken DEF Replied
<1>5. Flow(0)
  <2>1. Len(Answers) - 1 = 0
    BY <1>4
  <2>2. Flow(Len(Answers) - 1)
    BY <1>3 DEF Replied
  <2> QED
    BY <2>1, <2>2
<1>6. Flow(0)'
  BY <1>1, <1>5 DEF Flow
<1>7. ServedIt(result = Ok)'
  <2>1. ServedIt(Answers[Len(Answers)].value = Ok)
    BY <1>3 DEF Replied
  <2>2. result' = Answers[Len(Answers)].value
    BY <1>1, <1>2, <1>4
  <2> QED
    BY <1>1, <2>1, <2>2 DEF ServedIt
<1>8. OnlyAcks(Len(toServer))' /\ NoTask'
  BY <1>1, <1>3 DEF Replied, OnlyAcks, NoTask
<1>9. Told'
  BY <1>1, <1>4, <1>6, <1>7, <1>8 DEF Told
<1>10. PrinterSane'
  BY <1>1, <1>4 DEF PrinterSane
<1> QED
  BY <1>1, <1>9, <1>10 DEF Stage

LEMMA FinishStage ==
  ASSUME program \in Printers, ~lost, PrinterSane, Stage, Finish, Others
  PROVE  PrinterSane' /\ Stage' /\ program' = program
<1>1. /\ UNCHANGED <<program, result, taken, rcvd, toServer, toClient, ended, box, served, given>>
      /\ UNCHANGED <<count, pongs>>
      /\ pc \in {"read", "clicks"} /\ ended
  BY DEF Others, sessionVars, answerVars, Finish, toolVars, AtEnd
<1>2. Told
  BY <1>1 DEF Stage, Begun, Asking, Reading, Replied
<1>3. /\ pc' = "exited" /\ shut' = TRUE
      /\ exit' = IF result = Ok THEN "success" ELSE "failure"
  BY DEF Finish, AtEnd, Exit
<1>4. Answers' = Answers
  BY <1>1 DEF Answers
<1>5. Told'
  BY <1>1, <1>2, <1>3, <1>4 DEF Told, OnlyAcks, NoTask, ServedIt, Flow
<1>6. PrinterSane'
  BY <1>1, <1>3 DEF PrinterSane
<1> QED
  BY <1>1, <1>5, <1>6 DEF Stage

\* A step that changes nothing that a stage speaks of but how the frames to the
\* program are divided.
LEMMA StageSame ==
  ASSUME PrinterSane, Stage, Answers' = Answers, IsSeq(rcvd'), IsSeq(toClient'),
         UNCHANGED <<program, pc, exit, result, taken, shut, toServer, ended, box, given, served>>,
         UNCHANGED <<count, pongs>>
  PROVE  PrinterSane' /\ Stage' /\ program' = program
<1>1. PrinterSane'
  BY DEF PrinterSane
<1>2. (Flow(0) => Flow(0)') /\ (Flow(Len(Answers)) => Flow(Len(Answers))')
      /\ (Flow(Len(Answers) - 1) => Flow(Len(Answers) - 1)')
  BY DEF Flow
<1>3. (Begun => Begun') /\ (Asking => Asking')
  BY DEF Begun, Asking, AllFree
<1>4. Reading => Reading'
  BY <1>2 DEF Reading, OnlyAcks, NoResult
<1>5. Replied => Replied'
  BY <1>2 DEF Replied, OnlyAcks, NoResult, NoTask, ServedIt
<1>6. Told => Told'
  BY <1>2 DEF Told, OnlyAcks, NoTask, ServedIt
<1> QED
  BY <1>1, <1>3, <1>4, <1>5, <1>6 DEF Stage

LEMMA ReceiveStage ==
  ASSUME PrinterSane, Stage, Receive, UNCHANGED toolVars
  PROVE  PrinterSane' /\ Stage' /\ program' = program
<1>1. /\ UNCHANGED <<program, pc, exit, result, taken, shut, toServer, ended, box, given, served>>
      /\ UNCHANGED <<count, pongs>>
  BY DEF Receive, sessionVars, answerVars, toolVars
<1>2. IsSeq(rcvd') /\ IsSeq(toClient') /\ Answers' = Answers
  BY AnswersRead DEF PrinterSane
<1> QED
  BY <1>1, <1>2, StageSame

\* The session reads an ack.
LEMMA AckHandled ==
  ASSUME IsSeq(toServer), Serve, Head(toServer).type = "ack"
  PROVE  /\ UNCHANGED <<clientVars, toClient, ended, answerVars>>
         /\ IsSeq(toServer') /\ DOMAIN box' = Ids
         /\ OnlyAcks(Len(toServer)) => OnlyAcks(Len(toServer))'
         /\ \A i \in Ids : box'[i] = IF box[i] = Done THEN Free ELSE box[i]
         /\ \A i \in Ids : box'[i].op = "read" <=> box[i].op = "read"
<1>1. ServeAck(Head(toServer)) /\ toServer # <<>> /\ toServer' = Tail(toServer)
      /\ UNCHANGED <<clientVars, ended>>
  BY DEF Serve, ServeRequest, ServeRead, ServePing, ServeCancel
<1>2. UNCHANGED <<toClient, answerVars>> /\ box' = Checked
  BY <1>1 DEF ServeAck
<1>3. /\ IsSeq(toServer') /\ Len(toServer') = Len(toServer) - 1 /\ Len(toServer) \in Nat
      /\ \A k \in 1 .. Len(toServer) - 1 : toServer'[k] = toServer[k + 1]
  BY <1>1, Tailed, SeqWidens
<1>4. OnlyAcks(Len(toServer)) => OnlyAcks(Len(toServer))'
  <2>1. \A k \in 1 .. Len(toServer) - 1 : k + 1 \in 1 .. Len(toServer)
    BY <1>3
  <2> QED
    BY <1>3, <2>1 DEF OnlyAcks
<1>5. \A i \in Ids : box'[i] = IF box[i] = Done THEN Free ELSE box[i]
  BY <1>2 DEF Checked
<1>6. \A i \in Ids : box'[i].op = "read" <=> box[i].op = "read"
  BY <1>5 DEF Free, Done, Call
<1> QED
  BY <1>1, <1>2, <1>3, <1>4, <1>5, <1>6 DEF Checked

LEMMA AskingServed ==
  ASSUME program \in Printers, PrinterSane, Asking, Serve, UNCHANGED toolVars
  PROVE  PrinterSane' /\ Stage' /\ program' = program
<1> DEFINE f == Head(toServer)
<1>1. /\ UNCHANGED <<program, pc, exit, result, taken, rcvd, shut, ended, count, pongs>>
      /\ toServer # <<>> /\ toServer' = Tail(toServer)
      /\ IsSeq(rcvd) /\ IsSeq(toClient) /\ IsSeq(toServer)
  BY DEF Serve, clientVars, toolVars, PrinterSane
<1>2. /\ IsSeq(toServer') /\ Len(toServer') = Len(toServer) - 1 /\ f = toServer[1]
  BY <1>1, Tailed
<1>3. /\ f.type = "request" /\ f.id = 0 /\ f.call = Call(Asks[program], "file")
      /\ Len(toServer') = 0
  BY <1>2 DEF Asking
<1>4. OnlyAcks(Len(toServer))'
  BY <1>3 DEF OnlyAcks
<1>5. Answers = <<>> /\ taken' = <<>> /\ served = <<>> /\ AllFree /\ Len(Answers) = 0
  BY <1>1, None DEF Asking
<1>6. Checked = [i \in Ids |-> Free]
  BY <1>5 DEF Checked, AllFree, Free, Done, Call
<1>7. f.call.op = Asks[program] /\ f.call.file = "file"
  BY <1>3 DEF Call
<1>8. CASE ServeRequest(f)
  <2>1. PICK ok \in BOOLEAN :
          ResultComes(ok) /\ served' = Append(served, [call |-> f.call, ok |-> ok])
    <3> HIDE DEF f
    <3> QED
      BY <1>1, <1>8, RequestServed
  <2>2. Flow(Len(Answers) - 1)' /\ Answers' # <<>>
    <3> HIDE DEF f
    <3> QED
      BY <1>1, <1>5, <1>8, ServedItems
  <2>3. ServedIt(ok)'
    <3> DEFINE x == [call |-> f.call, ok |-> ok]
    <3>1. IsSeq(served) /\ Len(served) = 0
      BY <1>5, None
    <3>2. x.call = f.call /\ x.ok = ok
      OBVIOUS
    <3> HIDE DEF x, f
    <3>3. served' = Append(served, x)
      BY <2>1 DEF x
    <3>4. Len(served') = Len(served) + 1 /\ served'[Len(served) + 1] = x
      BY <3>1, <3>3, Appended
    <3>5. Len(served') = 1 /\ served'[1] = x
      BY <3>1, <3>4
    <3> QED
      BY <1>7, <3>2, <3>5 DEF ServedIt
  <2>4. NoTask' /\ DOMAIN box' = Ids
    BY <1>6, <1>8 DEF ServeRequest, NoTask, Free, Call
  <2>5. NoResult(Len(Answers) - 1)' /\ Answers'[Len(Answers')].type = "result"
        /\ (Answers'[Len(Answers')].value = Ok) = ok /\ IsSeq(toClient')
    BY <1>5, <2>1 DEF ResultComes, NoResult
  <2>6. Replied'
    <3>1. ServedIt(Answers[Len(Answers)].value = Ok)'
      BY <2>3, <2>5 DEF ServedIt
    <3> QED
      BY <1>1, <1>4, <2>2, <2>4, <2>5, <3>1 DEF Replied, Asking
  <2>7. PrinterSane'
    BY <1>1, <1>2, <2>4, <2>5 DEF PrinterSane
  <2> QED
    BY <1>1, <2>6, <2>7 DEF Stage
<1>9. CASE ServeRead(f)
  <2>1. /\ box' = [Checked EXCEPT ![0] = f.call] /\ f.call.op = "read" /\ given' = 0
        /\ UNCHANGED <<toClient, served>>
    BY <1>3, <1>9 DEF ServeRead
  <2>2. box'[0] = Call("read", "file") /\ box'[1].op # "read" /\ DOMAIN box' = Ids
    BY <1>3, <1>6, <1>7, <2>1 DEF Ids, Free, Call
  <2>3. Answers' = Answers
    BY <1>1, <2>1 DEF Answers
  <2>4. Flow(Len(Answers))'
    BY <1>5, <2>1, <2>3, FlowBegins DEF Flow
  <2>5. NoResult(Len(Answers))'
    BY <1>5, <2>3 DEF NoResult
  <2>6. Reading'
    BY <1>1, <1>4, <1>5, <2>1, <2>2, <2>4, <2>5 DEF Asking, Reading
  <2>7. PrinterSane'
    BY <1>1, <1>2, <2>1, <2>2 DEF PrinterSane
  <2> QED
    BY <1>1, <2>6, <2>7 DEF Stage
<1> QED
  BY <1>3, <1>8, <1>9 DEF Serve, ServePing, ServeAck, ServeCancel

LEMMA ServeStage ==
  ASSUME program \in Printers, PrinterSane, Stage, Serve, UNCHANGED toolVars
  PROVE  PrinterSane' /\ Stage' /\ program' = program
<1>1. toServer # <<>> /\ IsSeq(toServer) /\ IsSeq(rcvd) /\ IsSeq(toClient)
  BY DEF Serve, PrinterSane
<1>2. CASE Asking
  BY <1>2, AskingServed
<1>3. CASE Reading \/ Replied \/ Told
  <2>1. OnlyAcks(Len(toServer))
    BY <1>3 DEF Reading, Replied, Told
  <2>2. Head(toServer).type = "ack"
    <3>1. Head(toServer) = toServer[1] /\ Len(toServer) >= 1 /\ Len(toServer) \in Nat
      BY <1>1, Tailed, SeqWidens
    <3> QED
      BY <2>1, <3>1 DEF OnlyAcks
  <2>3. /\ UNCHANGED <<program, pc, exit, result, taken, rcvd, shut, toClient, ended, given, served>>
        /\ UNCHANGED <<count, pongs>>
        /\ IsSeq(toServer') /\ DOMAIN box' = Ids /\ OnlyAcks(Len(toServer))'
        /\ \A i \in Ids : box'[i] = IF box[i] = Done THEN Free ELSE box[i]
        /\ \A i \in Ids : box'[i].op = "read" <=> box[i].op = "read"
    BY <1>1, <2>1, <2>2, AckHandled DEF clientVars, answerVars, toolVars
  <2>4. Answers' = Answers
    BY <2>3 DEF Answers
  <2>5. PrinterSane'
    BY <2>3 DEF PrinterSane
  <2>6. (Flow(0) => Flow(0)') /\ (Flow(Len(Answers)) => Flow(Len(Answers))')
        /\ (Flow(Len(Answers) - 1) => Flow(Len(Answers) - 1)')
    BY <2>3, <2>4 DEF Flow
  <2>7. Reading => Reading'
    <3>1. Call("read", "file") # Done
      BY DEF Done, Call
    <3> QED
      BY <2>3, <2>4, <2>6, <3>1 DEF Reading, NoResult, Ids
  <2>8. NoTask => NoTask'
    BY <2>3 DEF NoTask
  <2>9. Replied => Replied'
    BY <2>3, <2>4, <2>6, <2>8 DEF Replied, NoResult, ServedIt
  <2>10. Told => Told'
    BY <2>3, <2>4, <2>6, <2>8 DEF Told, ServedIt
  <2> QED
    BY <1>3, <2>3, <2>5, <2>7, <2>9, <2>10 DEF Stage
<1> QED
  BY <1>1, <1>2, <1>3 DEF Stage, Begun

\* The session ends on its own only when the program has shut its side down.
LEMMA EndStage ==
  ASSUME program \in Printers, PrinterSane, Stage, ServeBadFrame \/ ServeEnd, UNCHANGED toolVars
  PROVE  PrinterSane' /\ Stage' /\ program' = program
<1>1. /\ UNCHANGED <<program, pc, exit, result, taken, rcvd, shut, toClient, given, served, count, pongs>>
      /\ ended' = TRUE /\ toServer' = <<>> /\ box' = [i \in Ids |-> Free]
      /\ IsSeq(rcvd) /\ IsSeq(toClient) /\ IsSeq(toServer)
  BY DEF ServeBadFrame, ServeEnd, EndSession, clientVars, toolVars, PrinterSane
<1>2. ~ServeBadFrame
  <2> SUFFICES ASSUME ServeBadFrame PROVE FALSE
    OBVIOUS
  <2>1. /\ toServer # <<>> /\ Head(toServer).type \in {"request", "cancel"}
        /\ (Head(toServer).type = "request") = (Checked[Head(toServer).id] # Free)
    BY DEF ServeBadFrame
  <2>2. Head(toServer) = toServer[1] /\ Len(toServer) >= 1 /\ Len(toServer) \in Nat
    BY <1>1, <2>1, Tailed, SeqWidens
  <2>3. ~OnlyAcks(Len(toServer))
    BY <2>1, <2>2 DEF OnlyAcks
  <2>4. Asking
    BY <2>1, <2>3 DEF Stage, Begun, Reading, Replied, Told
  <2>5. Checked[0] = Free
    BY <2>4 DEF Asking, AllFree, Checked, Ids
  <2> QED
    BY <2>1, <2>2, <2>4, <2>5 DEF Asking
<1>3. Told
  BY <1>2 DEF ServeEnd, Stage, Begun, Asking, Reading, Replied
<1>4. Answers' = Answers
  BY <1>1 DEF Answers
<1>5. IsSeq(toServer') /\ OnlyAcks(Len(toServer))' /\ NoTask'
  <2>1. Len(toServer') = 0 /\ IsSeq(toServer')
    BY <1>1, None
  <2>2. NoTask'
    BY <1>1 DEF NoTask, Free, Call
  <2> QED
    BY <2>1, <2>2 DEF OnlyAcks
<1>6. Told'
  BY <1>1, <1>3, <1>4, <1>5 DEF Told, ServedIt, Flow
<1>7. PrinterSane'
  BY <1>1, <1>5 DEF PrinterSane
<1> QED
  BY <1>1, <1>6, <1>7 DEF Stage

LEMMA TaskStage ==
  ASSUME program \in Printers, PrinterSane, Stage, NEW i \in Ids,
         TaskData(i) \/ TaskResult(i) \/ StreamFails(i), UNCHANGED toolVars
  PROVE  PrinterSane' /\ Stage' /\ program' = program
<1>1. /\ UNCHANGED <<program, pc, exit, result, taken, rcvd, shut, toServer, ended, count, pongs>>
      /\ box[i].op = "read" /\ IsSeq(rcvd) /\ IsSeq(toClient)
  BY DEF TaskData, TaskResult, StreamFails, clientVars, toolVars, PrinterSane
<1>2. Reading /\ i = 0 /\ box[i] = Call("read", "file")
  <2>1. AllFree => NoTask
    BY DEF AllFree, NoTask, Free, Call
  <2>2. ~NoTask
    BY <1>1 DEF NoTask
  <2>3. Reading
    BY <2>1, <2>2 DEF Stage, Begun, Asking, Replied, Told
  <2> QED
    BY <1>1, <2>3 DEF Reading, Ids
<1>3. OnlyAcks(Len(toServer))'
  BY <1>1, <1>2 DEF Reading, OnlyAcks
<1>4. CASE TaskData(i)
  <2>1. UNCHANGED <<box, served>> /\ Reply(<<Answer("read", i, given + 1)>>)
    BY <1>4 DEF TaskData
  <2>2. Flow(Len(Answers))'
    BY <1>1, <1>2, <1>4, ItemSent DEF Reading
  <2> DEFINE frame == Answer("read", i, given + 1)
  <2>3. frame.type = "read"
    BY DEF Answer
  <2> HIDE DEF frame
  <2>4. /\ IsSeq(toClient') /\ Len(Answers) \in Nat /\ Len(Answers') = Len(Answers) + 1
        /\ \A k \in 1 .. Len(Answers) : Answers'[k] = Answers[k]
        /\ Answers'[Len(Answers')] = frame
    BY <1>1, <2>1, OneSent DEF frame
  <2>5. NoResult(Len(Answers))'
    <3>1. \A k \in 1 .. Len(Answers') : k \in 1 .. Len(Answers) \/ k = Len(Answers')
      BY <2>4
    <3> QED
      BY <1>2, <2>3, <2>4, <3>1 DEF Reading, NoResult
  <2>6. Reading'
    BY <1>1, <1>2, <1>3, <2>1, <2>2, <2>5 DEF Reading
  <2>7. PrinterSane'
    BY <1>1, <2>1, <2>4 DEF PrinterSane
  <2> QED
    BY <1>1, <2>6, <2>7 DEF Stage
<1>5. CASE TaskResult(i)
  <2>1. PICK ok \in BOOLEAN :
          /\ Respond(i, IF ok THEN Ok ELSE Refused)
          /\ served' = Append(served, [call |-> box[i], ok |-> ok])
    BY <1>5 DEF TaskResult, Record
  <2>2. box' = [box EXCEPT ![i] = Done] /\ given' = given
    BY <1>5 DEF TaskResult
  <2> DEFINE frame == Answer("result", i, IF ok THEN Ok ELSE Refused)
  <2>3. frame.type = "result" /\ (frame.value = Ok) = ok
    BY DEF Answer, Ok, Refused
  <2>4. Reply(<<frame>>)
    BY <2>1 DEF Respond
  <2> HIDE DEF frame
  <2>5. Flow(Len(Answers) - 1)'
    BY <1>1, <1>2, <2>2, <2>4, ResultSent DEF Reading
  <2>6. /\ IsSeq(toClient') /\ Answers' # <<>>
        /\ Len(Answers) \in Nat /\ Len(Answers') = Len(Answers) + 1
        /\ \A k \in 1 .. Len(Answers) : Answers'[k] = Answers[k]
        /\ Answers'[Len(Answers')] = frame
    BY <1>1, <2>4, OneSent
  <2>7. NoResult(Len(Answers) - 1)'
    <3>1. Len(Answers') - 1 = Len(Answers)
      BY <2>6
    <3> QED
      BY <1>2, <2>6, <3>1 DEF Reading, NoResult
  <2>8. NoTask'
    BY <1>2, <2>2 DEF NoTask, Reading, PrinterSane, Done, Call, Ids
  <2>9. ServedIt(Answers[Len(Answers)].value = Ok)'
    <3> DEFINE x == [call |-> box[i], ok |-> ok]
    <3>1. IsSeq(served) /\ Len(served) = 0
      BY <1>2, None DEF Reading
    <3>2. x.call = box[i] /\ x.ok = ok
      OBVIOUS
    <3> HIDE DEF x
    <3>3. served' = Append(served, x)
      BY <2>1 DEF x
    <3>4. Len(served') = Len(served) + 1 /\ served'[Len(served) + 1] = x
      BY <3>1, <3>3, Appended
    <3>5. Len(served') = 1 /\ served'[1] = x
      BY <3>1, <3>4
    <3>6. x.call.file = "file"
      BY <1>2, <3>2 DEF Call
    <3> QED
      BY <2>3, <2>6, <3>2, <3>5, <3>6 DEF ServedIt
  <2>10. Replied'
    BY <1>1, <1>2, <1>3, <2>3, <2>5, <2>6, <2>7, <2>8, <2>9 DEF Reading, Replied
  <2>11. PrinterSane'
    BY <1>1, <2>2, <2>6 DEF PrinterSane
  <2> QED
    BY <1>1, <2>10, <2>11 DEF Stage
<1>6. ~StreamFails(i)
  BY <1>2 DEF StreamFails, Streams, Call
<1> QED
  BY <1>4, <1>5, <1>6

LEMMA InitStage ==
  ASSUME Init, program \in Printers
  PROVE  PrinterSane /\ Stage
<1>1. /\ pc = "start" /\ exit = "none" /\ taken = <<>> /\ rcvd = <<>> /\ shut = FALSE /\ result = Ok
      /\ toServer = <<>> /\ toClient = <<>> /\ ended = FALSE /\ served = <<>> /\ AllFree
      /\ count = 0 /\ pongs = 0
  BY DEF Init, InitConnection, IsTool, ToolSet, Printers, InitTool, AllFree
<1>2. IsSeq(<<>>) /\ Len(<<>>) = 0
  BY None
<1>3. Answers = <<>>
  BY <1>1, <1>2, AnswersAre
<1>4. PrinterSane
  BY <1>1, <1>2 DEF PrinterSane, AllFree
<1> QED
  BY <1>1, <1>3, <1>4 DEF Stage, Begun

LEMMA StepKeepsStage ==
  ASSUME program \in Printers, ~lost, ~lost', PrinterSane, Stage, [Next]_vars
  PROVE  PrinterSane' /\ Stage' /\ program' = program
<1>0. IsTool /\ program # "fping"
  BY DEF IsTool, ToolSet, Printers
<1>1. CASE UNCHANGED vars \/ Drawing \/ Rest
  <2>1. UNCHANGED connVars /\ UNCHANGED toolVars
    BY <1>1 DEF vars, Drawing, Rest
  <2>2. /\ UNCHANGED <<program, pc, exit, result, taken, shut, toServer, ended, box, given, served>>
        /\ UNCHANGED <<count, pongs>> /\ UNCHANGED <<rcvd, toClient>>
    BY <2>1 DEF connVars, clientVars, sessionVars, answerVars, toolVars
  <2>3. Answers' = Answers /\ IsSeq(rcvd') /\ IsSeq(toClient')
    BY <2>2 DEF Answers, PrinterSane
  <2> QED
    BY <2>2, <2>3, StageSame
<1>2. CASE ToolStep /\ Others /\ UNCHANGED scriptVars
  <2>1. ~StartThreads /\ ~HandlePong /\ ~FinishPings
    BY <1>0 DEF StartThreads, HandlePong, FinishPings
  <2> QED
    BY <1>2, <2>1, SendRequestStage, HandleItemStage, HandleResultStage, FinishStage
       DEF ToolStep, Stage
<1>3. CASE Receive /\ UNCHANGED <<toolVars, scriptVars>>
  BY <1>3, ReceiveStage
<1>4. CASE Session \/ StreamError
  <2>1. UNCHANGED toolVars
    BY <1>4 DEF Session, StreamError
  <2>2. ASSUME NEW i \in Ids, TaskData(i) \/ TaskResult(i) \/ StreamFails(i)
        PROVE  PrinterSane' /\ Stage' /\ program' = program
    BY <2>1, <2>2, TaskStage
  <2>3. Serve => PrinterSane' /\ Stage' /\ program' = program
    BY <2>1, ServeStage
  <2>4. ServeBadFrame \/ ServeEnd => PrinterSane' /\ Stage' /\ program' = program
    BY <2>1, EndStage
  <2> QED
    BY <1>4, <2>2, <2>3, <2>4 DEF Session, StreamError, SessionStep
<1>5. ~Loss
  BY DEF Loss, Cut
<1>6. ~PingerThread
  BY <1>0 DEF PingerThread, Pinger, SendPing
<1> QED
  BY <1>0, <1>1, <1>2, <1>3, <1>4, <1>5, <1>6 DEF Next, Program

LEMMA LostForGood ==
  ASSUME lost, [Next]_vars
  PROVE  lost'
<1>1. CASE UNCHANGED vars \/ Drawing \/ Rest
  BY <1>1 DEF vars, Drawing, Rest, connVars
<1>2. CASE Program \/ PingerThread
  BY <1>2 DEF Program, PingerThread, Others, Receive
<1>3. CASE Session \/ StreamError \/ Loss
  BY <1>3 DEF Session, StreamError, Loss, SessionStep, Serve, ServeBadFrame, ServeEnd, TaskData,
              TaskResult, StreamFails, Cut
<1> QED
  BY <1>1, <1>2, <1>3 DEF Next

LEMMA ProgramStays ==
  ASSUME [Next]_vars
  PROVE  program' = program
<1>1. CASE UNCHANGED vars \/ Drawing \/ Rest
  BY <1>1 DEF vars, Drawing, Rest, connVars, clientVars
<1>2. CASE ToolStep \/ PingerThread
  BY <1>2 DEF PingerThread, Pinger, SendPing, ToolStep, SendRequest, HandleItem, HandleResult,
              Finish, StartThreads, HandlePong, FinishPings, Killed
<1>3. CASE ScriptStep
  BY <1>3 DEF ScriptStep, MakeCall, TakeItem, TakeResult, LoseConnection, Return, Proceed,
              Unblock, CheckStatus, SeedChanged, Poll, ReadClicks, HandleClick, HandleClickResult,
              HandleJunk, LoseClicks, Killed, clientVars
<1>4. CASE Receive
  BY <1>4 DEF Receive
<1>5. CASE Session \/ StreamError \/ Loss
  BY <1>5 DEF Session, StreamError, Loss, SessionStep, Serve, ServeBadFrame, ServeEnd, TaskData,
              TaskResult, StreamFails, Cut, EndSession, clientVars
<1> QED
  BY <1>1, <1>2, <1>3, <1>4, <1>5 DEF Next, Program

\* The programs of Tools make no synced call.
ToolPhases == IsTool => pc \in {"start", "read", "exited"}

LEMMA ToolsDoNotCall ==
  ASSUME ToolPhases, [Next]_vars
  PROVE  ToolPhases'
<1> SUFFICES ASSUME IsTool PROVE pc' \in {"start", "read", "exited"}
  BY ProgramStays DEF ToolPhases, IsTool
<1>1. CASE UNCHANGED vars \/ Drawing \/ Rest
  BY <1>1 DEF vars, Drawing, Rest, connVars, clientVars, ToolPhases
<1>2. CASE ToolStep \/ PingerThread
  BY <1>2 DEF PingerThread, Pinger, SendPing, ToolStep, SendRequest, HandleItem, HandleResult,
              Finish, StartThreads, HandlePong, FinishPings, Killed, Exit, ToolPhases
<1>3. CASE Receive
  BY <1>3 DEF Receive, ToolPhases
<1>4. CASE Session \/ StreamError \/ Loss
  BY <1>4 DEF Session, StreamError, Loss, SessionStep, Serve, ServeBadFrame, ServeEnd, TaskData,
              TaskResult, StreamFails, Cut, EndSession, clientVars, ToolPhases
<1> QED
  BY <1>1, <1>2, <1>3, <1>4 DEF Next, Program

AnswerInv ==
  /\ CallInv /\ ToolPhases
  /\ ~IsTool => ItemInv
  /\ program \in Printers => PrinterInv

LEMMA InitAnswers == Init => AnswerInv
<1>1. Init /\ IsTool => pc = "start"
  BY DEF Init, InitTool
<1> QED
  BY <1>1, InitCalls, InitItems, InitStage DEF AnswerInv, ToolPhases, PrinterInv

LEMMA StepKeepsAnswers == AnswerInv /\ [Next]_vars => AnswerInv'
<1> SUFFICES ASSUME AnswerInv, [Next]_vars PROVE AnswerInv'
  OBVIOUS
<1>1. CallInv' /\ ToolPhases' /\ program' = program
  BY StepKeepsCalls, ToolsDoNotCall, ProgramStays DEF AnswerInv
<1>2. ~IsTool => ItemInv'
  BY StepKeepsItems DEF AnswerInv
<1>3. program \in Printers /\ ~lost' => PrinterSane' /\ Stage'
  BY StepKeepsStage, LostForGood DEF AnswerInv, PrinterInv
<1> QED
  BY <1>1, <1>2, <1>3 DEF AnswerInv, IsTool, PrinterInv

\* Whatever the network cuts up and the session reads or refuses: when a synced
\* call returns (wait_for_result, synced.cc), nothing is left on its way to be
\* read by the next call's receiver, and the call has been given all the items
\* of its answer, in order; and what fcat, fdir and fstat have printed when they
\* shut the connection down is the whole answer too.
THEOREM AnswersAreWhole == Spec => []AnswerWhole
<1>1. AnswerInv => AnswerWhole
  <2> SUFFICES ASSUME AnswerInv PROVE AnswerWhole
    OBVIOUS
  <2>1. ASSUME pc = "next"
        PROVE  rcvd = <<>> /\ toClient = <<>> /\ (result = Ok => Flow(0))
    <3>1. ~IsTool
      BY <2>1 DEF AnswerInv, ToolPhases
    <3>2. Answers = <<>> /\ (result = Ok => Flow(0))
      BY <2>1, <3>1 DEF AnswerInv, ItemInv, Quiet
    <3>3. IsSeq(rcvd) /\ IsSeq(toClient)
      BY <3>1 DEF AnswerInv, CallInv, Basic
    <3> QED
      BY <3>2, <3>3, AnswersAre
  <2>2. ASSUME program \in Printers, shut, ~lost, result = Ok
        PROVE  Flow(0)
    BY <2>2 DEF AnswerInv, PrinterInv, Stage, Begun, Asking, Reading, Replied, Told
  <2> QED
    BY <2>1, <2>2, FlowWhole DEF AnswerWhole
<1> QED
  BY <1>1, InitAnswers, StepKeepsAnswers, PTL DEF Spec
-----------------------------------------------------------------------------
(***************************************************************************)
(* What an exit status says of the calls that were served.                 *)
(***************************************************************************)

\* The program goes on, or may have, after the k-th call that was served.
Agreed(k) == served[k].ok \/ IsOptional(served[k].call)
AllAgreed == \A k \in DOMAIN served : Agreed(k)

NoRequest == \A k \in 1 .. Len(toServer) : toServer[k].type # "request"

\* A box is empty or has a task at work; an ended session has nothing to do.
BoxesSane ==
  /\ \A i \in Ids : box[i] \in {Free, Done} \/ box[i].op = "read"
  /\ ended => toServer = <<>> /\ NoTask
  /\ shut => pc = "exited"
  /\ count = 0 /\ pongs = 0

\* Until the connection is lost, the program makes its calls to a session that
\* has agreed to all those that matter.
Running ==
  pc \notin {"clicks", "exited"} =>
    /\ ~ended /\ ~clicked
    /\ \A k \in 1 .. step : Agreed(k)

\* What an exit status says, and that nothing is left to be served.
Exited ==
  /\ exit = "success" /\ program # "fset" =>
       AllAgreed /\ Len(script) <= Len(served) /\ NoRequest /\ NoTask
  /\ exit = "failure" => ~AllAgreed
  /\ exit \in {"abort", "killed", "confused"} => program = "buttonDemo"

Says(k, value) == Answers[k].type = "result" /\ Answers[k].value = value
Final(k) == Answers[k].type = "junk" \/ Says(k, Refused) \/ Says(k, Canceled)

SomeCanceled == \E k \in 1 .. Len(Answers) : Says(k, Canceled)
SomeFinal    == \E k \in 1 .. Len(Answers) : Final(k)

\* button-demo's request for clicks.
Wants(k) == toServer[k].type = "request" /\ toServer[k].id = 0

SomeWants == \E k \in 1 .. Len(toServer) : Wants(k)

ClickFrame(f) ==
  \/ f.type = "ack"
  \/ f.type = "cancel" /\ f.id = 0
  \/ f.type = "request" /\ f.id = 0 /\ f.call = Call("read", "clicked")
  \/ f.type = "request" /\ f.id = 1 /\ f.call = Call("put", "v/v/title")

ClickAnswer(a) ==
  \/ a.type = "read" /\ a.id = 0
  \/ a.type = "result" /\ a.id = 0 /\ a.value \in {Refused, Canceled}
  \/ a.type = "result" /\ a.id = 1 /\ a.value \in {Ok, Refused}
  \/ a.type = "junk"

\* While button-demo waits for clicks: it asks for them once, and for nothing
\* after a cancel.
QueueSane ==
  /\ \A k \in 1 .. Len(toServer) : ClickFrame(toServer[k])
  /\ \A k \in 1 .. Len(toServer) : toServer[k].type = "cancel" =>
       clicked /\ \A j \in k + 1 .. Len(toServer) : toServer[j].type # "request"
  /\ \A j, k \in 1 .. Len(toServer) : Wants(j) /\ Wants(k) => j = k

\* A refusal is known by its answer, and none follows the answer to a cancel.
AnswersSane ==
  /\ \A k \in 1 .. Len(Answers) : ClickAnswer(Answers[k])
  /\ AllAgreed <=> \A k \in 1 .. Len(Answers) : ~Says(k, Refused)
  /\ \A k \in 1 .. Len(Answers) : Says(k, Canceled) =>
       \A j \in k + 1 .. Len(Answers) : ~Says(j, Refused)

\* An answer that ends the program is on its way or can still be given; once
\* a cancel is answered nothing is left that could be refused.
Awaited ==
  /\ box[0].op = "read" => box[0] = Call("read", "clicked")
  /\ box[1].op # "read"
  /\ SomeWants => box[0].op # "read"
  /\ SomeCanceled => NoRequest /\ NoTask /\ clicked
  /\ SomeWants \/ box[0].op = "read" \/ SomeFinal

Clicking ==
  /\ program = "buttonDemo" /\ Len(script) <= Len(served)
  /\ QueueSane /\ AnswersSane /\ Awaited

ScriptInv == BoxesSane /\ Running /\ Exited /\ (pc = "clicks" => Clicking)

\* fping: a ping is to be sent, on its way, a pong on its way, or printed.
Pinging ==
  /\ IsSeq(rcvd) /\ IsSeq(toClient) /\ IsSeq(toServer)
  /\ served = <<>> /\ NoTask /\ DOMAIN box = Ids
  /\ count \in Nat /\ count > 0 /\ pings \in Nat /\ pongs \in Nat
  /\ \A k \in 1 .. Len(toServer) : toServer[k].type = "ping"
  /\ ended => toServer = <<>> /\ shut
  /\ (pc = "exited") = (exit # "none")
  /\ exit \in {"none", "success"}
  /\ pc = "start" => toServer = <<>> /\ Answers = <<>> /\ ~shut /\ pongs = 0
  /\ pc # "start" => /\ pongs + Len(Answers) + Len(toServer) + pings = count
                     /\ shut <=> pings = 0
  /\ pc = "exited" => pongs = count

----------------------------------------------------------------------------
(* fping.                                                                  *)

LEMMA InitPings ==
  ASSUME Init, program = "fping"
  PROVE  Pinging
<1>1. /\ pc = "start" /\ exit = "none" /\ rcvd = <<>> /\ shut = FALSE
      /\ toServer = <<>> /\ toClient = <<>> /\ ended = FALSE /\ served = <<>>
      /\ box = [i \in Ids |-> Free] /\ count \in 1 .. MaxPings /\ pings = 0 /\ pongs = 0
  BY DEF Init, InitConnection, IsTool, ToolSet, Printers, InitTool
<1>2. IsSeq(<<>>) /\ Len(<<>>) = 0
  BY None
<1>3. Answers = <<>>
  BY <1>1, <1>2, AnswersAre
<1>4. NoTask
  BY <1>1 DEF NoTask, Free, Call
<1> QED
  BY <1>1, <1>2, <1>3, <1>4 DEF Pinging

\* What changes neither the counts nor the ends.
LEMMA PingsSame ==
  ASSUME Pinging, Answers' = Answers, IsSeq(rcvd'), IsSeq(toClient'),
         UNCHANGED <<pc, exit, shut, toServer, ended, box, served, count, pings, pongs>>
  PROVE  Pinging'
BY DEF Pinging, NoTask

LEMMA PingSent ==
  ASSUME Pinging, SendPing, Others, UNCHANGED scriptVars
  PROVE  Pinging'
<1> DEFINE ping == Signal("ping", 0)
<1>1. /\ UNCHANGED <<toClient, ended, box, served, count, pongs>>
      /\ pc = "read" /\ pings > 0 /\ ~ended
  <2>1. UNCHANGED <<toClient, ended, box, served, count, pongs>> /\ pc = "read" /\ pings > 0
    BY DEF Others, sessionVars, answerVars, SendPing
  <2>2. (shut <=> pings = 0) /\ (ended => shut) /\ pings \in Nat
    BY <2>1 DEF Pinging
  <2> QED
    BY <2>1, <2>2
<1>2. /\ Send(<<ping>>) \/ SendFails
      /\ pings' = pings - 1 /\ shut' = (pings = 1) /\ UNCHANGED <<pc, exit, rcvd>>
  BY <1>1 DEF SendPing, Killed
<1>3. ping.type = "ping"
  BY DEF Signal, Frame
<1> HIDE DEF ping
<1>4. /\ IsSeq(toServer') /\ Len(toServer') = Len(toServer) + 1 /\ toServer'[Len(toServer) + 1] = ping
      /\ \A k \in 1 .. Len(toServer) : toServer'[k] = toServer[k]
  BY <1>1, <1>2, Sent DEF Pinging
<1>5. Answers' = Answers /\ Len(Answers) \in Nat /\ Len(toServer) \in Nat
  BY <1>1, <1>2, AnswersAre, SeqWidens DEF Pinging, Answers
<1>6. \A k \in 1 .. Len(toServer') : toServer'[k].type = "ping"
  <2>1. \A k \in 1 .. Len(toServer') : k \in 1 .. Len(toServer) \/ k = Len(toServer) + 1
    BY <1>4, <1>5
  <2> QED
    BY <1>3, <1>4, <2>1 DEF Pinging
<1>7. NoTask'
  BY <1>1 DEF NoTask, Pinging
<1>8. pongs' + Len(Answers') + Len(toServer') + pings' = count' /\ pings' \in Nat
      /\ (shut' <=> pings' = 0)
  <2>1. PICK a \in Nat, b \in Nat : a = Len(Answers) /\ b = Len(toServer)
    BY <1>5
  <2>2. pongs + a + b + pings = count /\ pongs \in Nat /\ pings \in Nat /\ pings > 0
    BY <1>1, <2>1 DEF Pinging
  <2>3. pongs + a + (b + 1) + (pings - 1) = count /\ pings - 1 \in Nat /\ (pings = 1 <=> pings - 1 = 0)
    BY <2>2
  <2> QED
    BY <1>1, <1>2, <1>4, <1>5, <2>1, <2>3
<1> QED
  BY <1>1, <1>2, <1>4, <1>6, <1>7, <1>8 DEF Pinging

LEMMA PongTaken ==
  ASSUME Pinging, HandlePong, Others, UNCHANGED scriptVars
  PROVE  Pinging'
<1>1. /\ UNCHANGED <<toClient, ended, box, served, toServer, count, pings, pc, exit, shut>>
      /\ pc = "read" /\ rcvd # <<>> /\ rcvd' = Tail(rcvd) /\ pongs' = pongs + 1
  BY DEF Others, sessionVars, answerVars, HandlePong
<1>2. /\ IsSeq(rcvd') /\ IsSeq(toClient') /\ Len(Answers') = Len(Answers) - 1
      /\ Len(Answers) \in Nat /\ Len(Answers) >= 1 /\ Len(toServer) \in Nat
  BY <1>1, AnswerTaken, AnswersAre, SeqWidens DEF Pinging
<1>3. pongs' + Len(Answers') + Len(toServer') + pings' = count' /\ pongs' \in Nat
  <2>1. PICK a \in Nat, b \in Nat : a = Len(Answers) /\ b = Len(toServer)
    BY <1>2
  <2>2. pongs + a + b + pings = count /\ pongs \in Nat /\ pings \in Nat /\ a >= 1
    BY <1>1, <1>2, <2>1 DEF Pinging
  <2>3. (pongs + 1) + (a - 1) + b + pings = count /\ pongs + 1 \in Nat
    BY <2>2
  <2> QED
    BY <1>1, <1>2, <2>1, <2>3
<1>4. NoTask'
  BY <1>1 DEF NoTask, Pinging
<1> QED
  BY <1>1, <1>2, <1>3, <1>4 DEF Pinging

LEMMA PingServed ==
  ASSUME Pinging, ~lost, Serve, UNCHANGED toolVars
  PROVE  Pinging'
<1>1. /\ UNCHANGED <<pc, exit, rcvd, shut, ended, count, pings, pongs>>
      /\ ~ended /\ toServer # <<>> /\ toServer' = Tail(toServer)
  BY DEF Serve, clientVars, toolVars
<1>2. /\ IsSeq(toServer') /\ Len(toServer') = Len(toServer) - 1 /\ Head(toServer) = toServer[1]
      /\ Len(toServer) \in Nat /\ Len(toServer) >= 1
      /\ \A k \in 1 .. Len(toServer) - 1 : toServer'[k] = toServer[k + 1]
  BY <1>1, Tailed, SeqWidens DEF Pinging
<1>3. Head(toServer).type = "ping"
  BY <1>2 DEF Pinging
<1>4. /\ Reply(<<Answer("pong", 0, 0)>>) /\ box' = Checked /\ UNCHANGED served
  BY <1>3 DEF Serve, ServeRequest, ServeRead, ServePing, ServeAck, ServeCancel, answerVars
<1> DEFINE pong == Answer("pong", 0, 0)
<1>5. Reply(<<pong>>)
  BY <1>4
<1> HIDE DEF pong
<1>6. IsSeq(toClient') /\ Len(Answers) \in Nat /\ Len(Answers') = Len(Answers) + 1
  BY <1>1, <1>5, OneSent DEF Pinging
<1>7. \A k \in 1 .. Len(toServer') : toServer'[k].type = "ping"
  <2>1. \A n \in Nat : \A k \in 1 .. n - 1 : k + 1 \in 1 .. n
    OBVIOUS
  <2>2. PICK n \in Nat : n = Len(toServer)
    BY <1>2
  <2>3. \A k \in 1 .. n - 1 : toServer'[k].type = "ping"
    BY <1>2, <2>1, <2>2 DEF Pinging
  <2> QED
    BY <1>2, <2>2, <2>3
<1>8. pc # "start"
  BY <1>1 DEF Pinging
<1>9. pongs' + Len(Answers') + Len(toServer') + pings' = count'
  <2>1. PICK a \in Nat, b \in Nat : a = Len(Answers) /\ b = Len(toServer)
    BY <1>2, <1>6
  <2>2. pongs + a + b + pings = count /\ pongs \in Nat /\ pings \in Nat /\ b >= 1
    BY <1>2, <1>8, <2>1 DEF Pinging
  <2>3. pongs + (a + 1) + (b - 1) + pings = count
    BY <2>2
  <2> QED
    BY <1>1, <1>2, <1>6, <2>1, <2>3
<1>10. NoTask' /\ DOMAIN box' = Ids
  BY <1>4 DEF NoTask, Pinging, Checked, Free, Call
<1> QED
  BY <1>1, <1>2, <1>4, <1>6, <1>7, <1>8, <1>9, <1>10 DEF Pinging

LEMMA StepKeepsPings ==
  ASSUME program = "fping", ~lost, ~lost', Pinging, [Next]_vars
  PROVE  Pinging'
<1>0. IsTool /\ program \notin Printers
  BY DEF IsTool, ToolSet, Printers
<1>1. CASE UNCHANGED vars \/ Drawing \/ Rest
  <2>1. UNCHANGED connVars /\ UNCHANGED toolVars
    BY <1>1 DEF vars, Drawing, Rest
  <2>2. /\ UNCHANGED <<pc, exit, shut, toServer, ended, box, served, count, pings, pongs>>
        /\ UNCHANGED <<rcvd, toClient>>
    BY <2>1 DEF connVars, clientVars, sessionVars, answerVars, toolVars
  <2>3. Answers' = Answers /\ IsSeq(rcvd') /\ IsSeq(toClient')
    BY <2>2 DEF Answers, Pinging
  <2> QED
    BY <2>2, <2>3, PingsSame
<1>2. CASE ToolStep /\ Others /\ UNCHANGED scriptVars
  <2>1. ~SendRequest /\ ~HandleItem /\ ~HandleResult /\ ~Finish
    BY <1>0 DEF SendRequest, HandleItem, HandleResult, Finish
  <2>2. CASE StartThreads
    <3>1. /\ UNCHANGED <<toClient, rcvd, toServer, ended, box, served, count, pongs, exit, shut>>
          /\ pc = "start" /\ pc' = "read" /\ pings' = count
      BY <1>2, <2>2 DEF Others, sessionVars, answerVars, StartThreads
    <3>2. Answers' = Answers /\ Answers = <<>> /\ toServer = <<>> /\ Len(<<>>) = 0
      BY <3>1, None DEF Answers, Pinging
    <3>3. Len(Answers') = 0 /\ Len(toServer') = 0
      BY <3>1, <3>2
    <3>4. NoTask'
      BY <3>1 DEF NoTask, Pinging
    <3>5. pongs = 0 /\ count \in Nat /\ ~shut
      BY <3>1 DEF Pinging
    <3>6. pongs' + Len(Answers') + Len(toServer') + pings' = count'
      BY <3>1, <3>3, <3>5
    <3>7. count # 0
      BY DEF Pinging
    <3> QED
      BY <3>1, <3>4, <3>5, <3>6, <3>7 DEF Pinging
  <2>3. CASE FinishPings
    <3>1. /\ UNCHANGED <<rcvd, toServer, toClient, ended, box, served, count, pings, pongs>>
          /\ pc = "read" \/ pc = "clicks"
          /\ ended /\ rcvd = <<>> /\ toClient = <<>>
          /\ pc' = "exited" /\ exit' = "success" /\ shut' = TRUE
      BY <1>2, <2>3 DEF Others, sessionVars, answerVars, FinishPings, AtEnd, Exit, toolVars
    <3>2. Answers = <<>> /\ Answers' = Answers
      BY <3>1, AnswersAre DEF Pinging, Answers
    <3>3. toServer = <<>> /\ shut = TRUE /\ pings = 0
      BY <3>1 DEF Pinging
    <3>4. Len(Answers) = 0 /\ Len(toServer) = 0
      BY <3>2, <3>3, None
    <3>5. pongs = count
      <4>1. pongs + Len(Answers) + Len(toServer) + pings = count /\ pongs \in Nat
        BY <3>1 DEF Pinging
      <4> QED
        BY <3>3, <3>4, <4>1
    <3>6. NoTask'
      BY <3>1 DEF NoTask, Pinging
    <3> QED
      BY <3>1, <3>2, <3>3, <3>5, <3>6 DEF Pinging
  <2> QED
    BY <1>2, <2>1, <2>2, <2>3, PongTaken DEF ToolStep
<1>3. CASE PingerThread
  BY <1>3, PingSent DEF PingerThread, Pinger
<1>4. CASE Receive /\ UNCHANGED <<toolVars, scriptVars>>
  <2>1. UNCHANGED <<pc, exit, shut, toServer, ended, box, served, count, pings, pongs>>
    BY <1>4 DEF Receive, sessionVars, answerVars, toolVars
  <2>2. IsSeq(rcvd') /\ IsSeq(toClient') /\ Answers' = Answers
    BY <1>4, AnswersRead DEF Pinging
  <2> QED
    BY <2>1, <2>2, PingsSame
<1>5. CASE Session \/ StreamError
  <2>1. UNCHANGED toolVars
    BY <1>5 DEF Session, StreamError
  <2>2. \A i \in Ids : ~TaskData(i) /\ ~TaskResult(i) /\ ~StreamFails(i)
    BY DEF TaskData, TaskResult, StreamFails, Pinging, NoTask
  <2>3. ~ServeBadFrame
    <3> SUFFICES ASSUME ServeBadFrame PROVE FALSE
      OBVIOUS
    <3>1. toServer # <<>> /\ Head(toServer).type # "ping"
      BY DEF ServeBadFrame
    <3>2. Head(toServer) = toServer[1] /\ Len(toServer) >= 1 /\ Len(toServer) \in Nat
      BY <3>1, Tailed, SeqWidens DEF Pinging
    <3> QED
      BY <3>1, <3>2 DEF Pinging
  <2>4. CASE ServeEnd
    <3>1. /\ UNCHANGED <<pc, exit, rcvd, toClient, shut, served, count, pings, pongs>>
          /\ shut /\ ended' = TRUE /\ toServer' = <<>> /\ box' = [i \in Ids |-> Free]
          /\ toServer = <<>>
      BY <2>1, <2>4 DEF ServeEnd, EndSession, clientVars, toolVars
    <3>2. Answers' = Answers
      BY <3>1 DEF Answers
    <3>3. NoTask'
      BY <3>1 DEF NoTask, Free, Call
    <3> QED
      BY <3>1, <3>2, <3>3 DEF Pinging
  <2> QED
    BY <1>5, <2>1, <2>2, <2>3, <2>4, PingServed DEF Session, StreamError, SessionStep
<1>6. ~Loss
  BY DEF Loss, Cut
<1> QED
  BY <1>0, <1>1, <1>2, <1>3, <1>4, <1>5, <1>6 DEF Next, Program

----------------------------------------------------------------------------
(* The programs that make synced calls.                                    *)

\* From ImplementsCalls.
Follows == \A k \in 1 .. Len(InScript) : InScript[k].call = script[k]

LEMMA InitExits ==
  ASSUME Init, ~IsTool
  PROVE  BoxesSane /\ Running /\ Exited /\ pc # "clicks"
<1>1. /\ pc = "next" /\ exit = "none" /\ ~shut /\ ~ended /\ ~clicked /\ step = 0
      /\ box = [i \in Ids |-> Free] /\ count = 0 /\ pongs = 0
  BY DEF Init, InitConnection, InitScript
<1> QED
  BY <1>1 DEF BoxesSane, Running, Exited

\* What is served adds to what was agreed to or not.
LEMMA ServedGrows ==
  ASSUME IsSeq(served), NEW x, served' = Append(served, x)
  PROVE  /\ Len(served) \in Nat /\ Len(served') = Len(served) + 1
         /\ \A k \in 1 .. Len(served) : Agreed(k)' <=> Agreed(k)
         /\ AllAgreed' <=> AllAgreed /\ (x.ok \/ IsOptional(x.call))
<1>1. /\ IsSeq(served') /\ Len(served') = Len(served) + 1 /\ Len(served) \in Nat
      /\ served'[Len(served) + 1] = x
      /\ \A k \in 1 .. Len(served) : served'[k] = served[k]
  BY Appended
<1>2. DOMAIN served = 1 .. Len(served) /\ DOMAIN served' = 1 .. Len(served')
  BY <1>1, SeqWidens
<1>3. \A k \in 1 .. Len(served) : Agreed(k)' <=> Agreed(k)
  BY <1>1 DEF Agreed
<1>4. PICK n \in Nat : n = Len(served)
  BY <1>1
<1>5. Agreed(n + 1)' <=> x.ok \/ IsOptional(x.call)
  BY <1>1, <1>4 DEF Agreed
<1>6. DOMAIN served = 1 .. n /\ DOMAIN served' = 1 .. n + 1 /\ n + 1 \in 1 .. n + 1
      /\ \A k \in 1 .. n + 1 : k \in 1 .. n \/ k = n + 1
  BY <1>1, <1>2, <1>4
<1>7. AllAgreed' <=> (\A k \in 1 .. n : Agreed(k)') /\ Agreed(n + 1)'
  BY <1>6 DEF AllAgreed
<1>8. AllAgreed <=> \A k \in 1 .. n : Agreed(k)
  BY <1>6 DEF AllAgreed
<1>9. AllAgreed' <=> AllAgreed /\ Agreed(n + 1)'
  BY <1>3, <1>4, <1>7, <1>8
<1> QED
  BY <1>1, <1>3, <1>5, <1>9

LEMMA ServedSame ==
  ASSUME served' = served
  PROVE  (AllAgreed' <=> AllAgreed) /\ \A k : Agreed(k)' <=> Agreed(k)
BY DEF AllAgreed, Agreed

\* While no call is being made, all calls that were made have been agreed to.
LEMMA IdleAgreed ==
  ASSUME Basic, Phase, Running, pc \notin {"read", "clicks", "exited"}
  PROVE  Idle /\ AllAgreed
<1>1. Idle
  BY DEF Phase, Asked, Working, Answered, Beyond, CutOff, Running
<1>2. DOMAIN served = 1 .. step
  BY <1>1, SeqWidens DEF Idle, Basic
<1> QED
  BY <1>1, <1>2 DEF Running, AllAgreed

\* The program's own steps up to the end of its script, and button-demo's no
\* further.
LEMMA ScriptExit ==
  ASSUME Basic, Phase, Follows, BoxesSane, Running, ~IsTool, ScriptStep, ~ReadClicks, Others,
         UNCHANGED <<count, pongs>>, pc \notin {"clicks", "exited"}
  PROVE  BoxesSane' /\ Running' /\ Exited' /\ pc' # "clicks"
<1>1. UNCHANGED <<toClient, ended, box, served>> /\ ~ended /\ ~clicked /\ exit = "none" /\ ~shut
  BY DEF Others, sessionVars, answerVars, Running, Basic, BoxesSane
<1>2. /\ \A k : Agreed(k)' <=> Agreed(k)
      /\ AllAgreed' <=> AllAgreed
      /\ NoTask' <=> NoTask
  BY <1>1, ServedSame DEF NoTask
<1>3. ASSUME shut' => pc' = "exited" PROVE BoxesSane'
  BY <1>1, <1>3 DEF BoxesSane
<1>4. ASSUME pc' \notin {"clicks", "exited"}, UNCHANGED <<step, clicked, exit, shut>>
      PROVE  BoxesSane' /\ Running' /\ Exited' /\ pc' # "clicks"
  BY <1>1, <1>2, <1>3, <1>4 DEF Running, Exited
<1>5. CASE MakeCall
  BY <1>1, <1>4, <1>5 DEF MakeCall, Killed
<1>6. CASE TakeItem
  BY <1>1, <1>4, <1>6 DEF TakeItem, Waiting, Killed, callVars
<1>7. CASE TakeResult
  <2>1. /\ pc = "read" /\ rcvd # <<>> /\ Head(rcvd).type = "result" /\ rcvd' = Tail(rcvd)
        /\ result' = Head(rcvd).value /\ step' = step + 1 /\ UNCHANGED <<clicked, program, script>>
    BY <1>7 DEF TakeResult, Waiting
  <2>2. Answered /\ Len(Answers) = 1 /\ Answers[1] = Head(rcvd)
    BY <1>1, <2>1, ResultTaken
  <2>3. Len(served) = step + 1 /\ served[step + 1].ok = (result' = Ok)
    BY <2>1, <2>2 DEF Answered
  <2>4. step \in Nat /\ step < Len(script) /\ Len(script) \in Nat /\ Len(served) <= Len(script)
    BY <2>1, <2>3, LenProperties DEF Basic
  <2>5. served[step + 1].call = script[step + 1]
    <3>1. InScript = served
      BY <2>4, ShortInScript DEF Basic
    <3>2. step + 1 \in 1 .. Len(InScript)
      BY <2>3, <2>4, <3>1
    <3> QED
      BY <3>1, <3>2 DEF Follows
  <2>6. Agreed(step + 1) <=> result' = Ok \/ IsOptional(script[step + 1])
    BY <2>3, <2>5 DEF Agreed
  <2>7. CASE result' = Ok \/ IsOptional(script[step + 1])
    <3>1. pc' = "next" /\ UNCHANGED <<exit, shut>>
      BY <1>7, <2>7 DEF TakeResult
    <3>2. \A k \in 1 .. step' : Agreed(k)'
      <4>1. \A k \in 1 .. step + 1 : k \in 1 .. step \/ k = step + 1
        BY <2>4
      <4> QED
        BY <1>2, <2>1, <2>6, <2>7, <4>1 DEF Running
    <3> QED
      BY <1>1, <1>3, <2>1, <3>1, <3>2 DEF Running, Exited
  <2>8. CASE ~(result' = Ok \/ IsOptional(script[step + 1]))
    <3>1. pc' = "exited" /\ shut' = TRUE /\ exit' = IF program = "fset" THEN "success" ELSE "failure"
      BY <1>7, <2>8 DEF TakeResult, Exit
    <3>2. ~AllAgreed
      <4>1. step + 1 \in DOMAIN served
        BY <2>3, <2>4, SeqWidens DEF Basic
      <4> QED
        BY <2>6, <2>8, <4>1 DEF AllAgreed
    <3> QED
      BY <1>2, <1>3, <2>1, <3>1, <3>2 DEF Running, Exited
  <2> QED
    BY <2>7, <2>8
<1>8. ASSUME pc \in {"next", "status"}, pc' = "exited", exit' = "success",
             step = Len(script), UNCHANGED <<script, toServer>>
      PROVE  BoxesSane' /\ Running' /\ Exited' /\ pc' # "clicks"
  <2>1. Idle /\ AllAgreed
    BY <1>8, IdleAgreed
  <2>2. NoRequest'
    BY <1>8, <2>1 DEF Idle, OnlyAcks, NoRequest
  <2>3. Len(script) <= Len(served)
    BY <1>8, <2>1, LenProperties DEF Idle, Basic
  <2> QED
    BY <1>1, <1>2, <1>3, <1>8, <2>1, <2>2, <2>3 DEF Idle, Running, Exited
<1>9. CASE Return
  BY <1>8, <1>9 DEF Return, AtScriptEnd, Exit, callVars
<1>10. CASE Proceed
  BY <1>4, <1>10 DEF Proceed, AtScriptEnd, callVars
<1>11. CASE CheckStatus
  <2>1. pc = "status" /\ step = Len(script) /\ UNCHANGED <<script, toServer, step, clicked>>
    BY <1>11 DEF CheckStatus, callVars, Basic
  <2>2. (pc' = "wait" /\ UNCHANGED <<exit, shut>>) \/ (pc' = "exited" /\ exit' = "success")
    BY <1>11 DEF CheckStatus, Exit
  <2> QED
    BY <1>4, <1>8, <2>1, <2>2
<1>12. CASE SeedChanged
  BY <1>4, <1>12 DEF SeedChanged
<1>13. CASE Poll
  BY <1>4, <1>13 DEF Poll, clientVars, callVars
<1>14. ~LoseConnection /\ ~Unblock /\ ~HandleClick /\ ~HandleClickResult /\ ~HandleJunk /\ ~LoseClicks
  BY <1>1 DEF LoseConnection, AtEnd, Unblock, HandleClick, HandleClickResult, HandleJunk, LoseClicks, Clicks
<1> QED
  BY <1>5, <1>6, <1>7, <1>9, <1>10, <1>11, <1>12, <1>13, <1>14 DEF ScriptStep

\* What the session has served stays served.
LEMMA SessionServes ==
  ASSUME \/ Serve \/ ServeBadFrame \/ ServeEnd
         \/ \E i \in Ids : TaskData(i) \/ TaskResult(i) \/ StreamFails(i)
  PROVE  served' = served \/ \E x : served' = Append(served, x)
<1>1. CASE Serve
  <2>1. PICK f : ServeRequest(f) \/ ServeRead(f) \/ ServePing(f) \/ ServeAck(f) \/ ServeCancel(f)
    BY <1>1 DEF Serve
  <2> QED
    BY <2>1 DEF ServeRequest, ServeLook, ServeChange, ServeRefusal, Record, ServeRead, ServePing,
                ServeAck, ServeCancel, answerVars
<1>2. CASE ServeBadFrame \/ ServeEnd
  BY <1>2 DEF ServeBadFrame, ServeEnd, EndSession
<1>3. CASE \E i \in Ids : TaskData(i) \/ TaskResult(i) \/ StreamFails(i)
  BY <1>3 DEF TaskData, TaskResult, StreamFails, Record
<1> QED
  BY <1>1, <1>2, <1>3

LEMMA SessionBoxes ==
  ASSUME BoxesSane, DOMAIN box = Ids, UNCHANGED <<count, pongs>>,
         \/ Serve \/ ServeBadFrame \/ ServeEnd
         \/ \E i \in Ids : TaskData(i) \/ TaskResult(i) \/ StreamFails(i)
  PROVE  BoxesSane' /\ UNCHANGED clientVars
<1>0. /\ \A i \in Ids : Checked[i] \in {Free, Done} \/ Checked[i].op = "read"
      /\ NoTask => \A i \in Ids : Checked[i].op # "read"
  BY DEF BoxesSane, Checked, NoTask, Free, Call
<1>1. CASE Serve
  <2>1. PICK f : ServeRequest(f) \/ ServeRead(f) \/ ServePing(f) \/ ServeAck(f) \/ ServeCancel(f)
    BY <1>1 DEF Serve
  <2>2. ~ended /\ ended' = ended /\ UNCHANGED clientVars
    BY <1>1 DEF Serve
  <2>3. \/ box' = Checked \/ (f.call.op = "read" /\ box' = [Checked EXCEPT ![f.id] = f.call])
        \/ box' = [Checked EXCEPT ![f.id] = Free]
    BY <2>1 DEF ServeRequest, ServeRead, ServePing, ServeAck, ServeCancel
  <2>4. \A i \in Ids : box'[i] \in {Free, Done} \/ box'[i].op = "read"
    BY <1>0, <2>3 DEF Checked
  <2> QED
    BY <2>2, <2>4 DEF BoxesSane, clientVars
<1>2. CASE ServeBadFrame \/ ServeEnd
  <2>1. ended' = TRUE /\ toServer' = <<>> /\ box' = [i \in Ids |-> Free] /\ UNCHANGED clientVars
    BY <1>2 DEF ServeBadFrame, ServeEnd, EndSession
  <2>2. NoTask'
    BY <2>1 DEF NoTask, Free, Call
  <2> QED
    BY <2>1, <2>2 DEF BoxesSane, clientVars
<1>3. CASE \E i \in Ids : TaskData(i) \/ TaskResult(i) \/ StreamFails(i)
  <2>1. PICK i \in Ids : TaskData(i) \/ TaskResult(i) \/ StreamFails(i)
    BY <1>3
  <2>2. /\ box[i].op = "read" /\ UNCHANGED <<ended, toServer>> /\ UNCHANGED clientVars
        /\ box' = box \/ box' = [box EXCEPT ![i] = Done]
    BY <2>1 DEF TaskData, TaskResult, StreamFails
  <2>3. ~ended
    BY <2>2 DEF BoxesSane, NoTask
  <2> QED
    BY <2>2, <2>3 DEF BoxesSane, clientVars
<1> QED
  BY <1>1, <1>2, <1>3

\* The session has no reason to end while calls are made to it.
LEMMA NoBadCall ==
  ASSUME Basic, Phase, BoxesSane, pc \notin {"clicks", "exited"}
  PROVE  ~ServeBadFrame /\ ~ServeEnd
<1>1. ~ServeEnd
  BY DEF ServeEnd, BoxesSane
<1>2. ~ServeBadFrame
  <2> SUFFICES ASSUME ServeBadFrame PROVE FALSE
    OBVIOUS
  <2> DEFINE f == Head(toServer)
  <2>1. /\ ~ended /\ toServer # <<>> /\ f.type \in {"request", "cancel"}
        /\ (f.type = "request") = (Checked[f.id] # Free)
    BY DEF ServeBadFrame
  <2>2. f = toServer[1] /\ Len(toServer) >= 1 /\ Len(toServer) \in Nat
    BY <2>1, Tailed, SeqWidens DEF Basic
  <2>3. ~OnlyAcks(Len(toServer))
    BY <2>1, <2>2 DEF OnlyAcks
  <2>4. Asked
    BY <2>1, <2>3 DEF Phase, Idle, Working, Answered, Beyond, CutOff
  <2>5. f.type = "request" /\ f.id = 0
    <3>1. PICK n \in Nat : n = Len(toServer) /\ n >= 1
      BY <2>2
    <3>2. n # 1 => 1 \in 1 .. n - 1
      BY <3>1
    <3>3. n = 1
      BY <2>1, <2>2, <2>4, <3>1, <3>2 DEF Asked, OnlyAcks
    <3> QED
      BY <2>2, <2>4, <3>1, <3>3 DEF Asked
  <2>6. Checked[0] = Free
    BY <2>4 DEF Asked, NoTask, BoxesSane, Checked, Ids
  <2> QED
    BY <2>1, <2>5, <2>6
<1> QED
  BY <1>1, <1>2

LEMMA SessionExit ==
  ASSUME Basic, Phase, BoxesSane, Running, Exited, ~IsTool, UNCHANGED <<toolVars, scriptVars>>,
         pc # "clicks",
         \/ Serve \/ ServeBadFrame \/ ServeEnd
         \/ \E i \in Ids : TaskData(i) \/ TaskResult(i) \/ StreamFails(i)
  PROVE  BoxesSane' /\ Running' /\ Exited' /\ pc' # "clicks"
<1>1. /\ BoxesSane' /\ UNCHANGED <<program, pc, exit, shut>>
      /\ UNCHANGED <<script, step, clicked>>
  BY SessionBoxes DEF Basic, toolVars, scriptVars, callVars, clientVars
<1>2. /\ \A k \in 1 .. Len(served) : Agreed(k)' <=> Agreed(k)
      /\ AllAgreed' => AllAgreed
      /\ served' = served => (AllAgreed' <=> AllAgreed)
  <2>1. CASE served' = served
    BY <2>1, ServedSame
  <2>2. CASE served' # served
    <3>1. PICK x : served' = Append(served, x)
      BY <2>2, SessionServes
    <3> QED
      BY <2>2, <3>1, ServedGrows DEF Basic
  <2> QED
    BY <2>1, <2>2
<1>3. CASE pc = "exited"
  <2>1. CASE exit = "success" /\ program # "fset"
    <3>1. AllAgreed /\ Len(script) <= Len(served) /\ NoRequest /\ NoTask
      BY <2>1 DEF Exited
    <3>2. \A i \in Ids : ~TaskData(i) /\ ~TaskResult(i) /\ ~StreamFails(i)
      BY <3>1 DEF TaskData, TaskResult, StreamFails, NoTask
    <3>3. served' = served /\ NoRequest' /\ NoTask'
      <4>1. CASE Serve
        <5>1. /\ IsSeq(toServer) /\ toServer # <<>> /\ toServer' = Tail(toServer)
          BY <4>1 DEF Serve, Basic
        <5>2. /\ Len(toServer') = Len(toServer) - 1 /\ Len(toServer) \in Nat /\ Len(toServer) >= 1
              /\ Head(toServer) = toServer[1]
              /\ \A k \in 1 .. Len(toServer) - 1 : toServer'[k] = toServer[k + 1]
          BY <5>1, Tailed, SeqWidens
        <5>3. NoRequest'
          <6>1. PICK n \in Nat : n = Len(toServer)
            BY <5>2
          <6>2. \A k \in 1 .. n - 1 : k + 1 \in 1 .. n
            BY <6>1
          <6>3. \A k \in 1 .. n - 1 : toServer'[k].type # "request"
            BY <3>1, <5>2, <6>1, <6>2 DEF NoRequest
          <6> QED
            BY <5>2, <6>1, <6>3 DEF NoRequest
        <5>4. Head(toServer).type # "request"
          BY <3>1, <5>2 DEF NoRequest
        <5>5. served' = served /\ (box' = Checked \/ \E i : box' = [Checked EXCEPT ![i] = Free])
          BY <4>1, <5>4 DEF Serve, ServeRequest, ServeRead, ServePing, ServeAck, ServeCancel, answerVars
        <5>6. DOMAIN Checked = Ids /\ (\A i \in Ids : Checked[i].op # "read") /\ Free.op # "read"
          BY <3>1 DEF NoTask, Checked, Free, Call
        <5>7. NoTask'
          BY <5>5, <5>6 DEF NoTask
        <5> QED
          BY <5>3, <5>5, <5>7
      <4>2. CASE ServeBadFrame \/ ServeEnd
        <5>1. served' = served /\ toServer' = <<>> /\ box' = [i \in Ids |-> Free]
          BY <4>2 DEF ServeBadFrame, ServeEnd, EndSession
        <5>2. Len(toServer') = 0
          BY <5>1, None
        <5> QED
          BY <5>1, <5>2 DEF NoRequest, NoTask, Free, Call
      <4> QED
        BY <3>2, <4>1, <4>2
    <3> QED
      BY <1>1, <1>2, <1>3, <2>1, <3>1, <3>3 DEF Running, Exited
  <2>2. CASE ~(exit = "success" /\ program # "fset")
    BY <1>1, <1>2, <1>3, <2>2 DEF Running, Exited
  <2> QED
    BY <2>1, <2>2
<1>4. CASE pc # "exited"
  <2>1. ~ServeBadFrame /\ ~ServeEnd
    BY <1>4, NoBadCall
  <2>2. ended' = ended
    <3>1. CASE Serve
      BY <3>1 DEF Serve
    <3>2. CASE \E i \in Ids : TaskData(i) \/ TaskResult(i) \/ StreamFails(i)
      BY <3>2 DEF TaskData, TaskResult, StreamFails
    <3> QED
      BY <2>1, <3>1, <3>2
  <2>3. exit = "none"
    BY <1>4 DEF Basic
  <2>4. Len(served) \in Nat /\ step \in Nat /\ step <= Len(served)
    <3>1. Len(served) \in Nat /\ step \in Nat
      BY SeqWidens, LenProperties DEF Basic
    <3>2. ~CutOff /\ ~Beyond
      BY <1>4 DEF CutOff, Running, Beyond
    <3> QED
      BY <3>1, <3>2 DEF Phase, Idle, Asked, Working, Answered
  <2>5. \A k \in 1 .. step : Agreed(k)'
    <3>1. \A k \in 1 .. step : k \in 1 .. Len(served)
      BY <2>4
    <3> QED
      BY <1>2, <1>4, <3>1 DEF Running
  <2> QED
    BY <1>1, <1>4, <2>2, <2>3, <2>5 DEF Running, Exited
<1> QED
  BY <1>3, <1>4

----------------------------------------------------------------------------
(* button-demo waits for clicks.                                           *)

LEMMA QueueTaken ==
  ASSUME QueueSane, IsSeq(toServer), toServer # <<>>, toServer' = Tail(toServer), clicked' = clicked
  PROVE  /\ QueueSane' /\ ClickFrame(Head(toServer))
         /\ SomeWants' <=> SomeWants /\ ~(Head(toServer).type = "request" /\ Head(toServer).id = 0)
         /\ Head(toServer).type = "request" /\ Head(toServer).id = 0 => SomeWants
         /\ NoRequest => NoRequest' /\ Head(toServer).type # "request"
         /\ Head(toServer).type = "cancel" => NoRequest' /\ clicked
<1>1. PICK n \in Nat : n = Len(toServer) /\ n >= 1
  BY Tailed, SeqWidens
<1>2. /\ Len(toServer') = n - 1 /\ Head(toServer) = toServer[1]
      /\ \A k \in 1 .. n - 1 : toServer'[k] = toServer[k + 1]
  BY <1>1, Tailed
<1>3. /\ 1 \in 1 .. n /\ \A k \in 1 .. n - 1 : k + 1 \in 1 .. n /\ k + 1 \in 1 + 1 .. n /\ k + 1 # 1
      /\ \A k \in 2 .. n : k - 1 \in 1 .. n - 1 /\ (k - 1) + 1 = k
      /\ \A k \in 1 .. n : k = 1 \/ k \in 2 .. n
  BY <1>1
<1>4. /\ \A k \in 1 .. n : ClickFrame(toServer[k])
      /\ \A k \in 1 .. n : toServer[k].type = "cancel" =>
           clicked /\ \A j \in k + 1 .. n : toServer[j].type # "request"
      /\ \A j, k \in 1 .. n : Wants(j) /\ Wants(k) => j = k
  BY <1>1 DEF QueueSane
<1>5. \A k \in 1 .. n - 1 : Wants(k)' <=> Wants(k + 1)
  BY <1>2 DEF Wants
<1>6. Wants(1) <=> Head(toServer).type = "request" /\ Head(toServer).id = 0
  BY <1>2 DEF Wants
<1>7. SomeWants <=> \E k \in 1 .. n : Wants(k)
  BY <1>1 DEF SomeWants
<1>8. SomeWants' <=> \E k \in 1 .. n - 1 : Wants(k + 1)
  BY <1>2, <1>5 DEF SomeWants
<1>9. SomeWants' <=> SomeWants /\ ~Wants(1)
  <2>1. SomeWants' => SomeWants /\ ~Wants(1)
    BY <1>3, <1>4, <1>7, <1>8
  <2>2. SomeWants /\ ~Wants(1) => SomeWants'
    <3> SUFFICES ASSUME NEW k \in 1 .. n, Wants(k), ~Wants(1) PROVE SomeWants'
      BY <1>7
    <3>1. k - 1 \in 1 .. n - 1 /\ (k - 1) + 1 = k
      BY <1>3
    <3> QED
      BY <1>8, <3>1
  <2> QED
    BY <2>1, <2>2
<1>10. NoRequest => NoRequest' /\ Head(toServer).type # "request"
  <2>1. NoRequest => \A k \in 1 .. n - 1 : toServer'[k].type # "request"
    BY <1>1, <1>2, <1>3 DEF NoRequest
  <2>2. NoRequest => toServer[1].type # "request"
    BY <1>1, <1>3 DEF NoRequest
  <2> QED
    BY <1>2, <2>1, <2>2 DEF NoRequest
<1>11. Head(toServer).type = "cancel" => NoRequest' /\ clicked
  <2> SUFFICES ASSUME toServer[1].type = "cancel" PROVE NoRequest' /\ clicked
    BY <1>2
  <2>1. clicked /\ \A j \in 1 + 1 .. n : toServer[j].type # "request"
    BY <1>3, <1>4
  <2>2. \A k \in 1 .. n - 1 : toServer'[k].type # "request"
    BY <1>2, <1>3, <2>1
  <2> QED
    BY <1>2, <2>1, <2>2 DEF NoRequest
<1>12. QueueSane'
  <2>1. \A k \in 1 .. n - 1 : ClickFrame(toServer'[k])
    BY <1>2, <1>3, <1>4
  <2>2. ASSUME NEW k \in 1 .. n - 1, toServer'[k].type = "cancel"
        PROVE  clicked /\ \A j \in k + 1 .. n - 1 : toServer'[j].type # "request"
    <3>1. k + 1 \in 1 .. n /\ toServer[k + 1].type = "cancel"
      BY <1>2, <1>3, <2>2
    <3>2. clicked /\ \A j \in (k + 1) + 1 .. n : toServer[j].type # "request"
      BY <1>4, <3>1
    <3>3. \A j \in k + 1 .. n - 1 : j \in 1 .. n - 1 /\ j + 1 \in (k + 1) + 1 .. n
      OBVIOUS
    <3> QED
      BY <1>2, <3>2, <3>3
  <2>3. \A j, k \in 1 .. n - 1 : Wants(j)' /\ Wants(k)' => j = k
    <3>1. ASSUME NEW j \in 1 .. n - 1, NEW k \in 1 .. n - 1, Wants(j)', Wants(k)' PROVE j = k
      <4>1. j + 1 = k + 1
        BY <1>3, <1>4, <1>5, <3>1
      <4> QED
        BY <4>1
    <3> QED
      BY <3>1
  <2> QED
    BY <1>2, <2>1, <2>2, <2>3 DEF QueueSane
<1> QED
  BY <1>2, <1>3, <1>4, <1>6, <1>7, <1>9, <1>10, <1>11, <1>12

LEMMA AnswersSaneTaken ==
  ASSUME AnswersSane, IsSeq(rcvd), IsSeq(toClient), rcvd # <<>>, rcvd' = Tail(rcvd),
         toClient' = toClient, served' = served, ~(Head(rcvd).type = "result" /\ Head(rcvd).value = Refused)
  PROVE  /\ AnswersSane' /\ ClickAnswer(Head(rcvd))
         /\ SomeCanceled' => SomeCanceled
         /\ SomeFinal => SomeFinal' \/ Final(1)
         /\ Head(rcvd) = Answers[1] /\ Len(Answers) >= 1 /\ Len(Answers) \in Nat
<1>1. PICK n \in Nat : n = Len(Answers) /\ n >= 1
  BY AnswersAre
<1>2. /\ Len(Answers') = n - 1 /\ Head(rcvd) = Answers[1]
      /\ \A k \in 1 .. n - 1 : Answers'[k] = Answers[k + 1]
  BY <1>1, AnswersAre, AnswerTaken
<1>3. /\ 1 \in 1 .. n /\ \A k \in 1 .. n - 1 : k + 1 \in 1 .. n
      /\ \A k \in 2 .. n : k - 1 \in 1 .. n - 1 /\ (k - 1) + 1 = k
      /\ \A k \in 1 .. n : k = 1 \/ k \in 2 .. n
  BY <1>1
<1>4. /\ \A k \in 1 .. n : ClickAnswer(Answers[k])
      /\ AllAgreed <=> \A k \in 1 .. n : ~Says(k, Refused)
      /\ \A k \in 1 .. n : Says(k, Canceled) => \A j \in k + 1 .. n : ~Says(j, Refused)
  BY <1>1 DEF AnswersSane
<1>5. /\ \A k \in 1 .. n - 1 : Says(k, Refused)' <=> Says(k + 1, Refused)
      /\ \A k \in 1 .. n - 1 : Says(k, Canceled)' <=> Says(k + 1, Canceled)
      /\ \A k \in 1 .. n - 1 : Final(k)' <=> Final(k + 1)
  BY <1>2 DEF Says, Final, Refused, Canceled
<1>6. SomeCanceled' => SomeCanceled
  BY <1>1, <1>2, <1>3, <1>5 DEF SomeCanceled
<1>7. SomeFinal => SomeFinal' \/ Final(1)
  <2> SUFFICES ASSUME NEW k \in 1 .. n, Final(k), ~Final(1) PROVE SomeFinal'
    BY <1>1 DEF SomeFinal
  <2>1. k - 1 \in 1 .. n - 1 /\ (k - 1) + 1 = k
    BY <1>3
  <2>2. Final(k - 1)'
    BY <1>5, <2>1
  <2> QED
    BY <1>2, <2>1, <2>2 DEF SomeFinal
<1>8. AnswersSane'
  <2>1. \A k \in 1 .. n - 1 : ClickAnswer(Answers'[k])
    BY <1>2, <1>3, <1>4
  <2>2. AllAgreed' <=> \A k \in 1 .. n - 1 : ~Says(k, Refused)'
    <3>1. ~Says(1, Refused)
      BY <1>2 DEF Says
    <3>2. (\A k \in 1 .. n : ~Says(k, Refused)) <=> \A k \in 1 .. n - 1 : ~Says(k + 1, Refused)
      <4>1. ASSUME \A k \in 1 .. n - 1 : ~Says(k + 1, Refused), NEW k \in 1 .. n
            PROVE  ~Says(k, Refused)
        <5>1. k # 1 => k - 1 \in 1 .. n - 1 /\ (k - 1) + 1 = k
          BY <1>3
        <5> QED
          BY <3>1, <4>1, <5>1
      <4> QED
        BY <1>3, <4>1
    <3> QED
      BY <1>4, <1>5, <3>2, ServedSame
  <2>3. ASSUME NEW k \in 1 .. n - 1, Says(k, Canceled)', NEW j \in k + 1 .. n - 1
        PROVE  ~Says(j, Refused)'
    <3>1. k + 1 \in 1 .. n /\ j \in 1 .. n - 1 /\ j + 1 \in (k + 1) + 1 .. n
      OBVIOUS
    <3>2. Says(k + 1, Canceled)
      BY <1>5, <2>3
    <3> QED
      BY <1>4, <1>5, <3>1, <3>2
  <2> QED
    BY <1>2, <2>1, <2>2, <2>3 DEF AnswersSane, Canceled, Refused
<1> QED
  BY <1>1, <1>2, <1>3, <1>4, <1>6, <1>7, <1>8

LEMMA AnswersSaneSent ==
  ASSUME AnswersSane, IsSeq(rcvd), IsSeq(toClient), rcvd' = rcvd,
         NEW x, Reply(<<x>>), ClickAnswer(x),
         AllAgreed' <=> AllAgreed /\ ~(x.type = "result" /\ x.value = Refused),
         SomeCanceled => ~(x.type = "result" /\ x.value = Refused)
  PROVE  /\ AnswersSane'
         /\ SomeCanceled' <=> SomeCanceled \/ (x.type = "result" /\ x.value = Canceled)
         /\ SomeFinal => SomeFinal'
         /\ x.type = "junk" \/ (x.type = "result" /\ x.value \in {Refused, Canceled}) => SomeFinal'
<1>1. PICK n \in Nat : n = Len(Answers)
  BY OneSent
<1>2. /\ Len(Answers') = n + 1 /\ Answers'[n + 1] = x
      /\ \A k \in 1 .. n : Answers'[k] = Answers[k]
  BY <1>1, OneSent
<1>3. /\ n + 1 \in 1 .. n + 1 /\ \A k \in 1 .. n + 1 : k \in 1 .. n \/ k = n + 1
      /\ \A k \in 1 .. n : k \in 1 .. n + 1 /\ n + 1 \in k + 1 .. n + 1
      /\ \A k \in 1 .. n : \A j \in k + 1 .. n + 1 : j = n + 1 \/ j \in k + 1 .. n
      /\ \A j \in (n + 1) + 1 .. n + 1 : FALSE
      /\ \A k \in 1 .. n : \A j \in k + 1 .. n : j \in 1 .. n
  BY <1>1
<1>4. /\ \A k \in 1 .. n : ClickAnswer(Answers[k])
      /\ AllAgreed <=> \A k \in 1 .. n : ~Says(k, Refused)
      /\ \A k \in 1 .. n : Says(k, Canceled) => \A j \in k + 1 .. n : ~Says(j, Refused)
  BY <1>1 DEF AnswersSane
<1> DEFINE says(v) == x.type = "result" /\ x.value = v
<1>5. /\ \A k \in 1 .. n : Says(k, Refused)' <=> Says(k, Refused)
      /\ \A k \in 1 .. n : Says(k, Canceled)' <=> Says(k, Canceled)
      /\ \A k \in 1 .. n : Final(k)' <=> Final(k)
      /\ Says(n + 1, Refused)' <=> says(Refused)
      /\ Says(n + 1, Canceled)' <=> says(Canceled)
      /\ Final(n + 1)' <=> x.type = "junk" \/ says(Refused) \/ says(Canceled)
  BY <1>2 DEF Says, Final, Refused, Canceled
<1>6. SomeCanceled <=> \E k \in 1 .. n : Says(k, Canceled)
  BY <1>1 DEF SomeCanceled
<1>7. SomeCanceled' <=> \E k \in 1 .. n + 1 : Says(k, Canceled)'
  BY <1>2 DEF SomeCanceled, Canceled
<1>8. /\ SomeFinal <=> \E k \in 1 .. n : Final(k)
      /\ SomeFinal' <=> \E k \in 1 .. n + 1 : Final(k)'
  BY <1>1, <1>2 DEF SomeFinal
<1> HIDE DEF says
<1>9. SomeCanceled' <=> SomeCanceled \/ says(Canceled)
  BY <1>3, <1>5, <1>6, <1>7
<1>10. /\ SomeFinal => SomeFinal'
       /\ x.type = "junk" \/ says(Refused) \/ says(Canceled) => SomeFinal'
  BY <1>3, <1>5, <1>8
<1>11. AnswersSane'
  <2>1. \A k \in 1 .. n + 1 : ClickAnswer(Answers'[k])
    BY <1>2, <1>3, <1>4
  <2>2. AllAgreed' <=> \A k \in 1 .. n + 1 : ~Says(k, Refused)'
    <3>1. AllAgreed' <=> AllAgreed /\ ~says(Refused)
      BY DEF says
    <3> QED
      BY <1>3, <1>4, <1>5, <3>1
  <2>3. ASSUME NEW k \in 1 .. n + 1, Says(k, Canceled)', NEW j \in k + 1 .. n + 1
        PROVE  ~Says(j, Refused)'
    <3>1. k \in 1 .. n
      BY <1>3
    <3>2. Says(k, Canceled) /\ SomeCanceled
      BY <1>5, <1>6, <2>3, <3>1
    <3>3. CASE j = n + 1
      BY <1>5, <3>2, <3>3 DEF says
    <3>4. CASE j \in k + 1 .. n
      BY <1>3, <1>4, <1>5, <3>1, <3>2, <3>4
    <3> QED
      BY <1>3, <3>1, <3>3, <3>4
  <2> QED
    BY <1>2, <2>1, <2>2, <2>3 DEF AnswersSane, Canceled, Refused
<1> QED
  BY <1>9, <1>10, <1>11 DEF says

LEMMA QueueSent ==
  ASSUME QueueSane, IsSeq(toServer), ~ended, clicked' = TRUE, NEW x, Send(<<x>>),
         IF clicked THEN x.type = "cancel" /\ x.id = 0
                    ELSE x.type = "request" /\ x.id = 1 /\ x.call = Call("put", "v/v/title")
  PROVE  /\ QueueSane' /\ (SomeWants' <=> SomeWants)
         /\ NoRequest /\ clicked => NoRequest'
<1>1. PICK n \in Nat : n = Len(toServer)
  BY SeqWidens
<1>2. /\ Len(toServer') = n + 1 /\ toServer'[n + 1] = x
      /\ \A k \in 1 .. n : toServer'[k] = toServer[k]
  BY <1>1, Sent
<1>3. /\ n + 1 \in 1 .. n + 1 /\ \A k \in 1 .. n + 1 : k \in 1 .. n \/ k = n + 1
      /\ \A k \in 1 .. n : k \in 1 .. n + 1
      /\ \A k \in 1 .. n : \A j \in k + 1 .. n + 1 : j = n + 1 \/ j \in k + 1 .. n
      /\ \A j \in (n + 1) + 1 .. n + 1 : FALSE
      /\ \A k \in 1 .. n : \A j \in k + 1 .. n : j \in 1 .. n
  BY <1>1
<1>4. /\ \A k \in 1 .. n : ClickFrame(toServer[k])
      /\ \A k \in 1 .. n : toServer[k].type = "cancel" =>
           clicked /\ \A j \in k + 1 .. n : toServer[j].type # "request"
      /\ \A j, k \in 1 .. n : Wants(j) /\ Wants(k) => j = k
  BY <1>1 DEF QueueSane
<1>5. (\A k \in 1 .. n : Wants(k)' <=> Wants(k)) /\ ~Wants(n + 1)'
  BY <1>2 DEF Wants
<1>6. SomeWants' <=> SomeWants
  BY <1>1, <1>2, <1>3, <1>5 DEF SomeWants
<1>7. NoRequest /\ clicked => NoRequest'
  BY <1>1, <1>2, <1>3 DEF NoRequest
<1>8. QueueSane'
  <2>1. \A k \in 1 .. n + 1 : ClickFrame(toServer'[k])
    BY <1>2, <1>3, <1>4 DEF ClickFrame
  <2>2. ASSUME NEW k \in 1 .. n + 1, toServer'[k].type = "cancel",
               NEW j \in k + 1 .. n + 1
        PROVE  toServer'[j].type # "request"
    <3>1. k \in 1 .. n /\ toServer[k].type = "cancel"
      BY <1>2, <1>3, <2>2
    <3>2. clicked /\ \A i \in k + 1 .. n : toServer[i].type # "request"
      BY <1>4, <3>1
    <3>3. CASE j = n + 1
      BY <1>2, <3>2, <3>3
    <3>4. CASE j \in k + 1 .. n
      BY <1>2, <1>3, <3>1, <3>2, <3>4
    <3> QED
      BY <1>3, <3>1, <3>3, <3>4
  <2>3. \A j, k \in 1 .. n + 1 : Wants(j)' /\ Wants(k)' => j = k
    BY <1>3, <1>4, <1>5
  <2> QED
    BY <1>2, <2>1, <2>2, <2>3 DEF QueueSane
<1> QED
  BY <1>6, <1>7, <1>8

LEMMA ReadClicksExit ==
  ASSUME Basic, Phase, BoxesSane, Running, ~IsTool, ReadClicks, Others, UNCHANGED <<count, pongs>>
  PROVE  BoxesSane' /\ Running' /\ Exited' /\ Clicking'
<1> DEFINE frame == Frame("request", 0, Call("read", "clicked"), 0, <<>>)
<1>1. /\ UNCHANGED <<toClient, ended, box, served>>
      /\ pc = "next" /\ program = "buttonDemo" /\ step = Len(script)
  BY DEF Others, sessionVars, answerVars, ReadClicks, AtScriptEnd
<1>2. ~ended /\ ~shut /\ exit = "none" /\ ~clicked
  BY <1>1 DEF Running, BoxesSane, Basic
<1>3. /\ Send(<<frame>>) \/ SendFails
      /\ rcvd' = <<>> /\ pc' = "clicks" /\ UNCHANGED <<program, exit, shut, script, clicked>>
  BY <1>2 DEF ReadClicks, Killed, callVars
<1>4. frame.type = "request" /\ frame.id = 0 /\ frame.call = Call("read", "clicked")
  BY DEF Frame
<1> HIDE DEF frame
<1>5. Idle /\ AllAgreed
  BY <1>1, IdleAgreed
<1>6. PICK n \in Nat : n = Len(toServer)
  BY SeqWidens DEF Basic
<1>7. /\ Len(toServer') = n + 1 /\ toServer'[n + 1] = frame
      /\ \A k \in 1 .. n : toServer'[k] = toServer[k] /\ toServer'[k].type = "ack"
  BY <1>2, <1>3, <1>5, <1>6, Sent DEF Basic, Idle, OnlyAcks
<1>8. \A k \in 1 .. n + 1 : k \in 1 .. n \/ k = n + 1
  BY <1>6
<1>9. Answers' = <<>> /\ Len(Answers') = 0
  <2>1. toClient = <<>>
    BY <1>5, AnswersAre DEF Idle, Basic
  <2>2. IsSeq(rcvd') /\ IsSeq(toClient')
    BY <1>1, <1>3, <2>1, None
  <2> QED
    BY <1>1, <1>3, <2>1, <2>2, None DEF Answers
<1>10. QueueSane'
  <2>1. \A k \in 1 .. n + 1 : ClickFrame(toServer'[k])
    BY <1>4, <1>7, <1>8 DEF ClickFrame
  <2>2. \A k \in 1 .. n + 1 : toServer'[k].type # "cancel"
    BY <1>4, <1>7, <1>8
  <2>3. \A j, k \in 1 .. n + 1 : Wants(j)' /\ Wants(k)' => j = k
    BY <1>7, <1>8 DEF Wants
  <2> QED
    BY <1>7, <2>1, <2>2, <2>3 DEF QueueSane
<1>11. AnswersSane'
  BY <1>1, <1>5, <1>9, ServedSame DEF AnswersSane
<1>12. SomeWants' /\ ~SomeCanceled'
  <2>1. n + 1 \in 1 .. n + 1 /\ Wants(n + 1)'
    BY <1>4, <1>6, <1>7 DEF Wants
  <2> QED
    BY <1>7, <1>9, <2>1 DEF SomeWants, SomeCanceled
<1>13. Awaited'
  BY <1>1, <1>5, <1>12 DEF Awaited, Idle, NoTask, Ids
<1>14. Len(script) <= Len(served)
  BY <1>1, <1>5, LenProperties DEF Idle, Basic
<1>15. NoTask' <=> NoTask
  BY <1>1 DEF NoTask
<1> QED
  BY <1>1, <1>2, <1>3, <1>10, <1>11, <1>13, <1>14 DEF Clicking, BoxesSane, Running, Exited

LEMMA ClickExit ==
  ASSUME Basic, BoxesSane, Clicking, HandleClick, Others, UNCHANGED <<count, pongs>>
  PROVE  BoxesSane' /\ Running' /\ Exited' /\ (pc' = "clicks" => Clicking')
<1>1. /\ UNCHANGED <<toClient, ended, box, served, script, count, pongs>>
      /\ pc = "clicks" /\ rcvd # <<>> /\ Head(rcvd).type = "read"
      /\ exit = "none" /\ program = "buttonDemo" /\ ~shut
  BY DEF Others, sessionVars, answerVars, HandleClick, Clicks, Basic, BoxesSane, Clicking
<1>2. NoTask' <=> NoTask
  BY <1>1 DEF NoTask
<1>3. CASE Killed
  <2>1. /\ ended /\ pc' = "exited" /\ exit' = "killed" /\ UNCHANGED <<program, toServer>>
    BY <1>3 DEF Killed, Exit
  <2> QED
    BY <1>1, <1>2, <2>1 DEF BoxesSane, Running, Exited
<1>4. CASE ~Killed
  <2>1. /\ clicked' = TRUE /\ rcvd' = Tail(rcvd) /\ UNCHANGED <<program, pc, exit, shut>>
    BY <1>4 DEF HandleClick
  <2>2. /\ AnswersSane' /\ ClickAnswer(Head(rcvd)) /\ Head(rcvd) = Answers[1]
        /\ SomeCanceled' => SomeCanceled
        /\ SomeFinal => SomeFinal' \/ Final(1)
    BY <1>1, <2>1, AnswersSaneTaken DEF Clicking, Basic
  <2>3. Head(rcvd).id = 0 /\ ~Final(1)
    BY <1>1, <2>2 DEF ClickAnswer, Final, Says
  <2>4. /\ QueueSane' /\ (SomeWants' <=> SomeWants)
        /\ NoRequest /\ clicked => NoRequest'
        /\ ended => toServer' = toServer
    <3>1. CASE SendFails
      <4>1. toServer' = toServer
        BY <3>1 DEF SendFails
      <4> QED
        BY <2>1, <4>1 DEF Clicking, QueueSane, SomeWants, Wants, NoRequest
    <3>2. CASE ~SendFails
      <4> DEFINE x == IF clicked THEN Signal("cancel", Head(rcvd).id)
                      ELSE Frame("request", 1, Call("put", "v/v/title"), 0, <<>>)
      <4>1. Send(<<x>>)
        BY <1>4, <3>2 DEF HandleClick
      <4>2. IF clicked THEN x.type = "cancel" /\ x.id = 0
                       ELSE x.type = "request" /\ x.id = 1 /\ x.call = Call("put", "v/v/title")
        BY <2>3 DEF Signal, Frame
      <4>3. ~ended
        BY <4>1 DEF Send
      <4> HIDE DEF x
      <4> QED
        BY <2>1, <4>1, <4>2, <4>3, QueueSent DEF Clicking, Basic
    <3> QED
      BY <3>1, <3>2
  <2>5. Awaited'
    BY <1>1, <1>2, <2>1, <2>2, <2>3, <2>4 DEF Awaited, Clicking
  <2> QED
    BY <1>1, <1>2, <2>1, <2>2, <2>4, <2>5 DEF Clicking, BoxesSane, Running, Exited
<1> QED
  BY <1>3, <1>4

LEMMA ClickResultExit ==
  ASSUME Basic, BoxesSane, Clicking, HandleClickResult, Others, UNCHANGED <<count, pongs>>
  PROVE  BoxesSane' /\ Running' /\ Exited' /\ (pc' = "clicks" => Clicking')
<1>1. /\ UNCHANGED <<toClient, ended, box, served, script, clicked, toServer, count, pongs, program>>
      /\ pc = "clicks" /\ rcvd # <<>> /\ Head(rcvd).type = "result" /\ rcvd' = Tail(rcvd)
      /\ exit = "none" /\ program = "buttonDemo" /\ ~shut /\ result' = Head(rcvd).value
  BY DEF Others, sessionVars, answerVars, HandleClickResult, Clicks, Basic, BoxesSane, Clicking, callVars
<1>2. /\ NoTask' <=> NoTask
      /\ NoRequest' <=> NoRequest
      /\ AllAgreed' <=> AllAgreed
  BY <1>1, ServedSame DEF NoTask, NoRequest
<1>3. Head(rcvd) = Answers[1] /\ Len(Answers) >= 1 /\ Len(Answers) \in Nat
  BY <1>1, AnswersAre DEF Basic
<1>4. PICK n \in Nat : n = Len(Answers) /\ n >= 1
  BY <1>3
<1>5. 1 \in 1 .. n /\ (\A k \in 1 .. n : k = 1 \/ k \in 1 + 1 .. n) /\ ClickAnswer(Answers[1])
  BY <1>4 DEF Clicking, AnswersSane
<1>6. CASE Head(rcvd).value = Refused
  <2>1. Says(1, Refused)
    BY <1>1, <1>3, <1>6 DEF Says
  <2>2. ~AllAgreed
    BY <1>4, <1>5, <2>1 DEF Clicking, AnswersSane
  <2>3. pc' = "exited" /\ exit' = "failure"
    BY <1>1, <1>6 DEF HandleClickResult, Exit, Ok, Refused, Canceled
  <2> QED
    BY <1>1, <1>2, <2>2, <2>3 DEF BoxesSane, Running, Exited
<1>7. CASE Head(rcvd).value = Canceled
  <2>1. Says(1, Canceled)
    BY <1>1, <1>3, <1>7 DEF Says
  <2>2. SomeCanceled
    BY <1>4, <1>5, <2>1 DEF SomeCanceled
  <2>3. \A k \in 1 .. n : ~Says(k, Refused)
    <3>1. \A k \in 1 + 1 .. n : ~Says(k, Refused)
      BY <1>4, <1>5, <2>1 DEF Clicking, AnswersSane
    <3>2. ~Says(1, Refused)
      BY <1>3, <1>7 DEF Says, Refused, Canceled
    <3> QED
      BY <1>5, <3>1, <3>2
  <2>4. AllAgreed /\ NoRequest /\ NoTask /\ Len(script) <= Len(served)
    BY <1>4, <2>2, <2>3 DEF Clicking, AnswersSane, Awaited
  <2>5. pc' = "exited" /\ exit' = "success"
    BY <1>1, <1>7 DEF HandleClickResult, Exit, Ok, Refused, Canceled
  <2> QED
    BY <1>1, <1>2, <2>4, <2>5 DEF BoxesSane, Running, Exited
<1>8. CASE Head(rcvd).value \notin {Refused, Canceled}
  <2>1. Head(rcvd).id # 0 /\ result' = Ok
    BY <1>1, <1>3, <1>5, <1>8 DEF ClickAnswer
  <2>2. UNCHANGED <<pc, exit, shut>>
    BY <2>1 DEF HandleClickResult
  <2>3. /\ AnswersSane'
        /\ SomeCanceled' => SomeCanceled
        /\ SomeFinal => SomeFinal' \/ Final(1)
    BY <1>1, <1>8, AnswersSaneTaken DEF Clicking, Basic
  <2>4. ~Final(1)
    BY <1>1, <1>3, <1>8 DEF Final, Says
  <2>5. QueueSane' /\ (SomeWants' <=> SomeWants)
    BY <1>1 DEF Clicking, QueueSane, SomeWants, Wants
  <2>6. Awaited'
    BY <1>1, <1>2, <2>3, <2>4, <2>5 DEF Awaited, Clicking
  <2> QED
    BY <1>1, <1>2, <2>2, <2>3, <2>5, <2>6 DEF Clicking, BoxesSane, Running, Exited
<1> QED
  BY <1>6, <1>7, <1>8

\* The event loop of button-demo does not end for want of an answer.
LEMMA ClicksEnd ==
  ASSUME Basic, BoxesSane, Clicking, HandleJunk \/ LoseClicks, Others, UNCHANGED <<count, pongs>>
  PROVE  BoxesSane' /\ Running' /\ Exited' /\ pc' # "clicks"
<1>1. UNCHANGED <<ended, box, toServer, count, pongs, program>> /\ pc' = "exited"
  BY DEF Others, sessionVars, HandleJunk, LoseClicks, Exit
<1>2. NoTask' <=> NoTask
  BY <1>1 DEF NoTask
<1>3. CASE HandleJunk
  <2>1. exit' = "confused"
    BY <1>3 DEF HandleJunk, Exit
  <2> QED
    BY <1>1, <1>2, <2>1 DEF BoxesSane, Running, Exited, Clicking
<1>4. CASE LoseClicks
  <2>1. ended /\ rcvd = <<>> /\ toClient = <<>>
    BY <1>4 DEF LoseClicks, AtEnd
  <2>2. Len(Answers) = 0
    BY <2>1, AnswersAre, None DEF Basic
  <2>3. ~SomeFinal
    BY <2>2 DEF SomeFinal
  <2>4. toServer = <<>> /\ NoTask
    BY <2>1 DEF BoxesSane
  <2>5. ~SomeWants
    BY <2>4, None DEF SomeWants
  <2>6. box[0].op # "read"
    BY <2>4 DEF NoTask, Ids
  <2> QED
    BY <2>3, <2>5, <2>6 DEF Clicking, Awaited
<1> QED
  BY <1>3, <1>4

LEMMA ClickServed ==
  ASSUME Basic, BoxesSane, Clicking, Serve, UNCHANGED <<toolVars, scriptVars>>, pc = "clicks"
  PROVE  Clicking'
<1> DEFINE f == Head(toServer)
<1>1. /\ UNCHANGED <<program, rcvd, script, clicked>> /\ ~ended
      /\ toServer # <<>> /\ toServer' = Tail(toServer)
      /\ IsSeq(rcvd) /\ IsSeq(toClient) /\ IsSeq(toServer) /\ IsSeq(served)
      /\ Len(script) <= Len(served) /\ QueueSane /\ AnswersSane /\ Awaited
  BY DEF Serve, clientVars, scriptVars, callVars, Basic, Clicking
<1>2. /\ QueueSane' /\ ClickFrame(f)
      /\ SomeWants' <=> SomeWants /\ ~(f.type = "request" /\ f.id = 0)
      /\ f.type = "request" /\ f.id = 0 => SomeWants
      /\ NoRequest => NoRequest' /\ f.type # "request"
      /\ f.type = "cancel" => NoRequest' /\ clicked
  BY <1>1, QueueTaken
<1>3. /\ DOMAIN Checked = Ids
      /\ \A i \in Ids : Checked[i].op = "read" <=> box[i].op = "read"
      /\ \A i \in Ids : box[i].op = "read" => Checked[i] = box[i]
  BY DEF Checked, Free, Done, Call
<1>4. ASSUME Awaited', AnswersSane', served' = served \/ \E x : served' = Append(served, x)
      PROVE  Clicking'
  <2>1. Len(script) <= Len(served')
    <3>1. Len(script) \in Nat
      BY LenProperties DEF Basic
    <3>2. CASE served' # served
      <4>1. PICK x : served' = Append(served, x)
        BY <1>4, <3>2
      <4> QED
        BY <1>1, <3>1, <4>1, Appended
    <3> QED
      BY <1>1, <3>2
  <2> QED
    BY <1>1, <1>2, <1>4, <2>1 DEF Clicking
<1>5. ASSUME UNCHANGED <<toClient, served>>
      PROVE  AnswersSane' /\ (SomeCanceled' <=> SomeCanceled) /\ (SomeFinal' <=> SomeFinal)
  <2>1. Answers' = Answers
    BY <1>1, <1>5 DEF Answers
  <2> QED
    BY <1>1, <1>5, <2>1, ServedSame DEF AnswersSane, SomeCanceled, SomeFinal, Says, Final
<1>6. CASE f.type = "ack"
  <2>1. box' = Checked /\ UNCHANGED <<toClient, served>>
    BY <1>6 DEF Serve, ServeRequest, ServeRead, ServePing, ServeAck, ServeCancel, answerVars
  <2>2. NoTask => NoTask'
    BY <1>3, <2>1 DEF NoTask
  <2>3. Awaited'
    BY <1>1, <1>2, <1>3, <1>5, <1>6, <2>1, <2>2 DEF Awaited, Ids
  <2> QED
    BY <1>4, <1>5, <2>1, <2>3
<1>7. CASE f.type = "cancel"
  <2>1. /\ box' = [Checked EXCEPT ![f.id] = Free] /\ UNCHANGED served /\ f.id = 0
        /\ Reply(<<Answer("result", f.id, Canceled)>>) \/ Reply(<<Answer("junk", 0, 0)>>)
    BY <1>2, <1>7 DEF Serve, ServeRequest, ServeRead, ServePing, ServeAck, ServeCancel, answerVars,
                     Respond, ClickFrame
  <2>2. PICK x : /\ Reply(<<x>>) /\ ClickAnswer(x)
                 /\ x.type = "junk" \/ (x.type = "result" /\ x.value = Canceled)
    BY <2>1, SMTT(30) DEF Answer, ClickAnswer
  <2>3. ~(x.type = "result" /\ x.value = Refused)
    BY <2>2 DEF Refused, Canceled
  <2>4. AllAgreed' <=> AllAgreed
    BY <2>1, ServedSame
  <2>5. AnswersSane' /\ SomeFinal'
    BY <1>1, <2>2, <2>3, <2>4, AnswersSaneSent
  <2>6. NoTask'
    BY <1>1, <1>3, <2>1 DEF NoTask, Awaited, Ids, Free, Call
  <2>7. ~SomeWants'
    BY <1>2, <1>7 DEF SomeWants, NoRequest, Wants
  <2>8. Awaited'
    BY <1>1, <1>2, <1>7, <2>5, <2>6, <2>7 DEF Awaited, NoTask, Ids
  <2> QED
    BY <1>4, <2>1, <2>5, <2>8
<1>8. CASE f.type = "request" /\ f.id = 0
  <2>1. f.call = Call("read", "clicked") /\ f.call.op = "read"
    BY <1>2, <1>8 DEF ClickFrame, Call
  <2>2. box' = [Checked EXCEPT ![0] = f.call] /\ UNCHANGED <<toClient, served>>
    BY <1>8, <2>1 DEF Serve, ServeRequest, ServeLook, ServeChange, ServeRefusal, ServeRead, ServePing,
                      ServeAck, ServeCancel
  <2>3. box'[0] = Call("read", "clicked") /\ box'[0].op = "read" /\ box'[1].op # "read"
    BY <1>1, <1>3, <2>1, <2>2 DEF Awaited, Ids
  <2>4. ~SomeCanceled
    BY <1>1, <1>2, <1>8 DEF Awaited
  <2>5. Awaited'
    BY <1>2, <1>5, <1>8, <2>2, <2>3, <2>4 DEF Awaited
  <2> QED
    BY <1>4, <1>5, <2>2, <2>5
<1>9. CASE f.type = "request" /\ f.id # 0
  <2>1. f.call = Call("put", "v/v/title") /\ f.id = 1
    BY <1>2, <1>9 DEF ClickFrame
  <2>2. f.call.op = "put" /\ ~IsOptional(f.call)
    BY <2>1 DEF Call, IsOptional
  <2>3. ServeChange(f) \/ ServeRefusal(f)
    BY <1>9, <2>2 DEF Serve, ServeRequest, ServeLook, ServeRead, ServePing, ServeAck, ServeCancel
  <2>4. box' = Checked
    BY <1>9, <2>2 DEF Serve, ServeRequest, ServeRead, ServePing, ServeAck, ServeCancel
  <2>5. PICK ok \in BOOLEAN : /\ served' = Append(served, [call |-> f.call, ok |-> ok])
                              /\ Respond(f.id, IF ok THEN Ok ELSE Refused)
    <3> HIDE DEF f
    <3> QED
      BY <2>3 DEF ServeChange, ServeRefusal, Record
  <2> DEFINE x == Answer("result", f.id, IF ok THEN Ok ELSE Refused)
             s == [call |-> f.call, ok |-> ok]
  <2>6. /\ Reply(<<x>>) /\ ClickAnswer(x)
        /\ (x.type = "result" /\ x.value = Refused) <=> ~ok
    BY <2>1, <2>5 DEF Answer, ClickAnswer, Respond, Ok, Refused
  <2>7. s.call = f.call /\ s.ok = ok /\ served' = Append(served, s)
    BY <2>5
  <2> HIDE DEF x, s
  <2>8. AllAgreed' <=> AllAgreed /\ ok
    BY <1>1, <2>2, <2>7, ServedGrows
  <2>9. ~SomeCanceled
    BY <1>1, <1>2, <1>9 DEF Awaited
  <2>10. AnswersSane' /\ ~SomeCanceled' /\ (SomeFinal => SomeFinal')
    <3>1. /\ AnswersSane'
          /\ SomeCanceled' <=> SomeCanceled \/ (x.type = "result" /\ x.value = Canceled)
          /\ SomeFinal => SomeFinal'
      BY <1>1, <2>6, <2>8, <2>9, AnswersSaneSent
    <3>2. ~(x.type = "result" /\ x.value = Canceled)
      BY DEF x, Answer, Ok, Refused, Canceled
    <3> QED
      BY <2>9, <3>1, <3>2
  <2>11. Awaited'
    BY <1>1, <1>2, <1>3, <1>9, <2>1, <2>4, <2>10 DEF Awaited, Ids
  <2> QED
    BY <1>4, <2>7, <2>10, <2>11
<1> QED
  BY <1>2, <1>6, <1>7, <1>8, <1>9 DEF ClickFrame

\* A cancel that comes when the read has already failed ends the session.
LEMMA ClickEnded ==
  ASSUME Basic, BoxesSane, Clicking, ServeBadFrame \/ ServeEnd, UNCHANGED <<toolVars, scriptVars>>,
         pc = "clicks"
  PROVE  Clicking'
<1>1. ServeBadFrame /\ ~ended
  BY DEF ServeEnd, BoxesSane, ServeBadFrame
<1>2. /\ UNCHANGED <<program, rcvd, toClient, script, clicked, served>>
      /\ toServer' = <<>> /\ box' = [i \in Ids |-> Free]
  BY <1>1 DEF ServeBadFrame, EndSession, clientVars, scriptVars, callVars
<1>3. /\ toServer # <<>> /\ Head(toServer).type \in {"request", "cancel"}
      /\ (Head(toServer).type = "request") = (Checked[Head(toServer).id] # Free)
  BY <1>1 DEF ServeBadFrame
<1>4. PICK n \in Nat : n = Len(toServer) /\ n >= 1
  BY <1>3, Tailed, SeqWidens DEF Basic
<1>5. Head(toServer) = toServer[1] /\ 1 \in 1 .. n /\ ClickFrame(toServer[1])
      /\ \A k \in 1 .. n : k = 1 \/ k \in 1 + 1 .. n
  BY <1>3, <1>4, Tailed DEF Basic, Clicking, QueueSane
<1>6. /\ \A i \in Ids : box[i].op # "read" => Checked[i] = Free
      /\ \A i \in Ids : box[i].op = "read" => Checked[i] # Free
  <2>1. Free.op = "free" /\ Done.op = "done"
    BY DEF Free, Done, Call
  <2>2. \A i \in Ids : Checked[i] = IF box[i] = Done THEN Free ELSE box[i]
    BY DEF Checked
  <2> QED
    BY <2>1, <2>2 DEF BoxesSane
<1>7. Head(toServer).type = "cancel" /\ Head(toServer).id = 0
  <2> SUFFICES ASSUME Head(toServer).type = "request" PROVE FALSE
    BY <1>3, <1>5 DEF ClickFrame
  <2>1. Head(toServer).id \in Ids /\ box[Head(toServer).id].op = "read"
    BY <1>3, <1>5, <1>6 DEF ClickFrame, Ids
  <2>2. Head(toServer).id = 0
    BY <1>5, <2>1 DEF ClickFrame, Clicking, Awaited
  <2>3. Wants(1)
    BY <1>5, <2>2 DEF Wants
  <2>4. SomeWants
    BY <1>4, <1>5, <2>3 DEF SomeWants
  <2> QED
    BY <2>1, <2>2, <2>4 DEF Clicking, Awaited
<1>8. box[0].op # "read"
  BY <1>3, <1>6, <1>7 DEF Ids
<1>9. ~SomeWants
  <2>1. \A j \in 1 + 1 .. n : toServer[j].type # "request"
    BY <1>4, <1>5, <1>7 DEF Clicking, QueueSane
  <2> QED
    BY <1>4, <1>5, <1>7, <2>1 DEF SomeWants, Wants
<1>10. Answers' = Answers
  BY <1>2 DEF Answers
<1>11. AnswersSane' /\ (SomeCanceled' <=> SomeCanceled) /\ SomeFinal'
  <2>1. SomeFinal /\ AnswersSane
    BY <1>8, <1>9 DEF Clicking, Awaited
  <2> QED
    BY <1>2, <1>10, <2>1, ServedSame DEF AnswersSane, SomeCanceled, SomeFinal, Says, Final
<1>12. Len(toServer') = 0
  BY <1>2, None
<1>13. QueueSane' /\ ~SomeWants' /\ NoRequest'
  BY <1>12 DEF QueueSane, SomeWants, NoRequest
<1>14. NoTask'
  BY <1>2 DEF NoTask, Free, Call
<1>15. Awaited'
  BY <1>2, <1>11, <1>13, <1>14 DEF Clicking, Awaited, NoTask, Ids
<1> QED
  BY <1>2, <1>11, <1>13, <1>15 DEF Clicking

LEMMA ClickTask ==
  ASSUME Basic, BoxesSane, Clicking, NEW i \in Ids, TaskData(i) \/ TaskResult(i) \/ StreamFails(i),
         UNCHANGED <<toolVars, scriptVars>>, pc = "clicks"
  PROVE  Clicking'
<1>1. /\ UNCHANGED <<program, rcvd, toServer, script, clicked>> /\ box[i].op = "read"
      /\ IsSeq(rcvd) /\ IsSeq(toClient) /\ IsSeq(served) /\ DOMAIN box = Ids
      /\ AnswersSane
  BY DEF TaskData, TaskResult, StreamFails, clientVars, scriptVars, callVars, Basic, Clicking
<1>2. i = 0 /\ box[0] = Call("read", "clicked") /\ ~SomeWants
  BY <1>1 DEF Clicking, Awaited, Ids
<1>3. ~TaskResult(i)
  BY <1>2 DEF TaskResult, Streams, Call
<1>4. ~SomeCanceled
  BY <1>1 DEF Clicking, Awaited, NoTask
<1>5. QueueSane' /\ (SomeWants' <=> SomeWants)
  BY <1>1 DEF Clicking, QueueSane, SomeWants, Wants
<1>6. CASE TaskData(i)
  <2>1. UNCHANGED <<box, served>> /\ Reply(<<Answer("read", i, given + 1)>>)
    BY <1>6 DEF TaskData
  <2> DEFINE x == Answer("read", i, given + 1)
  <2>2. Reply(<<x>>) /\ ClickAnswer(x) /\ x.type # "result"
    BY <1>2, <2>1 DEF Answer, ClickAnswer
  <2> HIDE DEF x
  <2>3. AllAgreed' <=> AllAgreed
    BY <2>1, ServedSame
  <2>4. AnswersSane' /\ ~SomeCanceled' /\ (SomeFinal => SomeFinal')
    BY <1>1, <1>4, <2>2, <2>3, AnswersSaneSent
  <2>5. Awaited'
    BY <1>2, <1>5, <2>1, <2>4 DEF Clicking, Awaited
  <2> QED
    BY <1>1, <1>5, <2>1, <2>4, <2>5 DEF Clicking
<1>7. CASE StreamFails(i)
  <2>1. /\ box' = [box EXCEPT ![i] = Done] /\ Reply(<<Answer("result", i, Refused)>>)
        /\ served' = Append(served, [call |-> box[i], ok |-> FALSE])
    BY <1>7 DEF StreamFails, Respond, Record
  <2> DEFINE x == Answer("result", i, Refused)
             s == [call |-> box[i], ok |-> FALSE]
  <2>2. /\ Reply(<<x>>) /\ ClickAnswer(x) /\ x.type = "result" /\ x.value = Refused
    BY <1>2, <2>1 DEF Answer, ClickAnswer
  <2>3. ~s.ok /\ ~IsOptional(s.call) /\ served' = Append(served, s)
    <3>1. ~s.ok /\ s.call = Call("read", "clicked") /\ served' = Append(served, s)
      BY <1>2, <2>1
    <3> HIDE DEF s
    <3> QED
      BY <3>1 DEF Call, IsOptional
  <2> HIDE DEF x, s
  <2>4. ~AllAgreed' /\ Len(served') = Len(served) + 1 /\ Len(served) \in Nat
    BY <1>1, <2>3, ServedGrows
  <2>5. x.value # Canceled
    BY <2>2 DEF Refused, Canceled
  <2>6. AnswersSane' /\ ~SomeCanceled' /\ SomeFinal'
    <3>1. AllAgreed' <=> AllAgreed /\ ~(x.type = "result" /\ x.value = Refused)
      BY <2>2, <2>4
    <3> QED
      BY <1>1, <1>4, <2>2, <2>5, <3>1, AnswersSaneSent
  <2>7. box'[0].op # "read" /\ box'[1].op # "read"
    BY <1>1, <1>2, <2>1 DEF Clicking, Awaited, Done, Call, Ids
  <2>8. Awaited'
    BY <2>6, <2>7 DEF Awaited
  <2>9. Len(script) <= Len(served')
    BY <2>4, LenProperties DEF Clicking, Basic
  <2> QED
    BY <1>1, <1>5, <2>6, <2>8, <2>9 DEF Clicking
<1> QED
  BY <1>3, <1>6, <1>7

----------------------------------------------------------------------------

LEMMA ExitsSame ==
  ASSUME ScriptInv, Answers' = Answers,
         UNCHANGED <<program, pc, exit, shut, toServer, ended, box, served>>,
         UNCHANGED <<script, step, clicked, count, pongs>>
  PROVE  ScriptInv'
<1>1. /\ \A k : Agreed(k)' <=> Agreed(k)
      /\ AllAgreed' <=> AllAgreed
      /\ (NoTask' <=> NoTask) /\ (NoRequest' <=> NoRequest)
  BY ServedSame DEF NoTask, NoRequest
<1>2. BoxesSane' /\ Running' /\ Exited'
  BY <1>1 DEF ScriptInv, BoxesSane, Running, Exited
<1>3. (SomeWants' <=> SomeWants) /\ (SomeCanceled' <=> SomeCanceled) /\ (SomeFinal' <=> SomeFinal)
  BY DEF SomeWants, SomeCanceled, SomeFinal, Wants, Says, Final
<1>4. Clicking => QueueSane' /\ AnswersSane'
  BY <1>1 DEF Clicking, QueueSane, AnswersSane, Wants, Says
<1>5. Clicking => Awaited'
  BY <1>1, <1>3 DEF Clicking, Awaited
<1> QED
  BY <1>2, <1>4, <1>5 DEF ScriptInv, Clicking

LEMMA StepKeepsExits ==
  ASSUME CallInv, Follows, ~IsTool, ScriptInv, ~lost', [Next]_vars
  PROVE  ScriptInv'
<1>0. Basic /\ Phase
  BY DEF CallInv
<1>1. CASE UNCHANGED vars \/ Drawing \/ Rest
  <2>1. UNCHANGED connVars /\ UNCHANGED callVars /\ UNCHANGED toolVars
    BY <1>1 DEF vars, Drawing, Rest, scriptVars
  <2>2. /\ UNCHANGED <<program, pc, exit, shut, toServer, ended, box, served>>
        /\ UNCHANGED <<script, step, clicked, count, pongs>> /\ UNCHANGED <<rcvd, toClient>>
    BY <2>1 DEF connVars, clientVars, sessionVars, answerVars, toolVars, callVars
  <2>3. Answers' = Answers
    BY <2>2 DEF Answers
  <2> QED
    BY <2>2, <2>3, ExitsSame
<1>2. CASE Receive /\ UNCHANGED <<toolVars, scriptVars>>
  <2>1. /\ UNCHANGED <<program, pc, exit, shut, toServer, ended, box, served>>
        /\ UNCHANGED <<script, step, clicked, count, pongs>>
    BY <1>2 DEF Receive, sessionVars, answerVars, toolVars, scriptVars, callVars
  <2>2. Answers' = Answers
    BY <1>0, <1>2, AnswersRead DEF Basic
  <2> QED
    BY <2>1, <2>2, ExitsSame
<1>3. CASE ScriptStep /\ Others /\ UNCHANGED <<toolVars, authorVars>>
  <2>1. UNCHANGED <<count, pongs>>
    BY <1>3 DEF toolVars
  <2>2. pc # "exited"
    BY <1>3 DEF ScriptStep, MakeCall, TakeItem, TakeResult, LoseConnection, Waiting, Return, Proceed,
           AtScriptEnd, Unblock, CheckStatus, SeedChanged, Poll, ReadClicks, HandleClick,
           HandleClickResult, HandleJunk, LoseClicks, Clicks
  <2>3. CASE pc = "clicks"
    <3>1. HandleClick \/ HandleClickResult \/ HandleJunk \/ LoseClicks
      BY <1>3, <2>3 DEF ScriptStep, MakeCall, TakeItem, TakeResult, LoseConnection, Waiting, Return,
             Proceed, AtScriptEnd, Unblock, CheckStatus, SeedChanged, Poll, ReadClicks
    <3>2. BoxesSane /\ Clicking
      BY <2>3 DEF ScriptInv
    <3>3. BoxesSane' /\ Running' /\ Exited' /\ (pc' = "clicks" => Clicking')
      BY <1>0, <1>3, <2>1, <3>1, <3>2, ClickExit, ClickResultExit, ClicksEnd
    <3> QED
      BY <3>3 DEF ScriptInv
  <2>4. CASE pc # "clicks"
    <3>1. BoxesSane /\ Running
      BY DEF ScriptInv
    <3>2. CASE ReadClicks
      BY <1>0, <1>3, <2>1, <3>1, <3>2, ReadClicksExit DEF ScriptInv
    <3>3. CASE ~ReadClicks
      BY <1>0, <1>3, <2>1, <2>2, <2>4, <3>1, <3>3, ScriptExit DEF ScriptInv
    <3> QED
      BY <3>2, <3>3
  <2> QED
    BY <2>3, <2>4
<1>4. CASE Session \/ StreamError
  <2>1. UNCHANGED toolVars /\ UNCHANGED scriptVars
    BY <1>4 DEF Session, StreamError
  <2>2. \/ Serve \/ ServeBadFrame \/ ServeEnd
        \/ \E i \in Ids : TaskData(i) \/ TaskResult(i) \/ StreamFails(i)
    BY <1>4 DEF Session, StreamError, SessionStep
  <2>3. CASE pc = "clicks"
    <3>1. BoxesSane' /\ UNCHANGED clientVars
      BY <1>0, <2>1, <2>2, SessionBoxes DEF ScriptInv, Basic, toolVars
    <3>2. Clicking'
      BY <1>0, <2>1, <2>2, <2>3, ClickServed, ClickEnded, ClickTask DEF ScriptInv
    <3>3. pc' = "clicks" /\ exit' = "none"
      BY <1>0, <2>3, <3>1 DEF clientVars, Basic
    <3> QED
      BY <3>1, <3>2, <3>3 DEF ScriptInv, Running, Exited
  <2>4. CASE pc # "clicks"
    BY <1>0, <2>1, <2>2, <2>4, SessionExit DEF ScriptInv
  <2> QED
    BY <2>3, <2>4
<1>5. ~Loss
  BY DEF Loss, Cut
<1> QED
  BY <1>1, <1>2, <1>3, <1>4, <1>5 DEF Next, Program, PingerThread

ExitInv ==
  /\ AnswerInv
  /\ ~lost => /\ ~IsTool => ScriptInv
              /\ program = "fping" => Pinging

\* Unless the connection is lost, what a program's exit status says is so: after
\* EXIT_SUCCESS of any program but fset every call that mattered was served and
\* agreed to, the whole script was, and each ping was answered; EXIT_FAILURE
\* means that the session refused something; and no program but button-demo,
\* whose cancels the session may take amiss, is killed, aborts or misreads an
\* answer.
THEOREM ExitStatusTells == Spec => []ExitMeansAnswered
<1>1. Init => ExitInv
  BY InitAnswers, InitExits, InitPings DEF ExitInv, ScriptInv
<1>2. NothingAfterRefusal /\ ExitInv /\ [Next]_vars => ExitInv'
  <2> SUFFICES ASSUME NothingAfterRefusal, ExitInv, [Next]_vars PROVE ExitInv'
    OBVIOUS
  <2>1. AnswerInv' /\ program' = program /\ (lost => lost')
    BY StepKeepsAnswers, ProgramStays, LostForGood DEF ExitInv
  <2>2. Follows
    BY DEF NothingAfterRefusal, Follows
  <2>3. ASSUME ~lost', ~IsTool PROVE ScriptInv'
    BY <2>1, <2>2, <2>3, StepKeepsExits DEF ExitInv, AnswerInv
  <2>4. ASSUME ~lost', program = "fping" PROVE Pinging'
    BY <2>1, <2>4, StepKeepsPings DEF ExitInv
  <2> QED
    BY <2>1, <2>3, <2>4 DEF ExitInv, IsTool
<1>3. ExitInv => ExitMeansAnswered
  <2> SUFFICES ASSUME ExitInv, ~lost
               PROVE  /\ exit = "success" /\ program # "fset" =>
                           /\ Refusals = {} /\ pongs = count
                           /\ Len(served) >= IF program \in Printers THEN 1 ELSE Len(script)
                      /\ exit = "failure" => Refusals # {}
                      /\ exit \in {"abort", "killed", "confused"} => program = "buttonDemo"
    BY DEF ExitMeansAnswered
  <2>1. AllAgreed <=> Refusals = {}
    BY DEF AllAgreed, Agreed, Refusals
  <2>2. CASE ~IsTool
    <3>1. BoxesSane /\ Exited /\ Basic
      BY <2>2 DEF ExitInv, ScriptInv, AnswerInv, CallInv
    <3>2. program \notin Printers
      BY <2>2 DEF IsTool, ToolSet
    <3>3. Len(served) \in Nat /\ Len(script) \in Nat
      BY <3>1, LenProperties, SeqWidens DEF Basic
    <3> QED
      BY <2>1, <3>1, <3>2, <3>3 DEF BoxesSane, Exited
  <2>3. CASE program \in Printers
    <3>1. PrinterSane /\ Stage
      BY <2>3 DEF ExitInv, AnswerInv, PrinterInv
    <3>2. exit # "none" => Told /\ pc = "exited"
      BY <3>1 DEF PrinterSane, Stage, Begun, Asking, Reading, Replied
    <3>3. ASSUME exit # "none"
          PROVE  /\ exit = IF result = Ok THEN "success" ELSE "failure"
                 /\ Len(served) = 1 /\ (Agreed(1) <=> result = Ok)
      BY <3>2, <3>3 DEF Told, ServedIt, Agreed, IsOptional
    <3>4. ASSUME exit # "none" PROVE AllAgreed <=> result = Ok
      <4>1. DOMAIN served = {1}
        BY <3>3, <3>4
      <4> QED
        BY <3>3, <3>4, <4>1 DEF AllAgreed
    <3>5. count = 0 /\ pongs = 0 /\ program # "fping"
      BY <2>3, <3>1 DEF PrinterSane, Printers
    <3> QED
      BY <2>1, <2>3, <3>3, <3>4, <3>5, SMTT(30)
  <2>4. CASE program = "fping"
    <3>1. Pinging /\ program \notin Printers /\ script = <<>> /\ served = <<>> /\ Len(<<>>) = 0
      BY <2>4, None DEF ExitInv, AnswerInv, CallInv, IsTool, ToolSet, Printers, Pinging
    <3>2. AllAgreed
      BY <3>1 DEF AllAgreed
    <3> QED
      BY <2>1, <3>1, <3>2 DEF Pinging
  <2> QED
    BY <2>2, <2>3, <2>4 DEF IsTool, ToolSet
<1> QED
  BY <1>1, <1>2, <1>3, NothingServedAfterRefusal, PTL DEF Spec

----------------------------------------------------------------------------
(***************************************************************************)
(* What the scripts open, and the image that they write.                   *)
(***************************************************************************)

\* Calls that leave the table of open files alone.
Plain(s) == IsSeq(s) /\ \A k \in 1 .. Len(s) : s[k].op \notin {"open", "close"}

\* Calls of which only the a-th and the b-th may open a file, and none closes one.
OpensAt(s, a, b) ==
  IsSeq(s) /\ \A k \in 1 .. Len(s) : s[k].op # "close" /\ (s[k].op = "open" => k \in {a, b})

LEMMA EitherPart ==
  ASSUME NEW s, IsSeq(s), NEW t, IsSeq(t), NEW k \in 1 .. Len(s \o t)
  PROVE  \/ k \in 1 .. Len(s) /\ (s \o t)[k] = s[k]
         \/ \E j \in 1 .. Len(t) : k = Len(s) + j /\ (s \o t)[k] = t[j]
<1>1. /\ Len(s \o t) = Len(s) + Len(t)
      /\ \A i \in 1 .. Len(s) : (s \o t)[i] = s[i]
      /\ \A i \in 1 .. Len(t) : (s \o t)[Len(s) + i] = t[i]
  BY Joined
<1>2. Len(s) \in Nat /\ Len(t) \in Nat
  BY SeqWidens
<1>3. CASE k <= Len(s)
  BY <1>1, <1>2, <1>3
<1>4. CASE k > Len(s)
  <2> DEFINE j == k - Len(s)
  <2>1. j \in 1 .. Len(t) /\ k = Len(s) + j
    BY <1>1, <1>2, <1>4
  <2> HIDE DEF j
  <2> QED
    BY <1>1, <2>1
<1> QED
  BY <1>2, <1>3, <1>4

LEMMA PlainJoined ==
  ASSUME NEW s, Plain(s), NEW t, Plain(t)
  PROVE  Plain(s \o t)
<1>1. IsSeq(s \o t)
  BY Joined DEF Plain
<1>2. ASSUME NEW k \in 1 .. Len(s \o t) PROVE (s \o t)[k].op \notin {"open", "close"}
  <2>1. IsSeq(s) /\ IsSeq(t)
    BY DEF Plain
  <2> QED
    BY <2>1, EitherPart DEF Plain
<1> QED
  BY <1>1, <1>2 DEF Plain

LEMMA PlainLater ==
  ASSUME NEW a, NEW b, NEW s, OpensAt(s, a, b), NEW t, Plain(t)
  PROVE  OpensAt(s \o t, a, b)
<1>1. IsSeq(s \o t)
  BY Joined DEF Plain, OpensAt
<1>2. ASSUME NEW k \in 1 .. Len(s \o t)
      PROVE  (s \o t)[k].op # "close" /\ ((s \o t)[k].op = "open" => k \in {a, b})
  <2>1. CASE k \in 1 .. Len(s) /\ (s \o t)[k] = s[k]
    BY <2>1 DEF OpensAt
  <2>2. CASE \E j \in 1 .. Len(t) : k = Len(s) + j /\ (s \o t)[k] = t[j]
    BY <2>2 DEF Plain
  <2>3. IsSeq(s) /\ IsSeq(t)
    BY DEF OpensAt, Plain
  <2> QED
    BY <2>1, <2>2, <2>3, EitherPart
<1> QED
  BY <1>1, <1>2 DEF OpensAt

LEMMA PlainCalls ==
  ASSUME NEW names, IsSeq(names)
  PROVE  /\ Plain(Puts(names)) /\ Plain(Links(names))
         /\ \A s \in PutsOrNone(names) : Plain(s)
<1>1. IsSeq(Puts(names)) /\ IsSeq(Links(names))
  BY CallsAre
<1>2. DOMAIN Puts(names) = DOMAIN names /\ DOMAIN Links(names) = DOMAIN names
  BY DEF Puts, Links
<1>3. 1 .. Len(Puts(names)) = DOMAIN names /\ 1 .. Len(Links(names)) = DOMAIN names
  BY <1>1, <1>2, SeqWidens
<1>4. Plain(Puts(names)) /\ Plain(Links(names))
  BY <1>1, <1>3 DEF Plain, Puts, Links, Call
<1>5. Plain(<<>>)
  BY None DEF Plain
<1> QED
  BY <1>4, <1>5 DEF PutsOrNone

LEMMA OpensOne ==
  ASSUME NEW x
  PROVE  /\ IsSeq(Opens(<<x>>)) /\ Len(Opens(<<x>>)) = 1 /\ Opens(<<x>>)[1] = Call("open", x)
         /\ OpensAt(Opens(<<x>>), 1, 1)
<1> DEFINE one == <<x>>
<1>1. IsSeq(one) /\ Len(one) = 1 /\ one[1] = x
  BY One
<1> HIDE DEF one
<1>2. IsSeq(Opens(one)) /\ DOMAIN Opens(one) = DOMAIN one
  BY <1>1, CallsAre DEF Opens
<1>3. Len(Opens(one)) \in Nat /\ 1 .. Len(Opens(one)) = 1 .. 1 /\ DOMAIN one = 1 .. 1
  BY <1>1, <1>2, SeqWidens
<1>4. Len(Opens(one)) = 1
  BY <1>3, SameLength
<1>5. Opens(one)[1] = Call("open", x)
  BY <1>1, <1>3 DEF Opens
<1>6. OpensAt(Opens(one), 1, 1)
  BY <1>2, <1>4, <1>5 DEF OpensAt, Call
<1> QED
  BY <1>2, <1>4, <1>5, <1>6 DEF one

LEMMA OpenLater ==
  ASSUME NEW s, OpensAt(s, 1, 1), NEW x
  PROVE  /\ OpensAt(s \o Opens(<<x>>), 1, Len(s) + 1)
         /\ Len(s) \in Nat
<1> DEFINE t == Opens(<<x>>)
<1>1. IsSeq(t) /\ Len(t) = 1 /\ OpensAt(t, 1, 1)
  BY OpensOne
<1> HIDE DEF t
<1>2. IsSeq(s \o t) /\ Len(s) \in Nat
  BY <1>1, Joined, SeqWidens DEF OpensAt
<1>3. ASSUME NEW k \in 1 .. Len(s \o t)
      PROVE  (s \o t)[k].op # "close" /\ ((s \o t)[k].op = "open" => k \in {1, Len(s) + 1})
  <2>1. \/ k \in 1 .. Len(s) /\ (s \o t)[k] = s[k]
        \/ \E j \in 1 .. Len(t) : k = Len(s) + j /\ (s \o t)[k] = t[j]
    <3>1. IsSeq(s) /\ IsSeq(t)
      BY <1>1 DEF OpensAt
    <3> QED
      BY <3>1, EitherPart
  <2> QED
    BY <1>1, <1>2, <2>1 DEF OpensAt
<1> QED
  BY <1>2, <1>3 DEF OpensAt, t

\* Every row of the image is written before the window is opened.
ImageFirst(s) ==
  \A k \in 1 .. Len(s) : s[k] = Call("open", "window") =>
    \A r \in Rows : \E j \in 1 .. k - 1 : s[j].op = "pwrite" /\ r \in s[j].rows /\ ~IsOptional(s[j])

LEMMA Quotient ==
  ASSUME NEW r \in Nat, NEW c \in Nat, c > 0
  PROVE  \E q \in Nat : q * c <= r /\ r < (q + 1) * c
<1> DEFINE q == r \div c
<1>1. q \in Int /\ q >= 0
  OBVIOUS
<1>2. c * q <= r
  OBVIOUS
<1>3. r < c * q + c
  OBVIOUS
<1> HIDE DEF q
<1>4. q \in Nat /\ q * c <= r
  BY <1>1, <1>2
<1>5. r < (q + 1) * c
  BY <1>1, <1>3
<1> QED
  BY <1>4, <1>5

LEMMA Times ==
  ASSUME NEW a \in Nat, NEW b \in Nat, NEW c \in Nat, c > 0, a * c < b * c
  PROVE  a < b
<1>1. CASE b <= a
  <2>1. PICK d \in Nat : a = b + d
    <3>1. a - b \in Nat /\ a = b + (a - b)
      BY <1>1
    <3> QED
      BY <3>1
  <2>2. a * c = b * c + d * c /\ d * c >= 0 /\ a * c \in Int /\ b * c \in Int
    BY <2>1
  <2> QED
    BY <2>2
<1> QED
  BY <1>1

\* The chunks cover the image, however many there are.
LEMMA WriteImageWrites ==
  /\ Plain(WriteImage)
  /\ \A k \in 1 .. Len(WriteImage) : WriteImage[k].op = "pwrite" /\ ~IsOptional(WriteImage[k])
  /\ \A r \in Rows : \E j \in 1 .. Len(WriteImage) : r \in WriteImage[j].rows
<1> DEFINE n == FullChunks  c == ChunkRows
<1>1. Height \in Nat /\ c \in Nat /\ c > 0 /\ n \in Nat
  BY ConnectionAssumption, SyncedAssumption, ChunksAre
<1>2. \A k \in 1 .. Len(WriteImage) : \E first, last : WriteImage[k] = Chunk(first, last)
  BY ChunksAre
<1>3. \A k \in 1 .. Len(WriteImage) : WriteImage[k].op = "pwrite" /\ ~IsOptional(WriteImage[k])
  <2> SUFFICES ASSUME NEW k \in 1 .. Len(WriteImage)
               PROVE  WriteImage[k].op = "pwrite" /\ ~IsOptional(WriteImage[k])
    OBVIOUS
  <2>1. PICK first, last : WriteImage[k] = Chunk(first, last)
    BY <1>2
  <2>2. Chunk(first, last).op = "pwrite" /\ Chunk(first, last).file = "v/data"
    BY DEF Chunk
  <2> QED
    BY <2>1, <2>2 DEF IsOptional
<1>4. Plain(WriteImage)
  BY <1>3, ChunksAre DEF Plain
<1>5. ASSUME NEW r \in Rows PROVE \E j \in 1 .. Len(WriteImage) : r \in WriteImage[j].rows
  <2>1. r \in Nat /\ r <= Height - 1
    BY <1>1, <1>5 DEF Rows
  <2>2. PICK q \in Nat : q * c <= r /\ r < (q + 1) * c
    BY <1>1, <2>1, Quotient
  <2>3. CASE r < n * c
    <3>1. q < n
      <4>1. q * c < n * c
        BY <1>1, <2>1, <2>2, <2>3
      <4> QED
        BY <1>1, <4>1, Times
    <3>2. q + 1 \in 1 .. n
      BY <1>1, <3>1
    <3>3. /\ q + 1 \in 1 .. Len(WriteImage)
          /\ WriteImage[q + 1] = Chunk((q + 1 - 1) * c, (q + 1) * c - 1)
      BY <3>2, ChunksAre
    <3>4. q + 1 - 1 = q
      OBVIOUS
    <3>5. WriteImage[q + 1] = Chunk(q * c, (q + 1) * c - 1)
      BY <3>3, <3>4
    <3>6. r \in q * c .. (q + 1) * c - 1
      BY <1>1, <2>1, <2>2
    <3>7. r \in WriteImage[q + 1].rows
      BY <3>5, <3>6 DEF Chunk
    <3> QED
      BY <3>3, <3>7
  <2>4. CASE ~(r < n * c)
    <3>1. n * c < Height /\ r \in n * c .. Height - 1
      BY <1>1, <2>1, <2>4
    <3>2. n + 1 \in 1 .. Len(WriteImage) /\ WriteImage[n + 1] = Chunk(n * c, Height - 1)
      BY <3>1, ChunksAre
    <3>3. r \in WriteImage[n + 1].rows
      BY <3>1, <3>2 DEF Chunk
    <3> QED
      BY <3>2, <3>3
  <2> QED
    BY <2>3, <2>4
<1> QED
  BY <1>3, <1>4, <1>5

LEMMA ImageLater ==
  ASSUME NEW s, IsSeq(s), ImageFirst(s), NEW t, Plain(t)
  PROVE  ImageFirst(s \o t)
<1>1. IsSeq(t) /\ Len(s) \in Nat
  BY SeqWidens DEF Plain
<1>2. \A k \in 1 .. Len(s) : (s \o t)[k] = s[k]
  BY <1>1, Joined
<1> SUFFICES ASSUME NEW k \in 1 .. Len(s \o t), (s \o t)[k] = Call("open", "window"), NEW r \in Rows
             PROVE  \E j \in 1 .. k - 1 : /\ (s \o t)[j].op = "pwrite" /\ r \in (s \o t)[j].rows
                                          /\ ~IsOptional((s \o t)[j])
  BY DEF ImageFirst
<1>3. \/ k \in 1 .. Len(s) /\ (s \o t)[k] = s[k]
      \/ \E j \in 1 .. Len(t) : k = Len(s) + j /\ (s \o t)[k] = t[j]
  BY <1>1, EitherPart
<1>4. k \in 1 .. Len(s) /\ s[k] = Call("open", "window")
  BY <1>3 DEF Plain, Call
<1>5. PICK j \in 1 .. k - 1 : s[j].op = "pwrite" /\ r \in s[j].rows /\ ~IsOptional(s[j])
  BY <1>4 DEF ImageFirst
<1>6. j \in 1 .. Len(s)
  BY <1>1, <1>4
<1> QED
  BY <1>2, <1>5, <1>6

LEMMA DisplayOpens ==
  ASSUME NEW format, Plain(format), NEW named, Plain(named)
  PROVE  /\ \E b \in Nat : OpensAt(Display(format, named), 1, b)
         /\ ImageFirst(Display(format, named))
<1> DEFINE puts == Puts(<<"compositing", "procid", ".~size", "v/.~size">>)
           before == Opens(<<"lock">>) \o Links(<<"view">>) \o format \o puts \o named
           image == before \o WriteImage
           s == image \o Opens(<<"window">>)
<1>1. s = Display(format, named)
  BY DEF Display
<1>2. IsSeq(<<"view">>) /\ IsSeq(<<"compositing", "procid", ".~size", "v/.~size">>)
  BY DEF IsSeq
<1>3. Plain(Links(<<"view">>)) /\ Plain(puts) /\ Plain(WriteImage)
  BY <1>2, PlainCalls, WriteImageWrites
<1>4. OpensAt(before, 1, 1) /\ ImageFirst(before)
  <2>1. OpensAt(Opens(<<"lock">>), 1, 1)
    BY OpensOne
  <2>2. ImageFirst(Opens(<<"lock">>))
    <3>1. Len(Opens(<<"lock">>)) = 1 /\ Opens(<<"lock">>)[1] = Call("open", "lock")
      BY OpensOne
    <3>2. Call("open", "lock") # Call("open", "window")
      BY DEF Call
    <3> QED
      BY <3>1, <3>2 DEF ImageFirst
  <2>3. ASSUME NEW t, OpensAt(t, 1, 1), ImageFirst(t), NEW u, Plain(u)
        PROVE  OpensAt(t \o u, 1, 1) /\ ImageFirst(t \o u)
    <3>1. IsSeq(t)
      BY <2>3 DEF OpensAt
    <3> QED
      BY <2>3, <3>1, PlainLater, ImageLater
  <2> HIDE DEF puts
  <2> QED
    BY <1>3, <2>1, <2>2, <2>3
<1> HIDE DEF before
<1>5. OpensAt(image, 1, 1) /\ ImageFirst(image)
  <2>1. IsSeq(before)
    BY <1>4 DEF OpensAt
  <2> QED
    BY <1>3, <1>4, <2>1, PlainLater, ImageLater
<1>6. /\ IsSeq(before) /\ IsSeq(WriteImage) /\ IsSeq(image) /\ Len(before) \in Nat
      /\ \A k \in 1 .. Len(before) : image[k] = before[k]
      /\ \A k \in 1 .. Len(WriteImage) : image[Len(before) + k] = WriteImage[k]
      /\ Len(image) = Len(before) + Len(WriteImage)
  <2>1. IsSeq(before) /\ IsSeq(WriteImage) /\ IsSeq(image)
    BY <1>3, <1>4, <1>5 DEF OpensAt, Plain
  <2> QED
    BY <2>1, Joined, SeqWidens
<1>7. \A r \in Rows : \E j \in 1 .. Len(image) :
        image[j].op = "pwrite" /\ r \in image[j].rows /\ ~IsOptional(image[j])
  <2> SUFFICES ASSUME NEW r \in Rows
               PROVE  \E j \in 1 .. Len(image) :
                        image[j].op = "pwrite" /\ r \in image[j].rows /\ ~IsOptional(image[j])
    OBVIOUS
  <2>1. PICK i \in 1 .. Len(WriteImage) : r \in WriteImage[i].rows
    BY WriteImageWrites
  <2>2. WriteImage[i].op = "pwrite" /\ ~IsOptional(WriteImage[i])
    BY WriteImageWrites
  <2>3. Len(before) + i \in 1 .. Len(image) /\ image[Len(before) + i] = WriteImage[i]
    <3>1. Len(WriteImage) \in Nat
      BY <1>6, SeqWidens
    <3> QED
      BY <1>6, <3>1
  <2> QED
    BY <2>1, <2>2, <2>3
<1> HIDE DEF image
<1>8. OpensAt(s, 1, Len(image) + 1) /\ Len(image) + 1 \in Nat
  BY <1>5, OpenLater
<1>9. ImageFirst(s)
  <2> DEFINE t == Opens(<<"window">>)
  <2>1. IsSeq(t) /\ Len(t) = 1
    BY OpensOne
  <2> HIDE DEF t
  <2>2. s = image \o t
    BY DEF t
  <2> HIDE DEF s
  <2>3. Len(image) \in Nat
    BY <1>6, SeqWidens
  <2>4. (\A k \in 1 .. Len(image) : s[k] = image[k]) /\ Len(s) = Len(image) + 1
    <3>1. IsSeq(image)
      BY <1>6
    <3>2. /\ Len(image \o t) = Len(image) + Len(t)
          /\ \A k \in 1 .. Len(image) : (image \o t)[k] = image[k]
      BY <2>1, <3>1, Joined
    <3> QED
      BY <2>1, <2>2, <3>2
  <2>5. PICK n \in Nat : n = Len(image)
    BY <2>3
  <2>6. ASSUME NEW k \in 1 .. n + 1, s[k] = Call("open", "window"), NEW r \in Rows
        PROVE  \E j \in 1 .. k - 1 : s[j].op = "pwrite" /\ r \in s[j].rows /\ ~IsOptional(s[j])
    <3>1. CASE k \in 1 .. n
      <4>1. image[k] = Call("open", "window")
        BY <2>4, <2>5, <2>6, <3>1
      <4>2. PICK j \in 1 .. k - 1 : image[j].op = "pwrite" /\ r \in image[j].rows /\ ~IsOptional(image[j])
        BY <1>5, <2>5, <3>1, <4>1 DEF ImageFirst
      <4>3. j \in 1 .. n
        BY <3>1
      <4> QED
        BY <2>4, <2>5, <4>2, <4>3
    <3>2. CASE k = n + 1
      <4>1. k - 1 = n
        BY <3>2
      <4> QED
        BY <1>7, <2>4, <2>5, <4>1
    <3> QED
      BY <3>1, <3>2
  <2> QED
    BY <2>4, <2>5, <2>6 DEF ImageFirst
<1> QED
  BY <1>1, <1>8, <1>9

LEMMA ScriptOpens ==
  ASSUME NEW p \in DOMAIN Scripts, NEW s \in Scripts[p]
  PROVE  /\ p # "library" => \E a, b \in Nat : OpensAt(s, a, b)
         /\ p \in {"display", "watch"} => ImageFirst(s)
<1>1. CASE p = "fset"
  <2>1. IsSeq(<<"f">>)
    BY DEF IsSeq
  <2>2. Plain(s)
    BY <1>1, <2>1, PlainCalls DEF Scripts
  <2>3. OpensAt(s, 1, 1)
    BY <2>2 DEF Plain, OpensAt
  <2> QED
    BY <1>1, <2>3
<1>2. CASE p = "aboutForge"
  <2> DEFINE a1 == Puts(<<"procid", ".~title", "size">>)
             a2 == Links(<<"view", "v/icon/view", "v/main/view">>)
             a3 == Puts(<<"v/icon/v/width", "v/icon/v/height", "v/icon/v/.margin-top",
                          "v/icon/v/.margin-left", "v/icon/v/.margin-right", "v/main/v/.margin-top",
                          "v/main/v/.margin-right", "v/main/v/.margin-left">>)
             a4 == Links(<<"v/icon/v/view", "v/main/v/view">>)
             a5 == Puts(<<"v/icon/v/v/data", "v/main/v/v/text", "v/icon/v/v/disabling",
                          "v/main/v/v/disabling", "vis">>)
             a6 == Puts(<<"w/text-font", "w/vis">>)
             before == Opens(<<"lock">>) \o a1 \o a2 \o a3 \o a4 \o a5
  <2>1. /\ IsSeq(<<"procid", ".~title", "size">>)
        /\ IsSeq(<<"view", "v/icon/view", "v/main/view">>)
        /\ IsSeq(<<"v/icon/v/width", "v/icon/v/height", "v/icon/v/.margin-top",
                  "v/icon/v/.margin-left", "v/icon/v/.margin-right", "v/main/v/.margin-top",
                  "v/main/v/.margin-right", "v/main/v/.margin-left">>)
        /\ IsSeq(<<"v/icon/v/view", "v/main/v/view">>)
        /\ IsSeq(<<"v/icon/v/v/data", "v/main/v/v/text", "v/icon/v/v/disabling",
                  "v/main/v/v/disabling", "vis">>)
        /\ IsSeq(<<"w/text-font", "w/vis">>)
    BY DEF IsSeq
  <2>2. Plain(a1) /\ Plain(a2) /\ Plain(a3) /\ Plain(a4) /\ Plain(a5) /\ Plain(a6)
    BY <2>1, PlainCalls
  <2>3. s = before \o Opens(<<"window">>) \o a6
    BY <1>2 DEF Scripts, AboutForge
  <2>4. OpensAt(Opens(<<"lock">>), 1, 1)
    BY OpensOne
  <2> HIDE DEF a1, a2, a3, a4, a5, a6
  <2>5. OpensAt(before, 1, 1)
    BY <2>2, <2>4, PlainLater
  <2> HIDE DEF before
  <2>6. OpensAt(before \o Opens(<<"window">>), 1, Len(before) + 1) /\ Len(before) + 1 \in Nat
    BY <2>5, OpenLater
  <2>7. OpensAt(s, 1, Len(before) + 1)
    BY <2>2, <2>3, <2>6, PlainLater
  <2> QED
    BY <1>2, <2>6, <2>7
<1>3. CASE p = "forgeTest"
  <2> DEFINE names == <<"lock", "window">>
             f1 == Puts(<<"w/.~title">>)
             f2 == Links(<<"view", "v/view">>)
             f3 == Puts(<<"v/padding", "v/v/text">>)
  <2>1. /\ IsSeq(names) /\ IsSeq(<<"w/.~title">>) /\ IsSeq(<<"view", "v/view">>)
        /\ IsSeq(<<"v/padding", "v/v/text">>)
    BY DEF IsSeq
  <2>2. Plain(f1) /\ Plain(f2) /\ Plain(f3)
    BY <2>1, PlainCalls
  <2>3. s = Opens(names) \o f1 \o f2 \o f3
    BY <1>3 DEF Scripts, ForgeTest
  <2>4. OpensAt(Opens(names), 1, 2)
    <3>1. DOMAIN names = {1, 2}
      OBVIOUS
    <3> HIDE DEF names
    <3>2. IsSeq(Opens(names))
      BY <2>1, CallsAre
    <3>3. DOMAIN Opens(names) = {1, 2} /\ \A k \in {1, 2} : Opens(names)[k] = Call("open", names[k])
      BY <3>1 DEF Opens
    <3>4. 1 .. Len(Opens(names)) = {1, 2}
      BY <3>2, <3>3, SeqWidens
    <3> QED
      BY <3>2, <3>3, <3>4 DEF OpensAt, Call
  <2> HIDE DEF names, f1, f2, f3
  <2>5. OpensAt(s, 1, 2)
    BY <2>2, <2>3, <2>4, PlainLater
  <2> QED
    BY <1>3, <2>5
<1>4. CASE p = "buttonDemo"
  <2> DEFINE b1 == Puts(<<".~title">>)
             b2 == Links(<<"view", "v/view">>)
             b3 == Puts(<<"v/height", "v/padding", "v/v/title">>)
             before == Opens(<<"lock">>) \o b1 \o b2 \o b3
  <2>1. /\ IsSeq(<<".~title">>) /\ IsSeq(<<"view", "v/view">>)
        /\ IsSeq(<<"v/height", "v/padding", "v/v/title">>)
    BY DEF IsSeq
  <2>2. Plain(b1) /\ Plain(b2) /\ Plain(b3)
    BY <2>1, PlainCalls
  <2>3. s = before \o Opens(<<"window">>)
    BY <1>4 DEF Scripts, ButtonDemo
  <2>4. OpensAt(Opens(<<"lock">>), 1, 1)
    BY OpensOne
  <2> HIDE DEF b1, b2, b3
  <2>5. OpensAt(before, 1, 1)
    BY <2>2, <2>4, PlainLater
  <2> HIDE DEF before
  <2>6. OpensAt(s, 1, Len(before) + 1) /\ Len(before) + 1 \in Nat
    BY <2>3, <2>5, OpenLater
  <2> QED
    BY <1>4, <2>6
<1>5. CASE p = "interact"
  <2>1. /\ IsSeq(<<"view", "v/events/view", "v/raster/view">>)
        /\ IsSeq(<<"compositing", "procid", ".~size", "r/.~size">>)
        /\ IsSeq(<<".~title">>)
        /\ IsSeq(<<"r/.~alpha-last", "r/.~little-endian", "r/.~depth", "r/.~grayscale",
                   "r/.~stride">>)
    BY DEF IsSeq
  <2>2. PICK format \in PutsOrNone(<<"r/.~alpha-last", "r/.~little-endian", "r/.~depth",
                                     "r/.~grayscale", "r/.~stride">>),
             named \in PutsOrNone(<<".~title">>) :
          s = Interact(format, named)
    BY <1>5 DEF Scripts, Interacts
  <2> DEFINE i1 == Links(<<"view", "v/events/view", "v/raster/view">>)
             i2 == Puts(<<"compositing", "procid", ".~size", "r/.~size">>)
             before == Opens(<<"lock">>) \o i1 \o format \o i2 \o named
  <2>3. Plain(i1) /\ Plain(format) /\ Plain(i2) /\ Plain(named)
    BY <2>1, PlainCalls
  <2>4. s = before \o Opens(<<"window">>)
    BY <2>2 DEF Interact
  <2>5. OpensAt(Opens(<<"lock">>), 1, 1)
    BY OpensOne
  <2> HIDE DEF i1, i2
  <2>6. OpensAt(before, 1, 1)
    BY <2>3, <2>5, PlainLater
  <2> HIDE DEF before
  <2>7. OpensAt(s, 1, Len(before) + 1) /\ Len(before) + 1 \in Nat
    BY <2>4, <2>6, OpenLater
  <2> QED
    BY <1>5, <2>7
<1>6. CASE p = "display"
  <2>1. IsSeq(<<".~title">>) /\ IsSeq(<<"v/.~alpha-last">>) /\ IsSeq(<<"v/.~little-endian">>)
        /\ IsSeq(<<"v/.~depth", "v/.~grayscale", "v/.~stride">>)
    BY DEF IsSeq
  <2>2. /\ \A t \in PutsOrNone(<<".~title">>) : Plain(t)
        /\ \A t \in PutsOrNone(<<"v/.~alpha-last">>) : Plain(t)
        /\ \A t \in PutsOrNone(<<"v/.~little-endian">>) : Plain(t)
        /\ Plain(Puts(<<"v/.~depth", "v/.~grayscale", "v/.~stride">>))
    BY <2>1, PlainCalls
  <2>3. ASSUME NEW alpha \in PutsOrNone(<<"v/.~alpha-last">>),
               NEW little \in PutsOrNone(<<"v/.~little-endian">>)
        PROVE  Plain(Format(alpha, little))
    BY <2>2, PlainJoined DEF Format
  <2>4. \A format \in {<<>>} \cup Formats : Plain(format)
    <3>1. Plain(<<>>)
      BY None DEF Plain
    <3> QED
      BY <2>3, <3>1 DEF Formats
  <2>5. PICK format \in {<<>>} \cup Formats, named \in PutsOrNone(<<".~title">>) :
          s = Display(format, named)
    BY <1>6 DEF Scripts, Displays
  <2>6. Plain(format) /\ Plain(named)
    BY <2>2, <2>4
  <2>7. (\E b \in Nat : OpensAt(s, 1, b)) /\ ImageFirst(s)
    BY <2>5, <2>6, DisplayOpens
  <2> QED
    BY <2>7
<1>7. CASE p = "watch"
  <2>1. Plain(<<>>)
    BY None DEF Plain
  <2>2. s = Display(<<>>, <<>>)
    BY <1>7 DEF Scripts
  <2>3. (\E b \in Nat : OpensAt(s, 1, b)) /\ ImageFirst(s)
    BY <2>1, <2>2, DisplayOpens
  <2> QED
    BY <2>3
<1>8. p \in {"fset", "library", "aboutForge", "forgeTest", "buttonDemo", "interact", "display", "watch"}
  BY DEF Scripts
<1> QED
  BY <1>1, <1>2, <1>3, <1>4, <1>5, <1>6, <1>7, <1>8

----------------------------------------------------------------------------
(* The session's table of open files.                                      *)

Touches(f) == f.type = "request" /\ f.call.op \in {"open", "close"}

\* The calls the program has made, answered or not.
CallsMade == IF pc = "read" THEN step + 1 ELSE step

\* The program opens at most two files, and has used a descriptor for each.
Descriptors ==
  /\ nextFd \in Nat /\ nextFd >= 3
  /\ \E a, b \in Nat :
       /\ \A k \in 1 .. Len(script) : script[k].op = "open" => k \in {a, b}
       /\ nextFd <= 3 + (IF a <= CallsMade THEN 1 ELSE 0) + (IF b <= CallsMade THEN 1 ELSE 0)
  /\ IF program = "library" THEN script = Library
                            ELSE \A k \in 1 .. Len(script) : script[k].op # "close"

\* Who asks for a file to be opened or closed waits for the answer.
FramesTouch ==
  \A k \in 1 .. Len(toServer) : Touches(toServer[k]) =>
    ~IsTool /\ pc = "read" /\ (toServer[k].call.op = "open" => toServer[k].fd = nextFd - 1)

Opened(k) == served[k].ok /\ served[k].call.op = "open"

\* The file is open, and no request on its way will put another in its place.
Open(k) ==
  \E fd \in Fds :
    /\ files[fd] = served[k].call.file /\ fd < nextFd
    /\ \A j \in 1 .. Len(toServer) :
         Touches(toServer[j]) /\ toServer[j].call.op = "open" => fd < toServer[j].fd

Closed(k) ==
  \E j \in k + 1 .. Len(served) : served[j] = [call |-> Call("close", served[k].call.file), ok |-> TRUE]

TableSane ==
  /\ IsSeq(toServer) /\ IsSeq(served) /\ DOMAIN files = Fds
  /\ FramesTouch
  /\ ~IsTool => Descriptors
  /\ \A k \in 1 .. Len(served) : served[k].call.op = "open" =>
       ~IsTool /\ (program = "library" => served[k].call.file = "f")
  /\ \A k \in 1 .. Len(served) : Opened(k) => Open(k) \/ Closed(k)

LEMMA DescriptorsSame ==
  ASSUME Descriptors, UNCHANGED <<program, script, nextFd>>, CallsMade' = CallsMade
  PROVE  Descriptors'
BY DEF Descriptors

\* What the program adds, if it opens a file, names a descriptor that no other
\* file has.
NewFrames ==
  \A k \in 1 .. Len(toServer') : Touches(toServer'[k]) /\ toServer'[k].call.op = "open" =>
    toServer'[k].fd >= nextFd \/ \E j \in 1 .. Len(toServer) : toServer[j] = toServer'[k]

\* The session takes frames.
OldFrames == \A k \in 1 .. Len(toServer') : \E j \in 1 .. Len(toServer) : toServer'[k] = toServer[j]

\* It has served a call that opens no file.
ServesPlain ==
  \E x : /\ served' = Append(served, x) /\ ~(x.ok /\ x.call.op = "open")
         /\ x.call.op = "open" => ~IsTool /\ (program = "library" => x.call.file = "f")

LEMMA PlainServed ==
  ASSUME IsSeq(served), ServesPlain
  PROVE  /\ IsSeq(served') /\ Len(served) \in Nat /\ Len(served') = Len(served) + 1
         /\ \A k \in 1 .. Len(served) : served'[k] = served[k]
         /\ ~(served'[Len(served')].ok /\ served'[Len(served')].call.op = "open")
         /\ served'[Len(served')].call.op = "open" =>
              ~IsTool /\ (program = "library" => served'[Len(served')].call.file = "f")
<1>1. PICK x : /\ served' = Append(served, x) /\ ~(x.ok /\ x.call.op = "open")
               /\ x.call.op = "open" => ~IsTool /\ (program = "library" => x.call.file = "f")
  BY DEF ServesPlain
<1>2. /\ IsSeq(served') /\ Len(served') = Len(served) + 1 /\ Len(served) \in Nat
      /\ served'[Len(served) + 1] = x
      /\ \A k \in 1 .. Len(served) : served'[k] = served[k]
  BY <1>1, Appended, ZenonT(30)
<1> QED
  BY <1>1, <1>2

LEMMA ProgramKeepsTable ==
  ASSUME TableSane, UNCHANGED <<program, served, files>>, IsSeq(toServer'), FramesTouch',
         ~IsTool => Descriptors' /\ nextFd' >= nextFd, NewFrames
  PROVE  TableSane'
<1>1. /\ IsTool' <=> IsTool
      /\ \A k : Opened(k)' <=> Opened(k)
      /\ \A k : Closed(k)' <=> Closed(k)
  BY DEF IsTool, Opened, Closed
<1>2. ASSUME NEW k \in 1 .. Len(served), Opened(k), Open(k) PROVE Open(k)'
  <2>1. ~IsTool /\ nextFd \in Nat /\ nextFd' \in Nat /\ nextFd' >= nextFd
    BY <1>2 DEF TableSane, Opened, Descriptors
  <2>2. PICK fd \in Fds :
          /\ files[fd] = served[k].call.file /\ fd < nextFd
          /\ \A j \in 1 .. Len(toServer) :
               Touches(toServer[j]) /\ toServer[j].call.op = "open" => fd < toServer[j].fd
    BY <1>2 DEF Open
  <2>3. fd \in Int /\ fd < nextFd'
    BY <2>1, <2>2 DEF Fds
  <2>4. ASSUME NEW j \in 1 .. Len(toServer'), Touches(toServer'[j]), toServer'[j].call.op = "open"
        PROVE  fd < toServer'[j].fd
    <3>1. CASE \E i \in 1 .. Len(toServer) : toServer[i] = toServer'[j]
      BY <2>2, <2>4, <3>1
    <3>2. CASE toServer'[j].fd >= nextFd
      <4>1. toServer'[j].fd = nextFd' - 1
        BY <2>4 DEF FramesTouch
      <4>2. nextFd' - 1 >= nextFd
        BY <3>2, <4>1
      <4>3. \A a, b, c \in Int : a < b /\ c >= b => a < c
        OBVIOUS
      <4>4. nextFd' - 1 \in Int /\ nextFd \in Int /\ fd \in Int /\ fd < nextFd
        BY <2>1, <2>2, <2>3
      <4>5. fd < nextFd' - 1
        BY <4>2, <4>3, <4>4
      <4> QED
        BY <4>1, <4>5
    <3> QED
      BY <2>4, <3>1, <3>2 DEF NewFrames
  <2> QED
    BY <2>2, <2>3, <2>4 DEF Open
<1> QED
  BY <1>1, <1>2 DEF TableSane

\* The session serves what leaves the table as it is.
LEMMA ServedKeepsTable ==
  ASSUME TableSane, UNCHANGED <<program, pc, nextFd, script, step, files>>,
         IsSeq(toServer'), OldFrames, served' = served \/ ServesPlain
  PROVE  TableSane'
<1>1. (IsTool' <=> IsTool) /\ CallsMade' = CallsMade
  BY DEF IsTool, CallsMade
<1>2. FramesTouch' /\ (~IsTool => Descriptors')
  BY <1>1, DescriptorsSame DEF TableSane, FramesTouch, Touches, OldFrames
<1>3. /\ IsSeq(served') /\ Len(served) \in Nat /\ Len(served') \in Nat
      /\ Len(served) <= Len(served')
      /\ \A k \in 1 .. Len(served) : served'[k] = served[k]
      /\ \A k \in 1 .. Len(served') : k \notin 1 .. Len(served) =>
           /\ ~Opened(k)'
           /\ served'[k].call.op = "open" => ~IsTool /\ (program = "library" => served'[k].call.file = "f")
  <2>1. CASE served' = served
    BY <2>1, SeqWidens DEF TableSane
  <2>2. CASE served' # served
    <3>1. IsSeq(served) /\ ServesPlain
      BY <2>2 DEF TableSane
    <3>2. /\ IsSeq(served') /\ Len(served) \in Nat /\ Len(served') = Len(served) + 1
          /\ \A k \in 1 .. Len(served) : served'[k] = served[k]
          /\ ~(served'[Len(served')].ok /\ served'[Len(served')].call.op = "open")
          /\ served'[Len(served')].call.op = "open" =>
               ~IsTool /\ (program = "library" => served'[Len(served')].call.file = "f")
      BY <3>1, PlainServed
    <3>3. \A k \in 1 .. Len(served') : k \notin 1 .. Len(served) => k = Len(served')
      BY <3>2
    <3> QED
      BY <3>2, <3>3 DEF Opened
  <2> QED
    BY <2>1, <2>2
<1>4. ASSUME NEW k \in 1 .. Len(served'), Opened(k)' PROVE Open(k)' \/ Closed(k)'
  <2>1. k \in 1 .. Len(served) /\ served'[k] = served[k] /\ Opened(k)
    BY <1>3, <1>4 DEF Opened
  <2>2. Open(k) => Open(k)'
    BY <2>1 DEF Open, OldFrames
  <2>3. Closed(k) => Closed(k)'
    <3> SUFFICES ASSUME Closed(k) PROVE Closed(k)'
      OBVIOUS
    <3>1. PICK j \in k + 1 .. Len(served) :
            served[j] = [call |-> Call("close", served[k].call.file), ok |-> TRUE]
      BY DEF Closed
    <3>2. j \in 1 .. Len(served) /\ j \in k + 1 .. Len(served')
      BY <1>3, <2>1
    <3> QED
      BY <1>3, <2>1, <3>1, <3>2 DEF Closed
  <2> QED
    BY <2>1, <2>2, <2>3 DEF TableSane
<1>5. \A k \in 1 .. Len(served') : served'[k].call.op = "open" =>
        ~IsTool /\ (program = "library" => served'[k].call.file = "f")
  BY <1>3 DEF TableSane
<1> QED
  BY <1>1, <1>2, <1>3, <1>4, <1>5 DEF TableSane

\* The call that is being made.
LEMMA TouchingAsked ==
  ASSUME CallInv, TableSane, ~ended, toServer # <<>>, Touches(Head(toServer))
  PROVE  /\ ~IsTool /\ pc = "read" /\ Len(toServer) = 1 /\ Head(toServer) = toServer[1]
         /\ step \in Nat /\ step + 1 \in 1 .. Len(script)
         /\ Head(toServer).call = script[step + 1]
         /\ Head(toServer).call.op = "open" => Head(toServer).fd = nextFd - 1
<1>1. /\ Head(toServer) = toServer[1] /\ Len(toServer) >= 1 /\ Len(toServer) \in Nat
  BY Tailed, SeqWidens DEF TableSane
<1>2. ~IsTool /\ pc = "read" /\ (toServer[1].call.op = "open" => toServer[1].fd = nextFd - 1)
  BY <1>1 DEF TableSane, FramesTouch
<1>3. Basic /\ Phase
  BY <1>2 DEF CallInv
<1>4. ~OnlyAcks(Len(toServer))
  BY <1>1 DEF OnlyAcks, Touches
<1>5. Asked
  BY <1>2, <1>3, <1>4 DEF Phase, Idle, Working, Answered, Beyond, CutOff
<1>6. Len(toServer) = 1
  <2>1. PICK n \in Nat : n = Len(toServer) /\ n >= 1
    BY <1>1
  <2>2. n # 1 => 1 \in 1 .. n - 1
    BY <2>1
  <2>3. n = 1
    BY <1>1, <1>5, <2>1, <2>2 DEF Asked, OnlyAcks, Touches
  <2> QED
    BY <2>1, <2>3
<1>7. step \in Nat /\ step + 1 \in 1 .. Len(script)
  BY <1>2, <1>3, LenProperties DEF Basic
<1> QED
  BY <1>1, <1>2, <1>5, <1>6, <1>7 DEF Asked

LEMMA LibraryCalls ==
  /\ Len(Library) = 5
  /\ \A k \in 1 .. 5 : Library[k].op = "open" => k = 2 /\ Library[k] = Call("open", "f")
  /\ \A k \in 1 .. 5 : Library[k].op = "close" => Library[k] = Call("close", "f")
BY DEF Library, Call

\* The frame is taken.
LEMMA FrameTaken ==
  ASSUME IsSeq(toServer), toServer # <<>>, toServer' = Tail(toServer)
  PROVE  IsSeq(toServer') /\ OldFrames
<1>1. /\ IsSeq(toServer') /\ Len(toServer') = Len(toServer) - 1 /\ Len(toServer) \in Nat
      /\ \A k \in 1 .. Len(toServer) - 1 : toServer'[k] = toServer[k + 1]
  BY Tailed, SeqWidens
<1>2. \A k \in 1 .. Len(toServer) - 1 : k + 1 \in 1 .. Len(toServer)
  BY <1>1
<1> QED
  BY <1>1, <1>2 DEF OldFrames

LEMMA ChangeTable ==
  ASSUME CallInv, TableSane, Serve, ServeChange(Head(toServer)), Touches(Head(toServer)),
         UNCHANGED scriptVars
  PROVE  TableSane'
<1> DEFINE f == Head(toServer)
<1>1. /\ ~ended /\ toServer # <<>> /\ toServer' = Tail(toServer)
      /\ UNCHANGED <<program, pc, script, step, nextFd>>
  BY DEF Serve, clientVars, scriptVars, callVars
<1>2. /\ ~IsTool /\ pc = "read" /\ Len(toServer) = 1
      /\ step \in Nat /\ step + 1 \in 1 .. Len(script)
      /\ f.call = script[step + 1]
      /\ f.call.op = "open" => f.fd = nextFd - 1
      /\ f.call.op \in {"open", "close"}
  BY <1>1, TouchingAsked DEF Touches
<1>3. (IsTool' <=> IsTool) /\ CallsMade' = CallsMade
  BY <1>1 DEF IsTool, CallsMade
<1>4. Descriptors /\ Descriptors'
  BY <1>1, <1>2, <1>3, DescriptorsSame DEF TableSane
<1>5. IsSeq(toServer') /\ Len(toServer') = 0
  <2>1. IsSeq(toServer)
    BY DEF TableSane
  <2> QED
    BY <1>1, <1>2, <2>1, Tailed
<1>6. \A k \in 1 .. Len(toServer') : FALSE
  BY <1>5
<1> DEFINE x == [call |-> f.call, ok |-> TRUE]
<1>7. served' = Append(served, x)
  BY DEF ServeChange, Record
<1>8. /\ IsSeq(served') /\ Len(served') = Len(served) + 1 /\ Len(served) \in Nat
      /\ served'[Len(served) + 1] = x
      /\ \A k \in 1 .. Len(served) : served'[k] = served[k]
  <2>1. IsSeq(served)
    BY DEF TableSane
  <2> HIDE DEF x
  <2> QED
    BY <1>7, <2>1, Appended
<1>9. PICK n \in Nat : n = Len(served)
  BY <1>8
<1>10. \A k \in 1 .. n + 1 : k \in 1 .. n \/ k = n + 1
  BY <1>9
<1>11. program = "library" => script = Library
  BY <1>4 DEF Descriptors
<1>12. program = "library" =>
         /\ f.call.op = "open" => f.call.file = "f"
         /\ f.call.op = "close" => f.call = Call("close", "f")
  <2> SUFFICES ASSUME program = "library"
               PROVE  /\ f.call.op = "open" => f.call.file = "f"
                      /\ f.call.op = "close" => f.call = Call("close", "f")
    OBVIOUS
  <2>1. step + 1 \in 1 .. 5 /\ f.call = Library[step + 1]
    BY <1>2, <1>11, LibraryCalls
  <2>2. Call("open", "f").file = "f"
    BY DEF Call
  <2> QED
    BY <2>1, <2>2, LibraryCalls
<1>13. \A k \in 1 .. Len(served') : served'[k].call.op = "open" =>
         ~IsTool /\ (program = "library" => served'[k].call.file = "f")
  BY <1>2, <1>8, <1>9, <1>10, <1>12 DEF TableSane
<1>14. ASSUME DOMAIN files' = DOMAIN files,
              \A k \in 1 .. Len(served') : Opened(k)' => Open(k)' \/ Closed(k)'
       PROVE  TableSane'
  <2>1. FramesTouch'
    BY <1>5 DEF FramesTouch
  <2> QED
    BY <1>1, <1>3, <1>4, <1>5, <1>8, <1>13, <1>14, <2>1 DEF TableSane
<1>15. \A k \in 1 .. n : Closed(k) => Closed(k)'
  <2> SUFFICES ASSUME NEW k \in 1 .. n, Closed(k) PROVE Closed(k)'
    OBVIOUS
  <2>1. PICK j \in k + 1 .. n :
          served[j] = [call |-> Call("close", served[k].call.file), ok |-> TRUE]
    BY <1>9 DEF Closed
  <2>2. j \in 1 .. n /\ j \in k + 1 .. n + 1
    OBVIOUS
  <2>3. served'[j] = served[j] /\ served'[k] = served[k] /\ Len(served') = n + 1
    BY <1>8, <1>9, <2>2
  <2> QED
    BY <2>1, <2>2, <2>3 DEF Closed
<1>16. CASE f.call.op = "open"
  <2>1. files' = [files EXCEPT ![f.fd] = f.call.file] /\ f.fd = nextFd - 1
    BY <1>2, <1>16 DEF ServeChange
  <2>2. f.fd \in Fds /\ f.fd < nextFd /\ f.fd \in Nat
    <3>1. MaxFd \in Nat /\ MaxFd >= 4
      BY ConnectionAssumption, SyncedAssumption
    <3>2. nextFd \in Nat /\ nextFd >= 3 /\ nextFd <= 5
      BY <1>4 DEF Descriptors
    <3> QED
      BY <2>1, <3>1, <3>2 DEF Fds
  <2>3. Touches(toServer[1]) /\ toServer[1].call.op = "open" /\ toServer[1] = f /\ 1 \in 1 .. Len(toServer)
    BY <1>1, <1>2, <1>16, TouchingAsked
  <2>4. ASSUME NEW k \in 1 .. n, Open(k) PROVE Open(k)'
    <3>1. PICK fd \in Fds :
            /\ files[fd] = served[k].call.file /\ fd < nextFd
            /\ \A j \in 1 .. Len(toServer) :
                 Touches(toServer[j]) /\ toServer[j].call.op = "open" => fd < toServer[j].fd
      BY <2>4 DEF Open
    <3>2. fd < f.fd /\ fd \in Nat
      BY <2>3, <3>1 DEF Fds
    <3>3. fd # f.fd
      BY <2>2, <3>2
    <3>4. files'[fd] = files[fd]
      BY <2>1, <3>3 DEF TableSane
    <3>5. served'[k] = served[k]
      BY <1>8, <1>9
    <3> QED
      BY <1>1, <1>6, <3>1, <3>4, <3>5 DEF Open
  <2>5. Open(n + 1)'
    <3>1. files'[f.fd] = f.call.file
      BY <2>1, <2>2 DEF TableSane
    <3>2. served'[n + 1].call.file = f.call.file
      BY <1>8, <1>9
    <3> QED
      BY <1>1, <1>6, <2>2, <3>1, <3>2 DEF Open
  <2>6. \A k \in 1 .. Len(served') : Opened(k)' => Open(k)' \/ Closed(k)'
    <3> SUFFICES ASSUME NEW k \in 1 .. n + 1, Opened(k)' PROVE Open(k)' \/ Closed(k)'
      BY <1>8, <1>9
    <3>1. CASE k \in 1 .. n
      <4>1. Opened(k)
        BY <1>8, <1>9, <3>1 DEF Opened
      <4>2. Open(k) \/ Closed(k)
        BY <1>9, <3>1, <4>1 DEF TableSane
      <4> QED
        BY <1>15, <2>4, <3>1, <4>2
    <3> QED
      BY <1>10, <2>5, <3>1
  <2> QED
    BY <1>14, <2>1, <2>6 DEF TableSane
<1>17. CASE f.call.op = "close"
  <2>1. program = "library"
    BY <1>2, <1>4, <1>17 DEF Descriptors
  <2>2. f.call = Call("close", "f")
    BY <1>12, <1>17, <2>1
  <2>3. DOMAIN files' = DOMAIN files
    BY <1>17 DEF ServeChange
  <2>4. ASSUME NEW k \in 1 .. n, Opened(k) PROVE Closed(k)'
    <3>1. served[k].call.file = "f"
      BY <1>9, <2>1, <2>4 DEF TableSane, Opened
    <3>2. n + 1 \in k + 1 .. Len(served') /\ served'[n + 1] = [call |-> Call("close", "f"), ok |-> TRUE]
      <4>1. n + 1 \in k + 1 .. n + 1 /\ Len(served') = n + 1 /\ served'[n + 1] = x
        BY <1>8, <1>9
      <4> QED
        BY <2>2, <4>1
    <3>3. served'[k] = served[k]
      BY <1>8, <1>9
    <3> QED
      BY <3>1, <3>2, <3>3 DEF Closed
  <2>5. \A k \in 1 .. Len(served') : Opened(k)' => Open(k)' \/ Closed(k)'
    <3> SUFFICES ASSUME NEW k \in 1 .. n + 1, Opened(k)' PROVE Open(k)' \/ Closed(k)'
      BY <1>8, <1>9
    <3>1. served'[n + 1].call.op = "close"
      BY <1>8, <1>9, <1>17
    <3>2. k \in 1 .. n
      BY <1>10, <3>1 DEF Opened
    <3>3. Opened(k)
      BY <1>8, <1>9, <3>2 DEF Opened
    <3> QED
      BY <2>4, <3>2, <3>3
  <2> QED
    BY <1>14, <2>3, <2>5 DEF TableSane
<1> QED
  BY <1>2, <1>16, <1>17

LEMMA ServeTable ==
  ASSUME CallInv, TableSane, Serve, UNCHANGED scriptVars
  PROVE  TableSane'
<1>1. /\ ~ended /\ toServer # <<>> /\ toServer' = Tail(toServer)
      /\ UNCHANGED <<program, pc, script, step, nextFd>>
  BY DEF Serve, clientVars, scriptVars, callVars
<1>2. IsSeq(toServer') /\ OldFrames
  BY <1>1, FrameTaken DEF TableSane
<1>3. PICK f : /\ f = Head(toServer)
               /\ ServeRequest(f) \/ ServeRead(f) \/ ServePing(f) \/ ServeAck(f) \/ ServeCancel(f)
  BY DEF Serve
<1>4. ASSUME files' = files, served' = served \/ ServesPlain PROVE TableSane'
  BY <1>1, <1>2, <1>4, ServedKeepsTable
<1>5. CASE ServeRead(f) \/ ServePing(f) \/ ServeAck(f) \/ ServeCancel(f)
  BY <1>4, <1>5 DEF ServeRead, ServePing, ServeAck, ServeCancel, answerVars
<1>6. CASE ServeRequest(f) /\ ServeLook(f)
  <2>1. files' = files /\ f.call.op # "open" /\ served' = Append(served, [call |-> f.call, ok |-> TRUE])
    BY <1>6 DEF ServeLook, Record
  <2> QED
    BY <1>4, <2>1 DEF ServesPlain
<1>7. CASE ServeRequest(f) /\ ServeChange(f) /\ ~Touches(f)
  <2>1. f.type = "request" /\ f.call.op \notin {"open", "close"}
    BY <1>7 DEF ServeRequest, Touches
  <2>2. files' = files /\ served' = Append(served, [call |-> f.call, ok |-> TRUE])
    BY <1>7, <2>1 DEF ServeChange, Record
  <2> QED
    BY <1>4, <2>1, <2>2 DEF ServesPlain
<1>8. CASE ServeRequest(f) /\ ServeChange(f) /\ Touches(f)
  BY <1>3, <1>8, ChangeTable
<1>9. CASE ServeRequest(f) /\ ServeRefusal(f)
  <2> DEFINE x == [call |-> f.call, ok |-> FALSE]
  <2>1. files' = files /\ served' = Append(served, x)
    BY <1>9 DEF ServeRefusal, Record
  <2>2. x.call.op = "open" => ~IsTool /\ (program = "library" => x.call.file = "f")
    <3> SUFFICES ASSUME f.call.op = "open"
                 PROVE  ~IsTool /\ (program = "library" => f.call.file = "f")
      OBVIOUS
    <3>1. Touches(f)
      BY <1>9 DEF ServeRequest, Touches
    <3>2. /\ ~IsTool /\ step + 1 \in 1 .. Len(script) /\ f.call = script[step + 1]
      BY <1>1, <1>3, <3>1, TouchingAsked
    <3>3. program = "library" => script = Library
      BY <3>2 DEF TableSane, Descriptors
    <3>4. Call("open", "f").file = "f"
      BY DEF Call
    <3> QED
      BY <3>2, <3>3, <3>4, LibraryCalls
  <2>3. ~(x.ok /\ x.call.op = "open")
    OBVIOUS
  <2> HIDE DEF x
  <2> QED
    BY <1>4, <2>1, <2>2, <2>3 DEF ServesPlain
<1> QED
  BY <1>3, <1>5, <1>6, <1>7, <1>8, <1>9 DEF ServeRequest

LEMMA TaskTable ==
  ASSUME TableSane, UNCHANGED scriptVars,
         \E i \in Ids : TaskData(i) \/ TaskResult(i) \/ StreamFails(i)
  PROVE  TableSane'
<1>1. PICK i \in Ids : TaskData(i) \/ TaskResult(i) \/ StreamFails(i)
  OBVIOUS
<1>2. /\ UNCHANGED <<program, pc, script, step, nextFd, files, toServer>>
      /\ served' = served \/ \E ok : served' = Append(served, [call |-> box[i], ok |-> ok])
      /\ box[i].op = "read"
  BY <1>1 DEF TaskData, TaskResult, StreamFails, Record, clientVars, scriptVars, callVars
<1>3. served' = served \/ ServesPlain
  <2> SUFFICES ASSUME NEW ok, served' = Append(served, [call |-> box[i], ok |-> ok])
               PROVE  ServesPlain
    BY <1>2
  <2> DEFINE x == [call |-> box[i], ok |-> ok]
  <2>1. served' = Append(served, x) /\ x.call.op # "open"
    BY <1>2
  <2> HIDE DEF x
  <2> QED
    BY <2>1 DEF ServesPlain
<1>4. IsSeq(toServer') /\ OldFrames
  BY <1>2 DEF TableSane, OldFrames
<1> QED
  BY <1>2, <1>3, <1>4, ServedKeepsTable

\* The program sends nothing, or what touches no file.
LEMMA QuietTable ==
  ASSUME TableSane, UNCHANGED <<program, served, files, nextFd, script>>, CallsMade' = CallsMade,
         \/ toServer' = toServer
         \/ \E x : ~Touches(x) /\ (Send(<<x>>) \/ SendFails),
         pc = "read" => pc' = "read" \/ \A k \in 1 .. Len(toServer) : ~Touches(toServer[k])
  PROVE  TableSane'
<1>1. (IsTool' <=> IsTool) /\ (~IsTool => Descriptors')
  BY DescriptorsSame DEF IsTool, TableSane
<1>2. /\ IsSeq(toServer')
      /\ \A k \in 1 .. Len(toServer') : Touches(toServer'[k]) =>
           \E j \in 1 .. Len(toServer) : toServer[j] = toServer'[k]
  <2>1. CASE toServer' = toServer
    BY <2>1 DEF TableSane
  <2>2. CASE toServer' # toServer
    <3>1. PICK x : ~Touches(x) /\ (Send(<<x>>) \/ SendFails)
      BY <2>2
    <3>2. IsSeq(toServer)
      BY DEF TableSane
    <3>3. ~ended
      BY <2>2, <3>1 DEF Send, SendFails
    <3>4. /\ IsSeq(toServer') /\ Len(toServer') = Len(toServer) + 1 /\ toServer'[Len(toServer) + 1] = x
          /\ \A k \in 1 .. Len(toServer) : toServer'[k] = toServer[k]
      BY <3>1, <3>2, <3>3, Sent
    <3>5. Len(toServer) \in Nat
      BY <3>2, SeqWidens
    <3>6. \A k \in 1 .. Len(toServer') : k \in 1 .. Len(toServer) \/ k = Len(toServer) + 1
      BY <3>4, <3>5
    <3> QED
      BY <3>1, <3>4, <3>6
  <2> QED
    BY <2>1, <2>2
<1>3. FramesTouch'
  BY <1>1, <1>2 DEF TableSane, FramesTouch
<1>4. NewFrames
  BY <1>2 DEF NewFrames
<1>5. ~IsTool => nextFd' >= nextFd
  BY DEF TableSane, Descriptors
<1> QED
  BY <1>1, <1>2, <1>3, <1>4, <1>5, ProgramKeepsTable

LEMMA MakeCallTable ==
  ASSUME TableSane, ~ended, ~IsTool, MakeCall, UNCHANGED <<served, files>>, step \in 0 .. Len(script),
         Len(script) \in Nat
  PROVE  TableSane'
<1> DEFINE call  == script[step + 1]
           image == [r \in call.rows |-> raster[r]]
           x     == Frame("request", 0, call, Descriptor(call), image)
<1>1. /\ pc = "next" /\ step < Len(script) /\ pc' = "read"
      /\ Send(<<x>>) \/ SendFails
      /\ nextFd' = IF call.op = "open" THEN nextFd + 1 ELSE nextFd
      /\ UNCHANGED <<program, script, step>>
  BY DEF MakeCall, Killed
<1>2. (IsTool' <=> IsTool) /\ CallsMade = step /\ CallsMade' = step + 1
  BY <1>1 DEF IsTool, CallsMade
<1>3. Descriptors /\ nextFd \in Nat
  BY DEF TableSane, Descriptors
<1>4. Descriptors' /\ nextFd' >= nextFd
  <2>1. PICK a, b \in Nat :
          /\ \A k \in 1 .. Len(script) : script[k].op = "open" => k \in {a, b}
          /\ nextFd <= 3 + (IF a <= step THEN 1 ELSE 0) + (IF b <= step THEN 1 ELSE 0)
    BY <1>2, <1>3 DEF Descriptors
  <2>2. step + 1 \in 1 .. Len(script) /\ step \in Nat
    BY <1>1
  <2>3. nextFd' <= 3 + (IF a <= step + 1 THEN 1 ELSE 0) + (IF b <= step + 1 THEN 1 ELSE 0)
    <3>1. CASE call.op = "open"
      <4>1. step + 1 \in {a, b} /\ nextFd' = nextFd + 1
        BY <1>1, <2>1, <2>2, <3>1
      <4> QED
        BY <1>3, <2>1, <2>2, <4>1
    <3>2. CASE call.op # "open"
      <4>1. nextFd' = nextFd
        BY <1>1, <3>2
      <4> QED
        BY <1>3, <2>1, <2>2, <4>1
    <3> QED
      BY <3>1, <3>2
  <2>4. nextFd' \in Nat /\ nextFd' >= 3 /\ nextFd' >= nextFd
    BY <1>1, <1>3 DEF Descriptors
  <2> QED
    BY <1>1, <1>2, <1>3, <2>1, <2>3, <2>4 DEF Descriptors
<1>5. \A k \in 1 .. Len(toServer) : ~Touches(toServer[k])
  BY <1>1 DEF TableSane, FramesTouch
<1> HIDE DEF x
<1>6. /\ IsSeq(toServer') /\ Len(toServer') = Len(toServer) + 1 /\ toServer'[Len(toServer) + 1] = x
      /\ \A k \in 1 .. Len(toServer) : toServer'[k] = toServer[k]
  <2>1. IsSeq(toServer)
    BY DEF TableSane
  <2> QED
    BY <1>1, <2>1, Sent
<1>7. \A k \in 1 .. Len(toServer') : Touches(toServer'[k]) => toServer'[k] = x
  <2>1. Len(toServer) \in Nat
    BY SeqWidens DEF TableSane
  <2>2. \A k \in 1 .. Len(toServer') : k \in 1 .. Len(toServer) \/ k = Len(toServer) + 1
    BY <1>6, <2>1
  <2> QED
    BY <1>5, <1>6, <2>2
<1>8. x.call.op = "open" => x.fd = nextFd /\ x.fd = nextFd' - 1
  <2>1. x.call.op = "open" => x.fd = nextFd /\ nextFd' = nextFd + 1
    BY <1>1 DEF x, Frame, Descriptor
  <2> QED
    BY <1>3, <2>1
<1>9. FramesTouch'
  BY <1>1, <1>2, <1>7, <1>8 DEF FramesTouch
<1>10. NewFrames
  <2>1. nextFd >= nextFd
    BY <1>3
  <2> QED
    BY <1>7, <1>8, <2>1 DEF NewFrames
<1> QED
  BY <1>1, <1>4, <1>6, <1>9, <1>10, ProgramKeepsTable

WatchWaits == pc \in {"status", "wait"} => program = "watch"

LEMMA ScriptTable ==
  ASSUME CallInv, WatchWaits, TableSane, ~ended, ~IsTool, ScriptStep, Others
  PROVE  TableSane'
<1>0. Basic /\ Phase
  BY DEF CallInv
<1>1. UNCHANGED <<served, files, ended, toClient>>
  BY DEF Others, sessionVars, answerVars
<1>2. CASE MakeCall
  BY <1>0, <1>1, <1>2, MakeCallTable, LenProperties DEF Basic
<1>3. CASE TakeItem
  <2>1. ~Touches(Signal("ack", 0))
    BY DEF Touches, Signal, Frame
  <2>2. /\ UNCHANGED <<program, nextFd, script, pc, step>>
        /\ toServer' = toServer \/ Send(<<Signal("ack", 0)>>) \/ SendFails
    BY <1>3 DEF TakeItem, Killed, callVars
  <2> QED
    BY <1>1, <2>1, <2>2, QuietTable DEF CallsMade
<1>4. CASE TakeResult
  <2>1. /\ pc = "read" /\ step' = step + 1 /\ pc' \in {"next", "exited"}
        /\ UNCHANGED <<program, nextFd, script, toServer>>
    BY <1>4 DEF TakeResult, Waiting, Exit
  <2>2. CallsMade' = CallsMade
    BY <2>1 DEF CallsMade
  <2>3. Answered
    BY <1>0, <1>1, <1>4, ResultTaken DEF TakeResult, Waiting
  <2>4. \A k \in 1 .. Len(toServer) : ~Touches(toServer[k])
    BY <2>3 DEF Answered, OnlyAcks, Touches
  <2> QED
    BY <1>1, <2>1, <2>2, <2>4, QuietTable
<1>5. CASE Return \/ Proceed \/ CheckStatus \/ Poll \/ HandleClickResult \/ HandleJunk
  <2>1. /\ pc # "read" /\ pc' # "read" /\ UNCHANGED <<program, nextFd, script, step, toServer>>
    BY <1>5 DEF Return, Proceed, AtScriptEnd, CheckStatus, Poll, HandleClickResult, HandleJunk,
                Clicks, Exit, callVars, clientVars
  <2> QED
    BY <1>1, <2>1, QuietTable DEF CallsMade
<1>6. CASE SeedChanged
  <2>1. /\ pc = "wait" /\ pc' = "next" /\ script' = script \o WriteImage
        /\ UNCHANGED <<program, nextFd, step, toServer>>
    BY <1>6 DEF SeedChanged
  <2>2. CallsMade' = CallsMade /\ program # "library" /\ (IsTool' <=> IsTool)
    BY <1>6, <2>1 DEF CallsMade, IsTool, WatchWaits, SeedChanged
  <2>3. Descriptors
    BY DEF TableSane
  <2>4. PICK a, b \in Nat :
          /\ \A k \in 1 .. Len(script) : script[k].op = "open" => k \in {a, b}
          /\ nextFd <= 3 + (IF a <= CallsMade THEN 1 ELSE 0) + (IF b <= CallsMade THEN 1 ELSE 0)
    BY <2>3 DEF Descriptors
  <2>5. OpensAt(script, a, b)
    <3>1. IsSeq(script)
      BY <1>0, SeqOfAny DEF Basic
    <3>2. \A k \in 1 .. Len(script) : script[k].op # "close"
      BY <2>2, <2>3 DEF Descriptors
    <3> QED
      BY <2>4, <3>1, <3>2 DEF OpensAt
  <2>6. OpensAt(script', a, b)
    BY <2>1, <2>5, PlainLater, WriteImageWrites
  <2>7. Descriptors'
    <3>1. nextFd' \in Nat /\ nextFd' >= 3 /\ program' # "library"
      BY <2>1, <2>2, <2>3 DEF Descriptors
    <3>2. /\ \A k \in 1 .. Len(script') : script'[k].op = "open" => k \in {a, b}
          /\ nextFd' <= 3 + (IF a <= CallsMade' THEN 1 ELSE 0) + (IF b <= CallsMade' THEN 1 ELSE 0)
      BY <2>1, <2>2, <2>4, <2>6 DEF OpensAt
    <3>3. \A k \in 1 .. Len(script') : script'[k].op # "close"
      BY <2>6 DEF OpensAt
    <3> QED
      BY <3>1, <3>2, <3>3 DEF Descriptors
  <2>8. \A k \in 1 .. Len(toServer) : ~Touches(toServer[k])
    BY <2>1 DEF TableSane, FramesTouch
  <2>9. IsSeq(toServer') /\ FramesTouch' /\ NewFrames /\ nextFd' >= nextFd
    BY <2>1, <2>3, <2>8 DEF TableSane, FramesTouch, NewFrames, Touches, Descriptors
  <2> QED
    BY <1>1, <2>1, <2>7, <2>9, ProgramKeepsTable
<1>7. CASE ReadClicks
  <2> DEFINE x == Frame("request", 0, Call("read", "clicked"), 0, <<>>)
  <2>1. ~Touches(x)
    BY DEF Touches, Call, Frame
  <2>2. /\ UNCHANGED <<program, nextFd, script, step>> /\ (Send(<<x>>) \/ SendFails)
        /\ pc # "read" /\ pc' # "read"
    BY <1>7 DEF ReadClicks, AtScriptEnd, Killed, callVars
  <2> HIDE DEF x
  <2> QED
    BY <1>1, <2>1, <2>2, QuietTable DEF CallsMade
<1>8. CASE HandleClick
  <2>1. /\ UNCHANGED <<program, nextFd, script, step>> /\ pc = "clicks" /\ pc' = "clicks"
    BY <1>8 DEF HandleClick, Clicks, Killed
  <2>2. PICK id :
          \/ SendFails
          \/ Send(IF clicked THEN <<Signal("cancel", id)>>
                  ELSE <<Frame("request", 1, Call("put", "v/v/title"), 0, <<>>)>>)
    BY <1>8 DEF HandleClick, Killed
  <2>3. /\ ~Touches(Signal("cancel", id))
        /\ ~Touches(Frame("request", 1, Call("put", "v/v/title"), 0, <<>>))
    BY DEF Touches, Call, Frame, Signal
  <2>4. \E x : ~Touches(x) /\ (Send(<<x>>) \/ SendFails)
    BY <2>2, <2>3
  <2> QED
    BY <1>1, <2>1, <2>4, QuietTable DEF CallsMade
<1>9. ~LoseConnection /\ ~Unblock /\ ~LoseClicks
  BY DEF LoseConnection, AtEnd, Unblock, LoseClicks
<1> QED
  BY <1>2, <1>3, <1>4, <1>5, <1>6, <1>7, <1>8, <1>9 DEF ScriptStep

LEMMA ToolTable ==
  ASSUME TableSane, ~ended, IsTool, ToolStep \/ Pinger, Others, UNCHANGED scriptVars
  PROVE  TableSane'
<1>1. /\ UNCHANGED <<served, files, ended, script, step, nextFd>>
      /\ UNCHANGED program
  BY DEF Others, sessionVars, answerVars, scriptVars, callVars, ToolStep, Pinger, SendRequest,
         HandleItem, HandleResult, Finish, StartThreads, HandlePong, FinishPings, SendPing, Killed
<1>2. (IsTool' <=> IsTool) /\ \A k \in 1 .. Len(toServer) : ~Touches(toServer[k])
  BY <1>1 DEF IsTool, TableSane, FramesTouch
<1>3. \/ toServer' = toServer
      \/ \E x : ~Touches(x) /\ (Send(<<x>>) \/ SendFails)
  <2>1. CASE SendRequest
    <3>1. program \in Printers /\ Asks[program] \notin {"open", "close"}
      BY <2>1 DEF SendRequest, Printers, Asks
    <3> DEFINE x == Frame("request", 0, Call(Asks[program], "file"), 0, <<>>)
    <3>2. ~Touches(x)
      BY <3>1 DEF Touches, Call, Frame
    <3>3. Send(<<x>>) \/ SendFails
      BY <2>1 DEF SendRequest, Killed
    <3> QED
      BY <3>2, <3>3
  <2>2. ~Touches(Signal("ack", 0)) /\ ~Touches(Signal("ping", 0))
    BY DEF Touches, Signal, Frame
  <2>3. CASE HandleItem
    <3>1. toServer' = toServer \/ Send(<<Signal("ack", 0)>>) \/ SendFails
      BY <2>3 DEF HandleItem, Killed
    <3> QED
      BY <2>2, <3>1
  <2>4. CASE Pinger
    <3>1. Send(<<Signal("ping", 0)>>) \/ SendFails
      BY <2>4 DEF Pinger, SendPing, Killed
    <3> QED
      BY <2>2, <3>1
  <2>5. CASE HandleResult \/ Finish \/ StartThreads \/ HandlePong \/ FinishPings
    BY <2>5 DEF HandleResult, Finish, StartThreads, HandlePong, FinishPings
  <2> QED
    BY <2>1, <2>3, <2>4, <2>5 DEF ToolStep
<1>4. IsSeq(toServer') /\ \A k \in 1 .. Len(toServer') : ~Touches(toServer'[k])
  <2>1. CASE toServer' = toServer
    BY <1>2, <2>1 DEF TableSane
  <2>2. CASE toServer' # toServer
    <3>1. PICK x : ~Touches(x) /\ (Send(<<x>>) \/ SendFails)
      BY <1>3, <2>2
    <3>2. IsSeq(toServer)
      BY DEF TableSane
    <3>3. /\ IsSeq(toServer') /\ Len(toServer') = Len(toServer) + 1 /\ toServer'[Len(toServer) + 1] = x
          /\ \A k \in 1 .. Len(toServer) : toServer'[k] = toServer[k]
      BY <3>1, <3>2, Sent
    <3>4. Len(toServer) \in Nat
      BY <3>2, SeqWidens
    <3>5. \A k \in 1 .. Len(toServer') : k \in 1 .. Len(toServer) \/ k = Len(toServer) + 1
      BY <3>3, <3>4
    <3> QED
      BY <1>2, <3>1, <3>3, <3>5
  <2> QED
    BY <2>1, <2>2
<1>5. FramesTouch' /\ NewFrames
  BY <1>4 DEF FramesTouch, NewFrames
<1> QED
  BY <1>1, <1>4, <1>5, ProgramKeepsTable

FilesInv == AnswerInv /\ WatchWaits /\ (~ended => TableSane)

LEMMA InitTable == Init => WatchWaits /\ TableSane
<1> SUFFICES ASSUME Init PROVE WatchWaits /\ TableSane
  OBVIOUS
<1>1. /\ toServer = <<>> /\ served = <<>> /\ files = [fd \in Fds |-> NoFile] /\ nextFd = 3
      /\ program \in Programs /\ pc \in {"start", "next"}
      /\ ~IsTool => step = 0 /\ script \in Scripts[program]
  BY DEF Init, InitConnection, InitTool, InitScript
<1>2. IsSeq(<<>>) /\ Len(<<>>) = 0
  BY None
<1>3. ASSUME ~IsTool PROVE Descriptors
  <2>1. program \in DOMAIN Scripts
    BY <1>1, <1>3, ClientsAssumption DEF IsTool
  <2>2. \E a, b \in Nat : \A k \in 1 .. Len(script) : script[k].op = "open" => k \in {a, b}
    <3>1. CASE program = "library"
      <4>1. script = Library
        BY <1>1, <1>3, <3>1 DEF Scripts
      <4> QED
        BY <4>1, LibraryCalls
    <3>2. CASE program # "library"
      <4>1. PICK a, b \in Nat : OpensAt(script, a, b)
        BY <1>1, <1>3, <2>1, <3>2, ScriptOpens
      <4> QED
        BY <4>1 DEF OpensAt
    <3> QED
      BY <3>1, <3>2
  <2>3. PICK a, b \in Nat : \A k \in 1 .. Len(script) : script[k].op = "open" => k \in {a, b}
    BY <2>2
  <2>4. nextFd <= 3 + (IF a <= CallsMade THEN 1 ELSE 0) + (IF b <= CallsMade THEN 1 ELSE 0)
    BY <1>1
  <2>5. IF program = "library" THEN script = Library
                               ELSE \A k \in 1 .. Len(script) : script[k].op # "close"
    <3>1. program = "library" => script = Library
      BY <1>1, <1>3 DEF Scripts
    <3>2. program # "library" => \A k \in 1 .. Len(script) : script[k].op # "close"
      BY <1>1, <1>3, <2>1, ScriptOpens DEF OpensAt
    <3> QED
      BY <3>1, <3>2
  <2> QED
    BY <1>1, <2>3, <2>4, <2>5 DEF Descriptors
<1> QED
  BY <1>1, <1>2, <1>3 DEF WatchWaits, TableSane, FramesTouch

LEMMA WatchWaitsKept ==
  ASSUME AnswerInv, WatchWaits, [Next]_vars
  PROVE  WatchWaits'
<1>1. program' = program
  BY ProgramStays
<1>2. SUFFICES ASSUME pc' # pc, pc' \in {"status", "wait"} PROVE program = "watch"
  BY <1>1 DEF WatchWaits
<1>3. ~IsTool
  <2> SUFFICES ASSUME IsTool PROVE FALSE
    OBVIOUS
  <2>1. AnswerInv'
    BY StepKeepsAnswers
  <2> QED
    BY <1>1, <1>2, <2>1 DEF AnswerInv, ToolPhases, IsTool
<1>4. ScriptStep
  <2>1. ~Session /\ ~StreamError /\ ~Loss
    BY <1>2 DEF Session, SessionStep, StreamError, Loss, Serve, ServeBadFrame, ServeEnd, Cut,
               EndSession, TaskData, TaskResult, StreamFails, clientVars
  <2>2. ~Drawing /\ ~Rest /\ ~UNCHANGED vars /\ ~Receive
    BY <1>2 DEF Drawing, Rest, vars, connVars, clientVars, Receive
  <2> QED
    BY <1>3, <2>1, <2>2 DEF Next, Program, PingerThread
<1>5. Proceed \/ CheckStatus
  BY <1>2, <1>4 DEF ScriptStep, MakeCall, TakeItem, TakeResult, LoseConnection, Return, Unblock,
        SeedChanged, Poll, ReadClicks, HandleClick, HandleClickResult, HandleJunk, LoseClicks,
        Killed, Exit, clientVars, Waiting, Clicks
<1> QED
  BY <1>2, <1>5 DEF Proceed, CheckStatus, WatchWaits

LEMMA StepKeepsFiles == FilesInv /\ [Next]_vars => FilesInv'
<1> SUFFICES ASSUME FilesInv, [Next]_vars PROVE FilesInv'
  OBVIOUS
<1>1. AnswerInv' /\ WatchWaits'
  BY StepKeepsAnswers, WatchWaitsKept DEF FilesInv
<1>2. CallInv /\ WatchWaits
  BY DEF FilesInv, AnswerInv
<1>3. ASSUME ended' = ended, ~ended PROVE TableSane'
  <2>1. TableSane
    BY <1>3 DEF FilesInv
  <2>2. CASE UNCHANGED vars \/ Drawing \/ Rest
    <3>1. UNCHANGED connVars /\ UNCHANGED callVars
      BY <2>2 DEF vars, Drawing, Rest, scriptVars
    <3>2. UNCHANGED <<program, pc, toServer, files, served, script, step, nextFd>>
      BY <3>1 DEF connVars, clientVars, sessionVars, answerVars, callVars
    <3> QED
      BY <2>1, <3>2, QuietTable DEF CallsMade
  <2>3. CASE Receive /\ UNCHANGED <<toolVars, scriptVars>>
    <3>1. UNCHANGED <<program, pc, toServer, files, served, script, step, nextFd>>
      BY <2>3 DEF Receive, sessionVars, answerVars, scriptVars, callVars
    <3> QED
      BY <2>1, <3>1, QuietTable DEF CallsMade
  <2>4. CASE ~IsTool /\ ScriptStep /\ Others /\ UNCHANGED <<toolVars, authorVars>>
    BY <1>2, <1>3, <2>1, <2>4, ScriptTable
  <2>5. CASE IsTool /\ (ToolStep \/ Pinger) /\ Others /\ UNCHANGED scriptVars
    BY <1>3, <2>1, <2>5, ToolTable
  <2>6. CASE Session \/ StreamError
    <3>1. ~ServeBadFrame /\ ~ServeEnd
      BY <1>3 DEF ServeBadFrame, ServeEnd, EndSession
    <3>2. UNCHANGED scriptVars
      BY <2>6 DEF Session, StreamError
    <3>3. Serve \/ \E i \in Ids : TaskData(i) \/ TaskResult(i) \/ StreamFails(i)
      BY <2>6, <3>1 DEF Session, StreamError, SessionStep
    <3> QED
      BY <1>2, <2>1, <3>2, <3>3, ServeTable, TaskTable
  <2>7. ~Loss
    BY <1>3 DEF Loss, Cut, EndSession
  <2> QED
    BY <2>2, <2>3, <2>4, <2>5, <2>6, <2>7 DEF Next, Program, PingerThread
<1>4. ended' = ended \/ ended'
  <2>1. UNCHANGED sessionVars => ended' = ended
    BY DEF sessionVars
  <2>2. Session \/ StreamError \/ Loss => ended' = ended \/ ended'
    BY DEF Session, SessionStep, StreamError, Loss, Serve, ServeBadFrame, ServeEnd, Cut, EndSession,
           TaskData, TaskResult, StreamFails
  <2>3. Program \/ PingerThread \/ Drawing \/ Rest \/ UNCHANGED vars => UNCHANGED sessionVars
    BY DEF Program, PingerThread, Drawing, Rest, vars, Others, Receive, connVars
  <2> QED
    BY <2>1, <2>2, <2>3 DEF Next
<1> QED
  BY <1>1, <1>3, <1>4 DEF FilesInv

\* While the session lasts a file that was opened stays open until the program
\* closes it: the descriptor that next_fd gives it is never given to another.
THEOREM FilesStayOpen == Spec => []OpenFilesHeld
<1>1. Init => FilesInv
  BY InitAnswers, InitTable DEF FilesInv
<1>2. FilesInv => OpenFilesHeld
  <2> SUFFICES ASSUME FilesInv, ~ended, NEW k \in DOMAIN served,
                      served[k].ok /\ served[k].call.op = "open"
               PROVE  \/ \E fd \in Fds : files[fd] = served[k].call.file
                      \/ \E j \in k + 1 .. Len(served) :
                           served[j] = [call |-> Call("close", served[k].call.file), ok |-> TRUE]
    BY DEF OpenFilesHeld
  <2>1. TableSane /\ k \in 1 .. Len(served)
    BY SeqWidens DEF FilesInv, TableSane
  <2>2. Open(k) \/ Closed(k)
    BY <2>1 DEF TableSane, Opened
  <2> QED
    BY <2>2 DEF Open, Closed
<1> QED
  BY <1>1, <1>2, StepKeepsFiles, PTL DEF Spec

----------------------------------------------------------------------------
(* The image that the window shows.                                        *)

\* What a request writes was drawn, at the latest before the program began.
Drawn(k) == \A r \in toServer[k].call.rows \cap Rows : toServer[k].image[r] \in Nat

Written(k) ==
  served[k].ok /\ served[k].call.op = "pwrite" =>
    \A r \in served[k].call.rows \cap Rows : shown[r] \in Nat

RasterSane == raster \in [Rows -> Nat] /\ undrawn \subseteq Rows /\ updates \in Nat

ImageInv ==
  /\ RasterSane
  /\ program \in {"display", "watch"} => ImageFirst(script)
  /\ \A k \in 1 .. Len(toServer) : Drawn(k)
  /\ \A k \in 1 .. Len(served) : Written(k)

LEMMA RasterKept ==
  ASSUME RasterSane, Author \/ UNCHANGED authorVars
  PROVE  RasterSane'
<1>1. CASE UNCHANGED authorVars
  BY <1>1 DEF RasterSane, authorVars
<1>2. CASE Author
  BY <1>2 DEF RasterSane, Author, BeginUpdate, Draw, Publish, Quit
<1> QED
  BY <1>1, <1>2

\* The program sends nothing, or what was drawn.
LEMMA DrawnSent ==
  ASSUME IsSeq(toServer), \A k \in 1 .. Len(toServer) : Drawn(k),
         \/ toServer' = toServer
         \/ \E x : /\ \A r \in x.call.rows \cap Rows : x.image[r] \in Nat
                   /\ Send(<<x>>) \/ SendFails
  PROVE  \A k \in 1 .. Len(toServer') : Drawn(k)'
<1>1. CASE toServer' = toServer
  BY <1>1 DEF Drawn
<1>2. CASE toServer' # toServer
  <2>1. PICK x : /\ \A r \in x.call.rows \cap Rows : x.image[r] \in Nat
                 /\ Send(<<x>>) \/ SendFails
    BY <1>2
  <2>2. ~ended
    BY <1>2, <2>1 DEF Send, SendFails
  <2>3. /\ Len(toServer') = Len(toServer) + 1 /\ toServer'[Len(toServer) + 1] = x
        /\ \A k \in 1 .. Len(toServer) : toServer'[k] = toServer[k]
    BY <2>1, <2>2, Sent
  <2>4. Len(toServer) \in Nat
    BY SeqWidens
  <2>5. \A k \in 1 .. Len(toServer') : k \in 1 .. Len(toServer) \/ k = Len(toServer) + 1
    BY <2>3, <2>4
  <2> QED
    BY <2>1, <2>3, <2>5 DEF Drawn
<1> QED
  BY <1>1, <1>2

\* The session serves nothing, or what leaves a row that it writes written.
LEMMA WrittenServed ==
  ASSUME IsSeq(served), \A k \in 1 .. Len(served) : Written(k),
         \A r \in Rows : shown[r] \in Nat => shown'[r] \in Nat,
         \/ served' = served
         \/ \E x : /\ served' = Append(served, x)
                   /\ x.ok /\ x.call.op = "pwrite" =>
                        \A r \in x.call.rows \cap Rows : shown'[r] \in Nat
  PROVE  \A k \in 1 .. Len(served') : Written(k)'
<1>1. CASE served' = served
  BY <1>1 DEF Written
<1>2. CASE served' # served
  <2>1. PICK x : /\ served' = Append(served, x)
                 /\ x.ok /\ x.call.op = "pwrite" =>
                      \A r \in x.call.rows \cap Rows : shown'[r] \in Nat
    BY <1>2
  <2>2. /\ Len(served') = Len(served) + 1 /\ Len(served) \in Nat
        /\ served'[Len(served) + 1] = x
        /\ \A k \in 1 .. Len(served) : served'[k] = served[k]
    BY <2>1, Appended
  <2>3. PICK n \in Nat : n = Len(served) /\ \A k \in 1 .. Len(served') : k \in 1 .. n \/ k = n + 1
    BY <2>2
  <2>4. \A k \in 1 .. n : Written(k)'
    BY <2>2, <2>3 DEF Written
  <2>5. Written(n + 1)'
    BY <2>1, <2>2, <2>3 DEF Written
  <2> QED
    BY <2>3, <2>4, <2>5
<1> QED
  BY <1>1, <1>2

LEMMA SessionKeepsImage ==
  ASSUME Basic, ImageInv, UNCHANGED scriptVars,
         \/ Serve \/ ServeBadFrame \/ ServeEnd \/ Cut
         \/ \E i \in Ids : TaskData(i) \/ TaskResult(i) \/ StreamFails(i)
  PROVE  ImageInv'
<1>1. RasterSane' /\ (program' \in {"display", "watch"} => ImageFirst(script'))
  <2>1. program' = program /\ script' = script /\ UNCHANGED authorVars
    BY DEF Serve, ServeBadFrame, ServeEnd, Cut, EndSession, TaskData, TaskResult, StreamFails,
           clientVars, scriptVars, callVars
  <2> QED
    BY <2>1, RasterKept DEF ImageInv, ImageFirst
<1>2. CASE Serve
  <2> DEFINE f == Head(toServer)
  <2>1. /\ toServer # <<>> /\ toServer' = Tail(toServer)
        /\ ServeRequest(f) \/ ServeRead(f) \/ ServePing(f) \/ ServeAck(f) \/ ServeCancel(f)
    BY <1>2 DEF Serve
  <2>2. /\ IsSeq(toServer) /\ Len(toServer) \in Nat /\ Len(toServer) >= 1 /\ f = toServer[1]
        /\ Len(toServer') = Len(toServer) - 1
        /\ \A k \in 1 .. Len(toServer) - 1 : toServer'[k] = toServer[k + 1]
    BY <2>1, Tailed, SeqWidens DEF Basic
  <2>3. \A k \in 1 .. Len(toServer') : Drawn(k)'
    <3>1. \A k \in 1 .. Len(toServer) - 1 : k + 1 \in 1 .. Len(toServer)
      BY <2>2
    <3> QED
      BY <2>2, <3>1 DEF ImageInv, Drawn
  <2>4. \A r \in f.call.rows \cap Rows : f.image[r] \in Nat
    BY <2>2 DEF ImageInv, Drawn
  <2> HIDE DEF f
  <2>5. /\ \A r \in Rows : shown[r] \in Nat => shown'[r] \in Nat
        /\ \/ served' = served
           \/ \E x : /\ served' = Append(served, x)
                     /\ x.ok /\ x.call.op = "pwrite" =>
                          \A r \in x.call.rows \cap Rows : shown'[r] \in Nat
    <3>1. CASE ServeRequest(f) /\ ServeChange(f)
      <4>1. /\ shown' = [r \in Rows |-> IF r \in f.call.rows THEN f.image[r] ELSE shown[r]]
            /\ served' = Append(served, [call |-> f.call, ok |-> TRUE])
        BY <3>1 DEF ServeChange, Record
      <4>2. \A r \in Rows : shown'[r] = IF r \in f.call.rows THEN f.image[r] ELSE shown[r]
        BY <4>1
      <4>3. [call |-> f.call, ok |-> TRUE].call = f.call
        OBVIOUS
      <4> QED
        BY <2>4, <4>1, <4>2, <4>3
    <3>2. CASE ServeRequest(f) /\ ServeRefusal(f)
      <4>1. shown' = shown /\ served' = Append(served, [call |-> f.call, ok |-> FALSE])
        BY <3>2 DEF ServeRefusal, Record
      <4>2. ~[call |-> f.call, ok |-> FALSE].ok
        OBVIOUS
      <4> QED
        BY <4>1, <4>2
    <3>3. CASE ServeRequest(f) /\ ServeLook(f)
      <4>1. /\ shown' = shown /\ served' = Append(served, [call |-> f.call, ok |-> TRUE])
            /\ f.call.op # "pwrite"
        BY <3>3 DEF ServeLook, Record
      <4>2. [call |-> f.call, ok |-> TRUE].call = f.call
        OBVIOUS
      <4> QED
        BY <4>1, <4>2
    <3>4. CASE ServeRead(f) \/ ServePing(f) \/ ServeAck(f) \/ ServeCancel(f)
      BY <3>4 DEF ServeRead, ServePing, ServeAck, ServeCancel, answerVars
    <3> QED
      BY <2>1, <3>1, <3>2, <3>3, <3>4 DEF f, ServeRequest
  <2>6. \A k \in 1 .. Len(served') : Written(k)'
    BY <2>5, WrittenServed DEF Basic, ImageInv
  <2> QED
    BY <1>1, <2>3, <2>6 DEF ImageInv
<1>3. CASE ServeBadFrame \/ ServeEnd \/ Cut
  <2>1. toServer' = <<>> /\ UNCHANGED <<served, shown>>
    BY <1>3 DEF ServeBadFrame, ServeEnd, Cut, EndSession
  <2>2. Len(toServer') = 0
    BY <2>1, None
  <2>3. \A k \in 1 .. Len(served') : Written(k)'
    BY <2>1 DEF Written, ImageInv
  <2> QED
    BY <1>1, <2>2, <2>3 DEF ImageInv
<1>4. CASE \E i \in Ids : TaskData(i) \/ TaskResult(i) \/ StreamFails(i)
  <2>1. PICK i \in Ids : TaskData(i) \/ TaskResult(i) \/ StreamFails(i)
    BY <1>4
  <2>2. /\ UNCHANGED <<toServer, shown>> /\ box[i].op = "read"
        /\ served' = served \/ \E ok : served' = Append(served, [call |-> box[i], ok |-> ok])
    BY <2>1 DEF TaskData, TaskResult, StreamFails, Record
  <2>3. \/ served' = served
        \/ \E x : /\ served' = Append(served, x)
                  /\ x.ok /\ x.call.op = "pwrite" =>
                       \A r \in x.call.rows \cap Rows : shown'[r] \in Nat
    <3> SUFFICES ASSUME NEW ok, served' = Append(served, [call |-> box[i], ok |-> ok])
                 PROVE  \E x : served' = Append(served, x) /\ x.call.op # "pwrite"
      BY <2>2
    <3> DEFINE x == [call |-> box[i], ok |-> ok]
    <3>1. x.call.op # "pwrite" /\ served' = Append(served, x)
      BY <2>2
    <3> HIDE DEF x
    <3> QED
      BY <3>1
  <2>4. \A k \in 1 .. Len(served') : Written(k)'
    BY <2>2, <2>3, WrittenServed DEF Basic, ImageInv
  <2>5. \A k \in 1 .. Len(toServer') : Drawn(k)'
    BY <2>2 DEF ImageInv, Drawn
  <2> QED
    BY <1>1, <2>4, <2>5 DEF ImageInv
<1> QED
  BY <1>2, <1>3, <1>4

LEMMA ScriptKeepsImage ==
  ASSUME Basic, ImageInv, ScriptStep, Others, UNCHANGED authorVars, program' = program
  PROVE  ImageInv'
<1>0. Killed => SendFails
  BY DEF Killed, SendFails
<1>1. IsSeq(toServer) /\ IsSeq(script)
  BY SeqOfAny DEF Basic
<1>2. RasterSane' /\ \A k \in 1 .. Len(served') : Written(k)'
  <2>1. UNCHANGED <<served, shown>>
    BY DEF Others, sessionVars, answerVars
  <2> QED
    BY <2>1, RasterKept DEF ImageInv, Written
<1>3. script' = script \/ script' = script \o WriteImage
  BY DEF ScriptStep, MakeCall, TakeItem, TakeResult, LoseConnection, Return, Proceed, Unblock,
         CheckStatus, SeedChanged, Poll, ReadClicks, HandleClick, HandleClickResult, HandleJunk,
         LoseClicks, callVars
<1>4. program' \in {"display", "watch"} => ImageFirst(script')
  <2>1. script' = script => (ImageFirst(script) => ImageFirst(script'))
    OBVIOUS
  <2> QED
    BY <1>1, <1>3, <2>1, ImageLater, WriteImageWrites DEF ImageInv
<1>5. \/ toServer' = toServer
      \/ \E x : /\ \A r \in x.call.rows \cap Rows : x.image[r] \in Nat
                /\ Send(<<x>>) \/ SendFails
  <2>1. CASE MakeCall
    <3> DEFINE call  == script[step + 1]
               image == [r \in call.rows |-> raster[r]]
               x     == Frame("request", 0, call, Descriptor(call), image)
    <3>1. Send(<<x>>) \/ SendFails
      BY <1>0, <2>1 DEF MakeCall
    <3>2. \A r \in call.rows \cap Rows : image[r] \in Nat
      BY DEF ImageInv, RasterSane
    <3>3. x.call = call /\ x.image = image
      <4> HIDE DEF call, image
      <4> QED
        BY DEF Frame
    <3> HIDE DEF x, call, image
    <3> QED
      BY <3>1, <3>2, <3>3
  <2>2. CASE TakeItem
    <3>1. toServer' = toServer \/ Send(<<Signal("ack", 0)>>) \/ SendFails
      BY <2>2 DEF TakeItem, Killed
    <3>2. Signal("ack", 0).call.rows = {}
      BY DEF Signal, Frame, Free, Call
    <3> QED
      BY <3>1, <3>2
  <2>3. CASE ReadClicks
    <3> DEFINE x == Frame("request", 0, Call("read", "clicked"), 0, <<>>)
    <3>1. x.call.rows = {}
      BY DEF Frame, Call
    <3>2. Send(<<x>>) \/ SendFails
      BY <1>0, <2>3 DEF ReadClicks
    <3> HIDE DEF x
    <3> QED
      BY <3>1, <3>2
  <2>4. CASE HandleClick
    <3>1. PICK id :
            \/ SendFails
            \/ Send(IF clicked THEN <<Signal("cancel", id)>>
                    ELSE <<Frame("request", 1, Call("put", "v/v/title"), 0, <<>>)>>)
      BY <1>0, <2>4 DEF HandleClick
    <3>2. /\ Signal("cancel", id).call.rows = {}
          /\ Frame("request", 1, Call("put", "v/v/title"), 0, <<>>).call.rows = {}
      BY DEF Call, Frame, Signal, Free
    <3>3. \E x : x.call.rows = {} /\ (Send(<<x>>) \/ SendFails)
      BY <3>1, <3>2
    <3> QED
      BY <3>3
  <2>5. CASE \/ TakeResult \/ LoseConnection \/ Return \/ Proceed \/ Unblock \/ CheckStatus
             \/ SeedChanged \/ Poll \/ HandleClickResult \/ HandleJunk \/ LoseClicks
    BY <2>5 DEF TakeResult, LoseConnection, Return, Proceed, Unblock, CheckStatus, SeedChanged, Poll,
                HandleClickResult, HandleJunk, LoseClicks
  <2> QED
    BY <2>1, <2>2, <2>3, <2>4, <2>5 DEF ScriptStep
<1>6. \A k \in 1 .. Len(toServer') : Drawn(k)'
  BY <1>1, <1>5, DrawnSent DEF ImageInv
<1> QED
  BY <1>2, <1>4, <1>6 DEF ImageInv

ShowInv == CallInv /\ (~IsTool => ImageInv)

LEMMA InitShows == Init => ShowInv
<1> SUFFICES ASSUME Init, ~IsTool PROVE ImageInv
  BY InitCalls DEF ShowInv
<1>1. /\ toServer = <<>> /\ served = <<>> /\ program \in DOMAIN Scripts /\ script \in Scripts[program]
      /\ raster = [r \in Rows |-> 0] /\ undrawn = {} /\ updates = 0
  BY ClientsAssumption DEF Init, InitConnection, InitScript, IsTool
<1>2. Len(<<>>) = 0
  BY None
<1>3. program \in {"display", "watch"} => ImageFirst(script)
  BY <1>1, ScriptOpens
<1> QED
  BY <1>1, <1>2, <1>3 DEF ImageInv, RasterSane

LEMMA StepKeepsShows == ShowInv /\ [Next]_vars => ShowInv'
<1> SUFFICES ASSUME ShowInv, [Next]_vars, ~IsTool PROVE ImageInv'
  BY StepKeepsCalls, ProgramStays DEF ShowInv, IsTool
<1>1. Basic /\ ImageInv /\ program' = program
  BY ProgramStays DEF ShowInv, CallInv
<1>2. ASSUME UNCHANGED <<toServer, served, shown, script>>, Author \/ UNCHANGED authorVars
      PROVE  ImageInv'
  BY <1>1, <1>2, RasterKept DEF ImageInv, Drawn, Written, ImageFirst
<1>3. CASE UNCHANGED vars \/ Rest
  BY <1>2, <1>3 DEF vars, Rest, connVars, sessionVars, answerVars, scriptVars, callVars
<1>4. CASE Drawing
  BY <1>2, <1>4 DEF Drawing, connVars, sessionVars, answerVars, callVars
<1>5. CASE Receive /\ UNCHANGED <<toolVars, scriptVars>>
  BY <1>2, <1>5 DEF Receive, sessionVars, answerVars, scriptVars, callVars
<1>6. CASE ScriptStep /\ Others /\ UNCHANGED <<toolVars, authorVars>>
  BY <1>1, <1>6, ScriptKeepsImage
<1>7. CASE Session \/ StreamError \/ Loss
  <2>1. UNCHANGED scriptVars
    BY <1>7 DEF Session, StreamError, Loss
  <2>2. \/ Serve \/ ServeBadFrame \/ ServeEnd \/ Cut
        \/ \E i \in Ids : TaskData(i) \/ TaskResult(i) \/ StreamFails(i)
    BY <1>7 DEF Session, StreamError, Loss, SessionStep
  <2> QED
    BY <1>1, <2>1, <2>2, SessionKeepsImage
<1> QED
  BY <1>3, <1>4, <1>5, <1>6, <1>7 DEF Next, Program, PingerThread

\* The window that display opens shows the image: write_image, however it
\* divides the rows into frames and whatever is drawn meanwhile, has had every
\* row written before the session opens the window.
THEOREM ImageBeforeWindow == Spec => []WindowShowsImage
<1>1. ShowInv /\ NothingAfterRefusal => WindowShowsImage
  <2> SUFFICES ASSUME ShowInv, NothingAfterRefusal, NEW k \in DOMAIN served,
                      program \in {"display", "watch"},
                      served[k] = [call |-> Call("open", "window"), ok |-> TRUE], NEW r \in Rows
               PROVE  shown[r] # -1
    BY DEF WindowShowsImage
  <2>1. ~IsTool /\ program # "buttonDemo"
    BY DEF IsTool, ToolSet, Printers
  <2>2. InScript = served /\ ImageInv /\ Basic
    BY <2>1 DEF InScript, ShowInv, CallInv
  <2>3. Len(served) \in Nat /\ k \in 1 .. Len(served)
    BY <2>2, SeqWidens DEF Basic
  <2>4. /\ \A j \in 1 .. Len(served) : served[j].call = script[j]
        /\ \A j \in 1 .. Len(served) : j < Len(served) => served[j].ok \/ IsOptional(served[j].call)
    BY <2>2 DEF NothingAfterRefusal, GoesOn
  <2>5. script[k] = Call("open", "window")
    BY <2>3, <2>4
  <2>6. k \in 1 .. Len(script)
    BY <2>2, <2>3, LenProperties DEF NothingAfterRefusal, Basic
  <2>7. PICK j \in 1 .. k - 1 : script[j].op = "pwrite" /\ r \in script[j].rows /\ ~IsOptional(script[j])
    BY <2>2, <2>5, <2>6 DEF ImageInv, ImageFirst
  <2>8. j \in 1 .. Len(served) /\ j < Len(served)
    BY <2>3
  <2>9. served[j].ok /\ served[j].call.op = "pwrite" /\ r \in served[j].call.rows
    BY <2>4, <2>7, <2>8
  <2>10. shown[r] \in Nat
    BY <2>2, <2>8, <2>9 DEF ImageInv, Written
  <2> QED
    BY <2>10
<1> QED
  BY <1>1, InitShows, StepKeepsShows, NothingServedAfterRefusal, PTL DEF Spec

----------------------------------------------------------------------------
(* The types: what is under way, what a task has yet to send, and the      *)
(* window's credit.                                                        *)

Names    == {call.file : call \in AllCalls} \cup {NoFile}
Versions == -1 .. MaxUpdates

\* Id 1 is only that of button-demo's requests to change the title.
FrameFits(f) ==
  /\ f.id \in Ids
  /\ f.type = "request" =>
       /\ f.call \in AllCalls
       /\ f.call.op = "open" => f.fd \in Fds
       /\ f.id = 1 => f.call.op = "put"
       /\ \A r \in f.call.rows : f.image[r] \in Versions

AnswerFits(a) ==
  /\ a.type = "read" => a.id \in Ids
  /\ a.type = "result" => a.value \in {Ok, Refused, Canceled}

FramesFit(s)  == IsSeq(s) /\ \A k \in 1 .. Len(s) : FrameFits(s[k])
AnswersFit(s) == IsSeq(s) /\ \A k \in 1 .. Len(s) : AnswerFits(s[k])

UnderWay == FramesFit(toServer) /\ IsSeq(rcvd) /\ IsSeq(toClient) /\ AnswersFit(Answers)

Points == {"start", "read", "next", "block", "threads", "status", "wait", "clicks", "exited"}
Exits  == {"none", "success", "failure", "abort", "killed", "confused"}

ServedFit == IsSeq(served) /\ \A k \in 1 .. Len(served) : served[k].call.rows \subseteq Rows

Results == {-1, Ok, Refused, Canceled}

Values ==
  /\ program \in Programs /\ window \in Windows
  /\ pc \in Points /\ exit \in Exits /\ result \in Results
  /\ files \in [Fds -> Names] /\ shown \in [Rows -> Versions]

Images ==
  /\ raster \in [Rows -> Versions] /\ updates \in Nat /\ undrawn \subseteq Rows
  /\ undrawn # {} => updates <= MaxUpdates

\* What a task has yet to send belongs to the answer that is being given.
Portions ==
  /\ given \in Nat /\ left \in [Ids -> Nat] /\ box \in [Ids -> AllCalls \cup {Free, Done}]
  /\ given + left[0] <= MaxItems
  /\ left[1] = 0 /\ box[1].op # "read"
  /\ box[0].op # "read" => left[0] = 0

\* How many frames of a type there are in a sequence.
Tally(s, type) == Cardinality({k \in 1 .. Len(s) : s[k].type = type})

\* The window counts the data that has not been acknowledged, and each ack
\* answers data that it counts.
Credit ==
  window # 0 =>
    /\ inFlight \in 0 .. window
    /\ ~ended => Tally(toServer, "ack") + Tally(Answers, "read") <= inFlight

PingsLeft ==
  IF program = "fping"
    THEN /\ count \in Nat /\ pings \in Nat /\ pongs \in Nat /\ NoTask
         /\ \A k \in 1 .. Len(toServer) : toServer[k].type = "ping"
         /\ IF pc = "start" THEN pings = 0 /\ pongs = 0 /\ toServer = <<>> /\ Answers = <<>>
            ELSE pongs + Len(Answers) + Len(toServer) + pings <= count
    ELSE count = 0 /\ pings = 0 /\ pongs = 0

TypesInv == UnderWay /\ ServedFit /\ Values /\ Images /\ Portions /\ Credit /\ PingsLeft

LEMMA TallyIs ==
  ASSUME NEW s, IsSeq(s), NEW type
  PROVE  IsFiniteSet({k \in 1 .. Len(s) : s[k].type = type}) /\ Tally(s, type) \in Nat
<1>1. IsFiniteSet(1 .. Len(s))
  BY SeqWidens, FS_Interval
<1>2. IsFiniteSet({k \in 1 .. Len(s) : s[k].type = type})
  BY <1>1, FS_Subset
<1> QED
  BY <1>2, FS_CardinalityType DEF Tally

\* Nothing of the type is added at the end.
LEMMA TallySame ==
  ASSUME NEW s, IsSeq(s), NEW t, IsSeq(t), NEW type, Len(s) <= Len(t),
         \A k \in 1 .. Len(s) : t[k] = s[k],
         \A k \in Len(s) + 1 .. Len(t) : t[k].type # type
  PROVE  Tally(t, type) = Tally(s, type)
<1>1. Len(s) \in Nat /\ Len(t) \in Nat
  BY SeqWidens
<1>2. {k \in 1 .. Len(s) : s[k].type = type} = {k \in 1 .. Len(t) : t[k].type = type}
  <2>1. ASSUME NEW k \in 1 .. Len(s), s[k].type = type PROVE k \in 1 .. Len(t) /\ t[k].type = type
    BY <1>1, <2>1
  <2>2. ASSUME NEW k \in 1 .. Len(t), t[k].type = type PROVE k \in 1 .. Len(s) /\ s[k].type = type
    <3>1. k \in 1 .. Len(s) \/ k \in Len(s) + 1 .. Len(t)
      BY <1>1
    <3> QED
      BY <2>2, <3>1
  <2> QED
    BY <2>1, <2>2
<1> QED
  BY <1>2 DEF Tally

\* One is added at the end.
LEMMA TallyMore ==
  ASSUME NEW s, IsSeq(s), NEW t, IsSeq(t), NEW type, Len(t) = Len(s) + 1,
         \A k \in 1 .. Len(s) : t[k] = s[k], t[Len(s) + 1].type = type
  PROVE  Tally(t, type) = Tally(s, type) + 1
<1> DEFINE at    == {k \in 1 .. Len(s) : s[k].type = type}
           after == {k \in 1 .. Len(t) : t[k].type = type}
<1>1. Len(s) \in Nat
  BY SeqWidens
<1>2. after = at \cup {Len(s) + 1}
  <2>1. ASSUME NEW k \in after PROVE k \in at \cup {Len(s) + 1}
    <3>1. k \in 1 .. Len(s) \/ k = Len(s) + 1
      BY <1>1
    <3> QED
      BY <3>1
  <2>2. ASSUME NEW k \in at PROVE k \in after
    BY <1>1
  <2>3. Len(s) + 1 \in after
    BY <1>1
  <2> HIDE DEF at, after
  <2> QED
    BY <2>1, <2>2, <2>3
<1>3. Len(s) + 1 \notin at
  BY <1>1
<1>4. IsFiniteSet(at) /\ Tally(s, type) = Cardinality(at) /\ Tally(t, type) = Cardinality(after)
  BY TallyIs DEF Tally
<1> HIDE DEF at, after
<1> QED
  BY <1>2, <1>3, <1>4, FS_AddElement

\* The first one is taken off.
LEMMA TallyTail ==
  ASSUME NEW s, IsSeq(s), NEW t, IsSeq(t), NEW type, Len(s) >= 1, Len(t) = Len(s) - 1,
         \A k \in 1 .. Len(s) - 1 : t[k] = s[k + 1]
  PROVE  Tally(s, type) = Tally(t, type) + (IF s[1].type = type THEN 1 ELSE 0)
<1> DEFINE at    == {k \in 1 .. Len(s) : s[k].type = type}
           after == {k \in 1 .. Len(t) : t[k].type = type}
           rest  == at \ {1}
           f     == [k \in after |-> k + 1]
<1>1. Len(s) \in Nat
  BY SeqWidens
<1>2. IsFiniteSet(at) /\ IsFiniteSet(after) /\ Tally(s, type) = Cardinality(at)
      /\ Tally(t, type) = Cardinality(after)
  BY TallyIs DEF Tally
<1>3. f \in Bijection(after, rest)
  <2>1. ASSUME NEW k \in after PROVE k + 1 \in rest
    <3>1. k \in 1 .. Len(s) - 1 /\ t[k].type = type
      OBVIOUS
    <3>2. k + 1 \in 1 .. Len(s) /\ k + 1 # 1
      BY <1>1, <3>1
    <3> QED
      BY <3>1, <3>2
  <2>2. ASSUME NEW j \in rest PROVE j - 1 \in after /\ j = (j - 1) + 1
    <3>1. j - 1 \in 1 .. Len(s) - 1 /\ j = (j - 1) + 1
      BY <1>1
    <3>2. t[j - 1] = s[j]
      BY <3>1
    <3> QED
      BY <3>1, <3>2
  <2>3. ASSUME NEW j \in after, NEW k \in after, j + 1 = k + 1 PROVE j = k
    BY <2>3
  <2> HIDE DEF after, rest
  <2> QED
    BY <2>1, <2>2, <2>3 DEF Bijection, Injection, Surjection, IsInjective
<1>4. Cardinality(rest) = Cardinality(after)
  <2> HIDE DEF after, rest, f
  <2> QED
    BY <1>2, <1>3, FS_Bijection DEF ExistsBijection
<1>5. 1 \in at <=> s[1].type = type
  BY <1>1
<1>6. Cardinality(rest) = IF 1 \in at THEN Cardinality(at) - 1 ELSE Cardinality(at)
  <2> HIDE DEF at
  <2> QED
    BY <1>2, FS_RemoveElement
<1>7. Cardinality(at) \in Nat
  BY <1>2, FS_CardinalityType
<1> HIDE DEF at, after, rest
<1> QED
  BY <1>2, <1>4, <1>5, <1>6, <1>7

----------------------------------------------------------------------------
(* What the scripts write lies in the image.                               *)

RowsFit(s) == IsSeq(s) /\ \A k \in 1 .. Len(s) : s[k].rows \subseteq Rows

LEMMA JoinedFit ==
  ASSUME NEW s, RowsFit(s), NEW t, RowsFit(t)
  PROVE  RowsFit(s \o t)
<1>1. IsSeq(s) /\ IsSeq(t) /\ IsSeq(s \o t)
  BY Joined DEF RowsFit
<1>2. ASSUME NEW k \in 1 .. Len(s \o t) PROVE (s \o t)[k].rows \subseteq Rows
  BY <1>1, EitherPart DEF RowsFit
<1> QED
  BY <1>1, <1>2 DEF RowsFit

LEMMA CallsFit ==
  ASSUME NEW names, IsSeq(names)
  PROVE  /\ RowsFit(Opens(names)) /\ RowsFit(Puts(names)) /\ RowsFit(Links(names))
         /\ \A s \in PutsOrNone(names) : RowsFit(s)
<1>1. IsSeq(Opens(names)) /\ IsSeq(Puts(names)) /\ IsSeq(Links(names))
  BY CallsAre
<1>2. /\ DOMAIN Opens(names) = DOMAIN names /\ DOMAIN Puts(names) = DOMAIN names
      /\ DOMAIN Links(names) = DOMAIN names
  BY DEF Opens, Puts, Links
<1>3. /\ 1 .. Len(Opens(names)) = DOMAIN names /\ 1 .. Len(Puts(names)) = DOMAIN names
      /\ 1 .. Len(Links(names)) = DOMAIN names
  BY <1>1, <1>2, SeqWidens
<1>4. RowsFit(Opens(names)) /\ RowsFit(Puts(names)) /\ RowsFit(Links(names))
  BY <1>1, <1>3 DEF RowsFit, Opens, Puts, Links, Call
<1>5. RowsFit(<<>>)
  BY None DEF RowsFit
<1> QED
  BY <1>4, <1>5 DEF PutsOrNone

\* The whole chunks end before the image does.
LEMMA ChunksEnd ==
  FullChunks \in Nat /\ FullChunks * ChunkRows < Height
<1> DEFINE n == FullChunks  c == ChunkRows
           full == {k \in 0 .. Height : k * c < Height - c}
<1>1. Height \in Nat /\ Height > 0 /\ c \in Nat /\ c > 0 /\ n \in Nat
  BY ConnectionAssumption, SyncedAssumption, ChunksAre
<1>2. IsFiniteSet(full) /\ n = Cardinality(full)
  <2>1. IsFiniteSet(0 .. Height)
    BY <1>1, FS_Interval
  <2> QED
    BY <2>1, FS_Subset DEF FullChunks
<1>3. CASE n = 0
  BY <1>1, <1>3
<1>4. CASE n # 0
  <2>1. n - 1 \in full
    <3> SUFFICES ASSUME n - 1 \notin full PROVE FALSE
      OBVIOUS
    <3>1. full \subseteq 0 .. n - 2
      <4> SUFFICES ASSUME NEW k \in full, k >= n - 1 PROVE FALSE
        BY <1>1
      <4>1. k \in Nat /\ k <= Height /\ k * c < Height - c /\ n - 1 \in Nat
        BY <1>1, <1>4
      <4>2. (n - 1) * c <= k * c
        <5>1. PICK d \in Nat : k = n - 1 + d
          <6>1. k - (n - 1) \in Nat /\ k = n - 1 + (k - (n - 1))
            BY <4>1
          <6> QED
            BY <6>1
        <5>2. k * c = (n - 1) * c + d * c /\ d * c >= 0 /\ (n - 1) * c \in Int
          BY <1>1, <4>1, <5>1
        <5> QED
          BY <1>1, <4>1, <5>2
      <4>3. (n - 1) * c \in Int /\ k * c \in Int
        BY <1>1, <4>1
      <4>4. (n - 1) * c < Height - c
        BY <1>1, <4>1, <4>2, <4>3
      <4>5. n - 1 \in 0 .. Height
        BY <1>1, <4>1
      <4> QED
        BY <4>4, <4>5
    <3>2. IsFiniteSet(0 .. n - 2) /\ Cardinality(0 .. n - 2) = n - 1
      <4>1. Cardinality(0 .. n - 2) = IF 0 > n - 2 THEN 0 ELSE n - 2 - 0 + 1
        BY <1>1, FS_Interval
      <4> QED
        BY <1>1, <1>4, <4>1, FS_Interval
    <3> HIDE DEF full, n
    <3>3. Cardinality(full) <= n - 1
      BY <3>1, <3>2, FS_Subset, ZenonT(30)
    <3> QED
      BY <1>1, <1>2, <3>3
  <2>2. (n - 1) * c < Height - c
    BY <2>1
  <2>3. n * c = (n - 1) * c + c /\ (n - 1) * c \in Int
    BY <1>1
  <2> QED
    BY <1>1, <2>2, <2>3
<1> QED
  BY <1>1, <1>3, <1>4

LEMMA WriteImageFits == RowsFit(WriteImage)
<1> DEFINE n == FullChunks  c == ChunkRows
           Nth(k) == Chunk((k - 1) * c, k * c - 1)
           made   == {Nth(k) : k \in 1 .. n}
           chunks == [k \in 1 .. n |-> Nth(k)]
           rest   == IF n * c < Height THEN <<Chunk(n * c, Height - 1)>> ELSE <<>>
<1>1. Height \in Nat /\ c \in Nat /\ c > 0 /\ n \in Nat /\ n * c < Height
  BY ConnectionAssumption, SyncedAssumption, ChunksEnd
<1>2. ASSUME NEW first \in Nat, NEW last \in Int, last < Height
      PROVE  Chunk(first, last).rows \subseteq Rows
  <2>1. ASSUME NEW r \in first .. last PROVE r \in 0 .. Height - 1
    BY <1>1, <1>2
  <2> QED
    BY <2>1 DEF Chunk, Rows
<1>3. ASSUME NEW k \in 1 .. n PROVE Nth(k).rows \subseteq Rows
  <2>1. k \in Nat /\ k - 1 \in Nat /\ n - k \in Nat
    BY <1>1
  <2>2. (k - 1) * c \in Nat /\ k * c - 1 \in Int
    BY <1>1, <2>1
  <2>3. n * c = k * c + (n - k) * c /\ (n - k) * c >= 0 /\ k * c \in Int
    BY <1>1, <2>1
  <2>4. k * c - 1 < Height
    BY <1>1, <2>3
  <2> QED
    BY <1>2, <2>2, <2>4
<1>4. RowsFit(chunks)
  <2> HIDE DEF Nth
  <2>1. chunks \in [1 .. n -> made]
    OBVIOUS
  <2>2. \A k \in 1 .. n : chunks[k].rows \subseteq Rows
    BY <1>3
  <2> HIDE DEF made, chunks
  <2>3. chunks \in Seq(made)
    BY <1>1, <2>1, SeqDef
  <2>4. IsSeq(chunks)
    BY <2>3, SeqOfAny
  <2>5. 1 .. Len(chunks) = 1 .. n
    BY <2>1, <2>4, SeqWidens
  <2> QED
    BY <2>2, <2>4, <2>5 DEF RowsFit
<1>5. RowsFit(rest)
  <2> DEFINE last == Chunk(n * c, Height - 1)  one == <<last>>
  <2>1. n * c \in Nat /\ Height - 1 \in Int /\ Height - 1 < Height
    BY <1>1
  <2>2. last.rows \subseteq Rows
    BY <1>2, <2>1
  <2> HIDE DEF last
  <2>3. IsSeq(one) /\ Len(one) = 1 /\ one[1] = last
    BY One
  <2>4. rest = one
    BY <1>1 DEF last
  <2>5. \A k \in 1 .. Len(one) : one[k].rows \subseteq Rows
    BY <2>2, <2>3
  <2>6. RowsFit(one)
    BY <2>3, <2>5, Zenon DEF RowsFit
  <2> HIDE DEF one, rest
  <2> QED
    BY <2>4, <2>6, Zenon
<1>6. WriteImage = chunks \o rest
  BY DEF WriteImage
<1> HIDE DEF chunks, rest
<1> QED
  BY <1>4, <1>5, <1>6, JoinedFit

LEMMA DisplayFits ==
  ASSUME NEW format, RowsFit(format), NEW named, RowsFit(named)
  PROVE  RowsFit(Display(format, named))
<1>1. /\ IsSeq(<<"lock">>) /\ IsSeq(<<"view">>) /\ IsSeq(<<"window">>)
      /\ IsSeq(<<"compositing", "procid", ".~size", "v/.~size">>)
  BY DEF IsSeq
<1> QED
  BY <1>1, CallsFit, JoinedFit, WriteImageFits DEF Display

LEMMA ScriptFits ==
  ASSUME NEW p \in DOMAIN Scripts, NEW s \in Scripts[p]
  PROVE  RowsFit(s)
<1>1. CASE p = "fset"
  <2>1. IsSeq(<<"f">>)
    BY DEF IsSeq
  <2> QED
    BY <1>1, <2>1, CallsFit DEF Scripts
<1>2. CASE p = "library"
  <2>1. RowsFit(Library)
    <3>1. IsSeq(Library)
      BY DEF IsSeq, Library
    <3>2. \A k \in 1 .. Len(Library) : Library[k].rows \subseteq Rows
      BY DEF Library, Call
    <3> QED
      BY <3>1, <3>2 DEF RowsFit
  <2> QED
    BY <1>2, <2>1 DEF Scripts
<1>3. CASE p = "aboutForge"
  <2>1. /\ IsSeq(<<"lock">>) /\ IsSeq(<<"procid", ".~title", "size">>)
        /\ IsSeq(<<"view", "v/icon/view", "v/main/view">>)
        /\ IsSeq(<<"v/icon/v/width", "v/icon/v/height", "v/icon/v/.margin-top",
             "v/icon/v/.margin-left", "v/icon/v/.margin-right", "v/main/v/.margin-top",
             "v/main/v/.margin-right", "v/main/v/.margin-left">>)
        /\ IsSeq(<<"v/icon/v/view", "v/main/v/view">>)
        /\ IsSeq(<<"v/icon/v/v/data", "v/main/v/v/text", "v/icon/v/v/disabling",
             "v/main/v/v/disabling", "vis">>)
        /\ IsSeq(<<"window">>) /\ IsSeq(<<"w/text-font", "w/vis">>)
    BY DEF IsSeq
  <2>2. RowsFit(AboutForge)
    BY <2>1, CallsFit, JoinedFit DEF AboutForge
  <2> QED
    BY <1>3, <2>2 DEF Scripts
<1>4. CASE p = "forgeTest"
  <2>1. /\ IsSeq(<<"lock", "window">>) /\ IsSeq(<<"w/.~title">>)
        /\ IsSeq(<<"view", "v/view">>) /\ IsSeq(<<"v/padding", "v/v/text">>)
    BY DEF IsSeq
  <2>2. RowsFit(ForgeTest)
    BY <2>1, CallsFit, JoinedFit DEF ForgeTest
  <2> QED
    BY <1>4, <2>2 DEF Scripts
<1>5. CASE p = "buttonDemo"
  <2>1. /\ IsSeq(<<"lock">>) /\ IsSeq(<<".~title">>)
        /\ IsSeq(<<"view", "v/view">>)
        /\ IsSeq(<<"v/height", "v/padding", "v/v/title">>)
        /\ IsSeq(<<"window">>)
    BY DEF IsSeq
  <2>2. RowsFit(ButtonDemo)
    BY <2>1, CallsFit, JoinedFit DEF ButtonDemo
  <2> QED
    BY <1>5, <2>2 DEF Scripts
<1>6. CASE p = "interact"
  <2>1. /\ IsSeq(<<"lock">>) /\ IsSeq(<<"window">>) /\ IsSeq(<<".~title">>)
        /\ IsSeq(<<"view", "v/events/view", "v/raster/view">>)
        /\ IsSeq(<<"compositing", "procid", ".~size", "r/.~size">>)
        /\ IsSeq(<<"r/.~alpha-last", "r/.~little-endian", "r/.~depth", "r/.~grayscale",
             "r/.~stride">>)
    BY DEF IsSeq
  <2>2. ASSUME NEW format, RowsFit(format), NEW named, RowsFit(named)
        PROVE  RowsFit(Interact(format, named))
    BY <2>1, <2>2, CallsFit, JoinedFit DEF Interact
  <2>3. s \in Interacts
    BY <1>6 DEF Scripts
  <2> QED
    BY <2>1, <2>2, <2>3, CallsFit DEF Interacts
<1>7. CASE p = "display"
  <2>1. /\ IsSeq(<<".~title">>) /\ IsSeq(<<"v/.~alpha-last">>)
        /\ IsSeq(<<"v/.~little-endian">>)
        /\ IsSeq(<<"v/.~depth", "v/.~grayscale", "v/.~stride">>)
    BY DEF IsSeq
  <2>2. ASSUME NEW alpha, RowsFit(alpha), NEW little, RowsFit(little)
        PROVE  RowsFit(Format(alpha, little))
    BY <2>1, <2>2, CallsFit, JoinedFit DEF Format
  <2>3. \A format \in {<<>>} \cup Formats : RowsFit(format)
    <3>1. RowsFit(<<>>)
      BY None DEF RowsFit
    <3> QED
      BY <2>1, <2>2, <3>1, CallsFit DEF Formats
  <2>4. s \in Displays
    BY <1>7 DEF Scripts
  <2> QED
    BY <2>1, <2>3, <2>4, CallsFit, DisplayFits DEF Displays
<1>8. CASE p = "watch"
  <2>1. RowsFit(<<>>)
    BY None DEF RowsFit
  <2> QED
    BY <1>8, <2>1, DisplayFits DEF Scripts
<1> QED
  BY <1>1, <1>2, <1>3, <1>4, <1>5, <1>6, <1>7, <1>8 DEF Scripts

LEMMA AllCallsFit ==
  /\ Made \subseteq AllCalls
  /\ \A call \in AllCalls : call.rows \subseteq Rows
<1>1. ASSUME NEW call \in Made PROVE call.rows \subseteq Rows
  <2>1. PICK s \in {WriteImage} \cup UNION {Scripts[p] : p \in DOMAIN Scripts} :
          \E k \in DOMAIN s : call = s[k]
    BY DEF Made, CallsOf
  <2>2. RowsFit(s)
    BY <2>1, WriteImageFits, ScriptFits
  <2>3. DOMAIN s = 1 .. Len(s)
    BY <2>2, SeqWidens DEF RowsFit
  <2> QED
    BY <2>1, <2>2, <2>3 DEF RowsFit
<1>2. ASSUME NEW op, NEW file PROVE Call(op, file).rows \subseteq Rows
  BY DEF Call
<1> QED
  BY <1>1, <1>2 DEF AllCalls

----------------------------------------------------------------------------
(* What the program does.                                                  *)

\* A step of the program: it makes a call, acknowledges data or cancels, and it
\* takes the next answer or, when there is none, a new receiver.
Sends(f) ==
  /\ FrameFits(f) /\ (Send(<<f>>) \/ SendFails)
  /\ f.type = "ack" => rcvd # <<>> /\ rcvd' = Tail(rcvd) /\ Head(rcvd).type = "read"

Advances ==
  /\ pc' \in Points /\ exit' \in Exits /\ result' \in Results
  /\ \/ rcvd' = rcvd
     \/ rcvd # <<>> /\ rcvd' = Tail(rcvd)
     \/ rcvd' = <<>> /\ (~ended => Answers = <<>>)
  /\ toServer' = toServer \/ \E f : Sends(f)

LEMMA HeadFits ==
  ASSUME UnderWay, rcvd # <<>>
  PROVE  AnswerFits(Head(rcvd))
<1>1. Len(Answers) >= 1 /\ Head(rcvd) = Answers[1] /\ Len(Answers) \in Nat
  BY AnswersAre DEF UnderWay
<1> QED
  BY <1>1 DEF UnderWay, AnswersFit

LEMMA ToolAdvances ==
  ASSUME UnderWay, Values, IsTool, ToolStep \/ Pinger
  PROVE  Advances
<1>0. pc \in Points /\ exit \in Exits /\ result \in Results
  BY DEF Values
<1>1. ASSUME NEW status, status \in Exits, Exit(status) PROVE pc' \in Points /\ exit' \in Exits
  BY <1>1 DEF Exit, Points
<1>2. ASSUME Killed PROVE Advances
  <2>1. Exit("killed") /\ result' = result /\ rcvd' = rcvd /\ toServer' = toServer
    BY <1>2 DEF Killed
  <2> QED
    BY <1>0, <1>1, <2>1 DEF Advances, Exits
<1>3. CASE SendRequest
  <2> DEFINE f == Frame("request", 0, Call(Asks[program], "file"), 0, <<>>)
  <2>1. program \in Printers
    BY <1>3 DEF SendRequest
  <2>2. FrameFits(f) /\ f.type # "ack"
    <3>1. Call(Asks[program], "file") \in AllCalls
      BY <2>1 DEF AllCalls
    <3>2. Asks[program] # "open"
      BY <2>1 DEF Asks, Printers
    <3>3. f.id = 0 /\ f.call = Call(Asks[program], "file") /\ f.type = "request"
      BY DEF Frame
    <3> HIDE DEF f
    <3>4. ASSUME NEW op, op # "open", f.call = Call(op, "file")
          PROVE  f.call.op # "open" /\ f.call.rows = {}
      BY <3>4 DEF Call
    <3>5. f.call.op # "open" /\ f.call.rows = {}
      BY <3>2, <3>3, <3>4
    <3> QED
      BY <3>1, <3>3, <3>5 DEF FrameFits, Ids
  <2>3. ((Send(<<f>>) \/ SendFails) /\ pc' = "read" /\ UNCHANGED <<exit, result, rcvd>>) \/ Killed
    BY <1>3 DEF SendRequest
  <2> HIDE DEF f
  <2> QED
    BY <1>0, <1>2, <2>2, <2>3 DEF Advances, Sends, Points
<1>4. CASE HandleItem
  <2> DEFINE f == Signal("ack", 0)
  <2>1. rcvd # <<>> /\ Head(rcvd).type = Asks[program] /\ program \in Printers
    BY <1>4 DEF HandleItem
  <2>2. FrameFits(f) /\ f.type = "ack"
    BY DEF Signal, Frame, FrameFits, Ids
  <2>3. program = "fcat" => Asks[program] = "read"
    BY DEF Asks, Printers
  <2>4. \/ /\ IF program = "fcat" THEN Send(<<f>>) \/ SendFails ELSE toServer' = toServer
           /\ rcvd' = Tail(rcvd) /\ UNCHANGED <<pc, exit, result>>
        \/ Killed
    BY <1>4 DEF HandleItem
  <2> HIDE DEF f
  <2> QED
    BY <1>0, <1>2, <2>1, <2>2, <2>3, <2>4 DEF Advances, Sends
<1>5. CASE HandleResult
  <2>1. /\ rcvd # <<>> /\ Head(rcvd).type = "result" /\ result' = Head(rcvd).value
        /\ rcvd' = Tail(rcvd) /\ UNCHANGED <<pc, exit, toServer>>
    BY <1>5 DEF HandleResult
  <2>2. result' \in Results
    BY <2>1, HeadFits DEF AnswerFits, Results
  <2> QED
    BY <1>0, <2>1, <2>2 DEF Advances
<1>6. CASE Finish \/ FinishPings
  <2>1. /\ Exit("success") \/ Exit("failure")
        /\ UNCHANGED <<result, rcvd, toServer>>
    BY <1>6 DEF Finish, FinishPings
  <2> QED
    BY <1>0, <1>1, <2>1 DEF Advances, Exits
<1>7. CASE StartThreads
  BY <1>0, <1>7 DEF StartThreads, Advances, Points
<1>8. CASE HandlePong
  BY <1>0, <1>8 DEF HandlePong, Advances
<1>9. CASE Pinger
  <2> DEFINE f == Signal("ping", 0)
  <2>1. FrameFits(f) /\ f.type # "ack"
    BY DEF Signal, Frame, FrameFits, Ids
  <2>2. \/ (Send(<<f>>) \/ SendFails) /\ UNCHANGED <<pc, exit, result, rcvd>>
        \/ Killed
    BY <1>9 DEF Pinger, SendPing
  <2> HIDE DEF f
  <2> QED
    BY <1>0, <1>2, <2>1, <2>2 DEF Advances, Sends
<1> QED
  BY <1>3, <1>4, <1>5, <1>6, <1>7, <1>8, <1>9 DEF ToolStep

\* The descriptors of the files that the scripts open are 3 and 4.
LEMMA NextFits ==
  ASSUME Descriptors, pc = "next", step < Len(script), step \in Nat, Len(script) \in Nat,
         script[step + 1].op = "open"
  PROVE  nextFd \in Fds
<1>1. PICK a, b \in Nat :
        /\ \A k \in 1 .. Len(script) : script[k].op = "open" => k \in {a, b}
        /\ nextFd <= 3 + (IF a <= CallsMade THEN 1 ELSE 0) + (IF b <= CallsMade THEN 1 ELSE 0)
  BY DEF Descriptors
<1>2. CallsMade = step
  BY DEF CallsMade
<1>3. step + 1 \in {a, b}
  BY <1>1
<1>4. ~(a <= step) \/ ~(b <= step)
  BY <1>3
<1>5. nextFd <= 4 /\ nextFd \in Nat
  BY <1>1, <1>2, <1>4 DEF Descriptors
<1>6. MaxFd \in Nat /\ MaxFd >= 4
  BY ConnectionAssumption, SyncedAssumption
<1> QED
  BY <1>5, <1>6 DEF Fds

LEMMA CallAdvances ==
  ASSUME FilesInv, UnderWay, Values, Images, ~IsTool, MakeCall
  PROVE  Advances
<1>0. pc \in Points /\ exit \in Exits /\ result \in Results
  BY DEF Values
<1> DEFINE call  == script[step + 1]
           image == [r \in call.rows |-> raster[r]]
           f     == Frame("request", 0, call, Descriptor(call), image)
<1>1. Basic /\ Phase /\ (~ended => Descriptors)
  BY DEF FilesInv, AnswerInv, CallInv, TableSane
<1>2. pc = "next" /\ step < Len(script) /\ step \in Nat /\ Len(script) \in Nat /\ call \in Made
  <2>1. pc = "next" /\ step < Len(script)
    BY DEF MakeCall
  <2>2. script \in Seq(Made) /\ step \in 0 .. Len(script) /\ Len(script) \in Nat
    BY <1>1, LenProperties DEF Basic
  <2>3. step + 1 \in 1 .. Len(script)
    BY <2>1, <2>2
  <2> QED
    BY <2>1, <2>2, <2>3, ElementOfSeq
<1>3. \/ /\ Send(<<f>>) \/ SendFails
         /\ rcvd' = <<>> /\ result' = -1 /\ pc' = "read" /\ exit' = exit
      \/ Killed
  BY DEF MakeCall
<1>4. CASE Killed
  BY <1>0, <1>4 DEF Killed, Exit, Advances, Points, Exits
<1>5. CASE ~ended /\ ~Killed
  <2>1. Answers = <<>>
    BY <1>1, <1>2, <1>5 DEF Phase, Idle, Asked, Working, Answered, Beyond, CutOff
  <2>2. /\ f.type = "request" /\ f.id = 0 /\ f.call = call /\ f.fd = Descriptor(call) /\ f.image = image
    BY DEF Frame
  <2>3. call \in AllCalls /\ call.rows \subseteq Rows
    BY <1>2, AllCallsFit
  <2>4. \A r \in call.rows : image[r] \in Versions
    BY <2>3 DEF Images
  <2>5. call.op = "open" => Descriptor(call) \in Fds
    <3>1. call.op = "open" => Descriptor(call) = nextFd
      BY DEF Descriptor
    <3> QED
      BY <1>1, <1>2, <1>5, <3>1, NextFits
  <2> HIDE DEF call, image, f
  <2>6. FrameFits(f)
    BY <2>2, <2>3, <2>4, <2>5 DEF FrameFits, Ids
  <2>7. Sends(f)
    BY <1>3, <1>5, <2>2, <2>6 DEF Sends
  <2> QED
    BY <1>0, <1>3, <1>5, <2>1, <2>7 DEF Advances, Points, Results
<1>6. CASE ended /\ ~Killed
  <2>1. toServer' = toServer
    BY <1>3, <1>6 DEF Send, SendFails
  <2> HIDE DEF f
  <2> QED
    BY <1>0, <1>3, <1>6, <2>1 DEF Advances, Points, Results
<1> QED
  BY <1>4, <1>5, <1>6

LEMMA ScriptAdvances ==
  ASSUME FilesInv, UnderWay, Values, Images, ~IsTool, ScriptStep
  PROVE  Advances
<1>0. pc \in Points /\ exit \in Exits /\ result \in Results
  BY DEF Values
<1>1. ASSUME NEW status, status \in Exits, Exit(status) PROVE pc' \in Points /\ exit' \in Exits
  BY <1>1 DEF Exit, Points
<1>2. ASSUME Killed PROVE Advances
  <2>1. Exit("killed") /\ result' = result /\ rcvd' = rcvd /\ toServer' = toServer
    BY <1>2 DEF Killed
  <2> QED
    BY <1>0, <1>1, <2>1 DEF Advances, Exits
<1>3. CASE TakeItem
  <2> DEFINE f == Signal("ack", 0)
  <2>1. rcvd # <<>>
    BY <1>3 DEF TakeItem, Waiting
  <2>2. FrameFits(f) /\ f.type = "ack"
    BY DEF Signal, Frame, FrameFits, Ids
  <2>3. \/ /\ IF Head(rcvd).type = "read" THEN Send(<<f>>) \/ SendFails ELSE toServer' = toServer
           /\ rcvd' = Tail(rcvd) /\ UNCHANGED <<pc, exit, result>>
        \/ Killed
    BY <1>3 DEF TakeItem
  <2> HIDE DEF f
  <2> QED
    BY <1>0, <1>2, <2>1, <2>2, <2>3 DEF Advances, Sends
<1>4. CASE TakeResult
  <2>1. /\ rcvd # <<>> /\ Head(rcvd).type = "result" /\ result' = Head(rcvd).value
        /\ rcvd' = Tail(rcvd) /\ toServer' = toServer
        /\ (pc' = "next" /\ exit' = exit) \/ Exit("success") \/ Exit("failure")
    BY <1>4 DEF TakeResult, Waiting
  <2>2. result' \in Results
    BY <2>1, HeadFits DEF AnswerFits, Results
  <2> QED
    BY <1>0, <1>1, <2>1, <2>2 DEF Advances, Points, Exits
<1>5. CASE LoseConnection
  <2>1. /\ UNCHANGED <<result, rcvd, toServer>>
        /\ (pc' = "next" /\ exit' = exit) \/ Exit("abort")
    BY <1>5 DEF LoseConnection
  <2> QED
    BY <1>0, <1>1, <2>1 DEF Advances, Points, Exits
<1>6. CASE Return \/ Unblock \/ CheckStatus \/ LoseClicks \/ HandleJunk
  <2>1. /\ UNCHANGED <<result, rcvd, toServer>>
        /\ \/ pc' = "wait" /\ exit' = exit
           \/ Exit("success") \/ Exit("failure") \/ Exit("confused")
    BY <1>6 DEF Return, Unblock, CheckStatus, LoseClicks, HandleJunk
  <2> QED
    BY <1>0, <1>1, <2>1 DEF Advances, Points, Exits
<1>7. CASE Proceed \/ SeedChanged \/ Poll
  BY <1>0, <1>7 DEF Proceed, SeedChanged, Poll, Advances, Points, clientVars
<1>8. CASE ReadClicks
  <2> DEFINE f == Frame("request", 0, Call("read", "clicked"), 0, <<>>)
  <2>1. FrameFits(f) /\ f.type # "ack"
    <3>1. /\ f.type = "request" /\ f.id = 0 /\ f.call = Call("read", "clicked")
      BY DEF Frame
    <3>2. f.call \in AllCalls /\ f.call.op # "open" /\ f.call.rows = {}
      BY <3>1 DEF AllCalls, Call
    <3> HIDE DEF f
    <3> QED
      BY <3>1, <3>2 DEF FrameFits, Ids
  <2>2. \/ (Send(<<f>>) \/ SendFails) /\ rcvd' = <<>> /\ pc' = "clicks" /\ UNCHANGED <<exit, result>>
        \/ Killed
    BY <1>8 DEF ReadClicks
  <2>3. ~ended => Answers = <<>>
    <3>1. pc = "next"
      BY <1>8 DEF ReadClicks, AtScriptEnd
    <3> QED
      BY <3>1 DEF FilesInv, AnswerInv, CallInv, Phase, Idle, Asked, Working, Answered, Beyond, CutOff
  <2> HIDE DEF f
  <2> QED
    BY <1>0, <1>2, <2>1, <2>2, <2>3 DEF Advances, Sends, Points
<1>9. CASE HandleClick
  <2> DEFINE f == Signal("cancel", Head(rcvd).id)
             g == Frame("request", 1, Call("put", "v/v/title"), 0, <<>>)
  <2>1. rcvd # <<>> /\ Head(rcvd).type = "read"
    BY <1>9 DEF HandleClick, Clicks
  <2>2. FrameFits(f) /\ f.type # "ack"
    <3>1. Head(rcvd).id \in Ids
      BY <2>1, HeadFits DEF AnswerFits
    <3> QED
      BY <3>1 DEF Signal, Frame, FrameFits
  <2>3. FrameFits(g) /\ g.type # "ack"
    <3>1. /\ g.type = "request" /\ g.id = 1 /\ g.call = Call("put", "v/v/title")
      BY DEF Frame
    <3>2. g.call \in AllCalls /\ g.call.op = "put" /\ g.call.rows = {}
      BY <3>1 DEF AllCalls, Call
    <3> HIDE DEF g
    <3> QED
      BY <3>1, <3>2 DEF FrameFits, Ids
  <2>4. \/ /\ SendFails \/ Send(IF clicked THEN <<f>> ELSE <<g>>)
           /\ rcvd' = Tail(rcvd) /\ UNCHANGED <<pc, exit, result>>
        \/ Killed
    BY <1>9 DEF HandleClick
  <2> HIDE DEF f, g
  <2>5. SendFails \/ Send(IF clicked THEN <<f>> ELSE <<g>>) => \E h : Sends(h)
    BY <2>2, <2>3 DEF Sends
  <2> QED
    BY <1>0, <1>2, <2>1, <2>4, <2>5 DEF Advances
<1>10. CASE HandleClickResult
  <2>1. /\ rcvd # <<>> /\ Head(rcvd).type = "result" /\ result' = Head(rcvd).value
        /\ rcvd' = Tail(rcvd) /\ toServer' = toServer
        /\ UNCHANGED <<pc, exit>> \/ Exit("success") \/ Exit("failure")
    BY <1>10 DEF HandleClickResult, Clicks
  <2>2. result' \in Results
    BY <2>1, HeadFits DEF AnswerFits, Results
  <2> QED
    BY <1>0, <1>1, <2>1, <2>2 DEF Advances, Exits
<1> QED
  BY <1>3, <1>4, <1>5, <1>6, <1>7, <1>8, <1>9, <1>10, CallAdvances DEF ScriptStep

----------------------------------------------------------------------------
(* The steps keep the types.                                               *)

LEMMA FramesSent ==
  ASSUME FramesFit(toServer), NEW f, FrameFits(f), Send(<<f>>) \/ SendFails
  PROVE  /\ FramesFit(toServer')
         /\ ~ended => Tally(toServer', "ack") =
                        Tally(toServer, "ack") + (IF f.type = "ack" THEN 1 ELSE 0)
<1>1. IsSeq(toServer) /\ Len(toServer) \in Nat /\ Tally(toServer, "ack") \in Nat
  BY SeqWidens, TallyIs DEF FramesFit
<1>2. CASE ended
  <2>1. toServer' = toServer
    BY <1>2 DEF Send, SendFails
  <2> QED
    BY <1>2, <2>1
<1>3. CASE ~ended
  <2>1. /\ IsSeq(toServer')
        /\ Len(toServer') = Len(toServer) + 1 /\ toServer'[Len(toServer) + 1] = f
        /\ \A k \in 1 .. Len(toServer) : toServer'[k] = toServer[k]
    BY <1>1, <1>3, Sent
  <2>2. \A k \in 1 .. Len(toServer') : k \in 1 .. Len(toServer) \/ k = Len(toServer) + 1
    BY <1>1, <2>1
  <2>3. FramesFit(toServer')
    BY <2>1, <2>2 DEF FramesFit
  <2>4. CASE f.type = "ack"
    <3>1. Tally(toServer', "ack") = Tally(toServer, "ack") + 1
      BY <1>1, <2>1, <2>4, TallyMore
    <3> QED
      BY <2>3, <2>4, <3>1
  <2>5. CASE f.type # "ack"
    <3>1. \A k \in Len(toServer) + 1 .. Len(toServer') : toServer'[k].type # "ack"
      <4>1. \A k \in Len(toServer) + 1 .. Len(toServer') : k = Len(toServer) + 1
        BY <1>1, <2>1
      <4> QED
        BY <2>1, <2>5, <4>1
    <3>2. Len(toServer) <= Len(toServer')
      BY <1>1, <2>1
    <3>3. Tally(toServer', "ack") = Tally(toServer, "ack")
      BY <1>1, <2>1, <3>1, <3>2, TallySame
    <3> QED
      BY <1>1, <2>3, <2>5, <3>3
  <2> QED
    BY <2>4, <2>5
<1> QED
  BY <1>2, <1>3

LEMMA AnswersFewer ==
  ASSUME UnderWay, rcvd # <<>>, rcvd' = Tail(rcvd), toClient' = toClient
  PROVE  /\ IsSeq(rcvd') /\ AnswersFit(Answers')
         /\ Tally(Answers, "read") =
              Tally(Answers', "read") + (IF Head(rcvd).type = "read" THEN 1 ELSE 0)
<1>1. IsSeq(rcvd) /\ IsSeq(toClient) /\ AnswersFit(Answers)
  BY DEF UnderWay
<1>2. /\ IsSeq(rcvd') /\ Len(Answers') = Len(Answers) - 1
      /\ \A k \in 1 .. Len(Answers) - 1 : Answers'[k] = Answers[k + 1]
  BY <1>1, AnswerTaken
<1>3. /\ IsSeq(Answers) /\ Len(Answers) \in Nat /\ Len(Answers) >= 1 /\ Head(rcvd) = Answers[1]
  BY <1>1, AnswersAre
<1>4. IsSeq(Answers')
  BY <1>1, <1>2, Joined DEF Answers
<1>5. \A k \in 1 .. Len(Answers') : k \in 1 .. Len(Answers) - 1 /\ k + 1 \in 1 .. Len(Answers)
  BY <1>2, <1>3
<1>6. AnswersFit(Answers')
  BY <1>1, <1>2, <1>4, <1>5 DEF AnswersFit
<1>7. Tally(Answers, "read") = Tally(Answers', "read") + (IF Answers[1].type = "read" THEN 1 ELSE 0)
  <2>1. ASSUME NEW s, IsSeq(s), NEW t, IsSeq(t), Len(s) >= 1, Len(t) = Len(s) - 1,
               \A k \in 1 .. Len(s) - 1 : t[k] = s[k + 1]
        PROVE  Tally(s, "read") = Tally(t, "read") + (IF s[1].type = "read" THEN 1 ELSE 0)
    BY <2>1, TallyTail
  <2> QED
    BY <1>2, <1>3, <1>4, <2>1
<1> QED
  BY <1>2, <1>3, <1>6, <1>7

LEMMA AdvanceKeeps ==
  ASSUME UnderWay, Values, Images, Portions, ServedFit, Credit, Advances, Others,
         UNCHANGED <<program, authorVars>>
  PROVE  UnderWay' /\ Values' /\ Images' /\ Portions' /\ ServedFit' /\ Credit'
<1>1. UNCHANGED <<toClient, window, ended, inFlight, box, left, given, files, shown, served>>
  BY DEF Others, sessionVars, answerVars
<1>2. Values' /\ Images' /\ Portions' /\ ServedFit'
  BY <1>1 DEF Advances, Values, Images, authorVars, Portions, ServedFit
<1>3. /\ IsSeq(rcvd) /\ IsSeq(toClient) /\ AnswersFit(Answers) /\ FramesFit(toServer)
      /\ IsSeq(Answers) /\ IsSeq(toServer)
  BY Joined DEF UnderWay, Answers, FramesFit
<1>4. Tally(toServer, "ack") \in Nat /\ Tally(Answers, "read") \in Nat
  BY <1>3, TallyIs
<1>5. /\ IsSeq(rcvd') /\ AnswersFit(Answers')
      /\ ~ended => Tally(Answers', "read") \in Nat /\ Tally(Answers', "read") <= Tally(Answers, "read")
  <2>1. CASE rcvd' = rcvd
    <3>1. Answers' = Answers
      BY <1>1, <2>1 DEF Answers
    <3> QED
      BY <1>3, <1>4, <2>1, <3>1
  <2>2. CASE rcvd # <<>> /\ rcvd' = Tail(rcvd)
    <3>1. /\ IsSeq(rcvd') /\ AnswersFit(Answers')
          /\ Tally(Answers, "read") =
               Tally(Answers', "read") + (IF Head(rcvd).type = "read" THEN 1 ELSE 0)
      BY <1>1, <2>2, AnswersFewer
    <3>2. Tally(Answers', "read") \in Nat
      BY <3>1, TallyIs DEF AnswersFit
    <3> QED
      BY <1>4, <3>1, <3>2
  <2>3. CASE rcvd' = <<>> /\ (~ended => Answers = <<>>)
    <3>1. /\ IsSeq(rcvd') /\ Answers' = toClient
          /\ \A k \in 1 .. Len(Answers') : \E j \in 1 .. Len(Answers) : Answers'[k] = Answers[j]
      BY <1>1, <1>3, <2>3, AnswersDropped
    <3>2. AnswersFit(Answers')
      BY <1>3, <3>1 DEF AnswersFit
    <3>3. ~ended => Answers' = Answers
      <4>1. ~ended => rcvd = <<>>
        BY <1>3, <2>3, AnswersAre
      <4> QED
        BY <1>1, <2>3, <4>1 DEF Answers
    <3> QED
      BY <1>4, <3>1, <3>2, <3>3
  <2> QED
    BY <2>1, <2>2, <2>3 DEF Advances
<1>6. CASE toServer' = toServer
  <2>1. UnderWay'
    BY <1>1, <1>3, <1>5, <1>6 DEF UnderWay
  <2>2. Credit'
    <3>1. \A a, b, c, d \in Nat : a + b <= d /\ c <= b => a + c <= d
      OBVIOUS
    <3>2. ~ended /\ window # 0 => Tally(toServer, "ack") + Tally(Answers', "read") <= inFlight
      <4> SUFFICES ASSUME ~ended, window # 0
                   PROVE  Tally(toServer, "ack") + Tally(Answers', "read") <= inFlight
        OBVIOUS
      <4>1. inFlight \in Nat /\ Tally(toServer, "ack") + Tally(Answers, "read") <= inFlight
        <5>1. window \in Nat
          BY ConnectionAssumption DEF Values
        <5> QED
          BY <5>1 DEF Credit
      <4> QED
        BY <1>4, <1>5, <3>1, <4>1
    <3> QED
      BY <1>1, <1>6, <3>2 DEF Credit
  <2> QED
    BY <1>2, <2>1, <2>2
<1>7. CASE toServer' # toServer
  <2>1. PICK f : Sends(f)
    BY <1>7 DEF Advances
  <2>2. ~ended
    BY <1>7, <2>1 DEF Sends, Send, SendFails
  <2>3. /\ FramesFit(toServer')
        /\ Tally(toServer', "ack") = Tally(toServer, "ack") + (IF f.type = "ack" THEN 1 ELSE 0)
    BY <1>3, <2>1, <2>2, FramesSent DEF Sends
  <2>4. UnderWay'
    BY <1>1, <1>3, <1>5, <2>3 DEF UnderWay
  <2>5. f.type = "ack" => Tally(Answers, "read") = Tally(Answers', "read") + 1
    <3> SUFFICES ASSUME f.type = "ack" PROVE Tally(Answers, "read") = Tally(Answers', "read") + 1
      OBVIOUS
    <3>1. rcvd # <<>> /\ rcvd' = Tail(rcvd) /\ Head(rcvd).type = "read"
      BY <2>1 DEF Sends
    <3> QED
      BY <1>1, <3>1, AnswersFewer
  <2>6. Tally(toServer', "ack") + Tally(Answers', "read") <= Tally(toServer, "ack") + Tally(Answers, "read")
    <3>1. PICK a, b, c \in Nat :
            a = Tally(toServer, "ack") /\ b = Tally(Answers, "read") /\ c = Tally(Answers', "read")
      BY <1>4, <1>5, <2>2
    <3>2. c <= b /\ (f.type = "ack" => b = c + 1)
            /\ Tally(toServer', "ack") = a + (IF f.type = "ack" THEN 1 ELSE 0)
      BY <1>5, <2>2, <2>3, <2>5, <3>1
    <3>3. CASE f.type = "ack"
      BY <3>1, <3>2, <3>3
    <3>4. CASE f.type # "ack"
      BY <3>1, <3>2, <3>4
    <3> QED
      BY <3>3, <3>4
  <2>7. Credit'
    <3>1. \A a, b, c \in Int : a <= b /\ b <= c => a <= c
      OBVIOUS
    <3>2. window # 0 => Tally(toServer', "ack") + Tally(Answers', "read") <= inFlight
      <4> SUFFICES ASSUME window # 0
                   PROVE  Tally(toServer', "ack") + Tally(Answers', "read") <= inFlight
        OBVIOUS
      <4>1. inFlight \in Int /\ Tally(toServer, "ack") + Tally(Answers, "read") <= inFlight
        <5>1. window \in Nat
          BY ConnectionAssumption DEF Values
        <5> QED
          BY <2>2, <5>1 DEF Credit
      <4>2. /\ Tally(toServer', "ack") + Tally(Answers', "read") \in Int
            /\ Tally(toServer, "ack") + Tally(Answers, "read") \in Int
        BY <1>4, <1>5, <2>2, <2>3
      <4> QED
        BY <2>6, <3>1, <4>1, <4>2
    <3> QED
      BY <1>1, <3>2 DEF Credit
  <2> QED
    BY <1>2, <2>4, <2>7
<1> QED
  BY <1>6, <1>7

LEMMA ReadingKeeps ==
  ASSUME UnderWay, Values, Images, Portions, ServedFit, Credit, Receive, UNCHANGED scriptVars
  PROVE  UnderWay' /\ Values' /\ Images' /\ Portions' /\ ServedFit' /\ Credit'
<1>1. UNCHANGED <<program, pc, exit, result, toServer, window, ended, inFlight, box, left, given,
                  files, shown, served, raster, undrawn, updates>>
  BY DEF Receive, sessionVars, answerVars, scriptVars, authorVars
<1>2. IsSeq(rcvd') /\ IsSeq(toClient') /\ Answers' = Answers
  BY AnswersRead DEF UnderWay
<1> QED
  BY <1>1, <1>2 DEF UnderWay, Values, Images, Portions, ServedFit, Credit

\* Nothing happens on the connection.
LEMMA IdlingKeeps ==
  ASSUME UnderWay, Values, Images, Portions, ServedFit, Credit, UNCHANGED connVars,
         Author \/ UNCHANGED authorVars
  PROVE  UnderWay' /\ Values' /\ Images' /\ Portions' /\ ServedFit' /\ Credit'
<1>1. UNCHANGED <<program, pc, exit, result, rcvd, toServer, toClient, window, ended, inFlight, box,
                  left, given, files, shown, served>>
  BY DEF connVars, clientVars, sessionVars, answerVars
<1>2. Answers' = Answers
  BY <1>1 DEF Answers
<1>3. UnderWay' /\ Values' /\ Portions' /\ ServedFit' /\ Credit'
  BY <1>1, <1>2 DEF UnderWay, Values, Portions, ServedFit, Credit
<1>4. MaxUpdates \in Nat
  BY SyncedAssumption
<1>5. CASE UNCHANGED authorVars
  BY <1>3, <1>5 DEF Images, authorVars
<1>6. CASE BeginUpdate
  BY <1>3, <1>4, <1>6 DEF Images, BeginUpdate
<1>7. CASE Draw
  <2>1. PICK r \in undrawn : raster' = [raster EXCEPT ![r] = updates] /\ undrawn' = undrawn \ {r}
    BY <1>7 DEF Draw
  <2>2. updates \in Versions /\ updates' = updates /\ updates <= MaxUpdates
    BY <1>4, <1>7, <2>1 DEF Images, Draw, Versions
  <2> QED
    BY <1>3, <2>1, <2>2 DEF Images
<1>8. CASE Publish \/ Quit
  BY <1>3, <1>8 DEF Images, Publish, Quit
<1> QED
  BY <1>5, <1>6, <1>7, <1>8 DEF Author

\* The session sends what is not data, or nothing.
NoData ==
  /\ IsSeq(toClient') /\ Len(Answers) <= Len(Answers')
  /\ \A k \in 1 .. Len(Answers) : Answers'[k] = Answers[k]
  /\ \A k \in Len(Answers) + 1 .. Len(Answers') : AnswerFits(Answers'[k]) /\ Answers'[k].type # "read"

LEMMA NoDataSent ==
  ASSUME UnderWay, rcvd' = rcvd, NoData
  PROVE  /\ IsSeq(rcvd') /\ IsSeq(toClient') /\ AnswersFit(Answers')
         /\ Tally(Answers', "read") = Tally(Answers, "read")
<1>1. IsSeq(rcvd') /\ IsSeq(toClient') /\ IsSeq(Answers) /\ AnswersFit(Answers) /\ IsSeq(Answers')
  <2>1. IsSeq(rcvd') /\ IsSeq(toClient') /\ AnswersFit(Answers)
    BY DEF UnderWay, NoData
  <2> QED
    BY <2>1, Joined DEF Answers, AnswersFit
<1>2. Len(Answers) \in Nat /\ Len(Answers') \in Nat
  BY <1>1, SeqWidens
<1>3. \A k \in 1 .. Len(Answers') : k \in 1 .. Len(Answers) \/ k \in Len(Answers) + 1 .. Len(Answers')
  BY <1>2
<1>4. AnswersFit(Answers')
  BY <1>1, <1>3 DEF AnswersFit, NoData
<1>5. ASSUME NEW s, IsSeq(s), NEW t, IsSeq(t), Len(s) <= Len(t),
             \A k \in 1 .. Len(s) : t[k] = s[k],
             \A k \in Len(s) + 1 .. Len(t) : t[k].type # "read"
      PROVE  Tally(t, "read") = Tally(s, "read")
  BY <1>5, TallySame
<1>6. Tally(Answers', "read") = Tally(Answers, "read")
  BY <1>1, <1>5 DEF NoData
<1> QED
  BY <1>1, <1>4, <1>6

\* The session sends nothing.
LEMMA NothingSent ==
  ASSUME UnderWay, rcvd' = rcvd, toClient' = toClient
  PROVE  NoData
<1>1. Answers' = Answers /\ IsSeq(toClient') /\ Len(Answers) \in Nat
  BY AnswersAre DEF Answers, UnderWay
<1> QED
  BY <1>1 DEF NoData

LEMMA OtherSent ==
  ASSUME UnderWay, rcvd' = rcvd, NEW x, Reply(<<x>>), AnswerFits(x), x.type # "read"
  PROVE  NoData
<1>1. /\ IsSeq(toClient') /\ Len(Answers) \in Nat /\ Len(Answers') = Len(Answers) + 1
      /\ \A k \in 1 .. Len(Answers) : Answers'[k] = Answers[k]
      /\ Answers'[Len(Answers')] = x
  BY OneSent DEF UnderWay
<1>2. Len(Answers) <= Len(Answers') /\ \A k \in Len(Answers) + 1 .. Len(Answers') : k = Len(Answers')
  BY <1>1
<1> QED
  BY <1>1, <1>2 DEF NoData

LEMMA ResultSentFits ==
  ASSUME UnderWay, rcvd' = rcvd, NEW id, NEW value \in {Ok, Refused, Canceled}, Respond(id, value)
  PROVE  NoData
<1> DEFINE x == Answer("result", id, value)
<1>1. Reply(<<x>>) /\ x.type = "result" /\ x.value = value
  BY DEF Respond, Answer
<1>2. AnswerFits(x) /\ x.type # "read"
  BY <1>1 DEF AnswerFits
<1> HIDE DEF x
<1> QED
  BY <1>1, <1>2, OtherSent

LEMMA LookSent ==
  ASSUME UnderWay, rcvd' = rcvd, NEW f, ServeLook(f)
  PROVE  NoData
<1>1. PICK n \in Nat :
        /\ IsSeq(toClient') /\ Len(Answers) \in Nat
        /\ Len(Answers') = Len(Answers) + n + 1
        /\ \A k \in 1 .. Len(Answers) : Answers'[k] = Answers[k]
        /\ \A k \in 1 .. n : Answers'[Len(Answers) + k] = Answer(f.call.op, f.id, k)
        /\ Answers'[Len(Answers) + n + 1] = Answer("result", f.id, Ok)
  BY LookAnswers DEF UnderWay
<1>2. f.call.op \notin {"read", "result"}
  BY DEF ServeLook
<1>3. ASSUME NEW k \in Len(Answers) + 1 .. Len(Answers')
      PROVE  AnswerFits(Answers'[k]) /\ Answers'[k].type # "read"
  <2>1. CASE k = Len(Answers) + n + 1
    <3>1. Answers'[k] = Answer("result", f.id, Ok)
      BY <1>1, <2>1
    <3> QED
      BY <3>1 DEF AnswerFits, Answer
  <2>2. CASE k # Len(Answers) + n + 1
    <3> DEFINE j == k - Len(Answers)
    <3>1. j \in 1 .. n /\ Len(Answers) + j = k
      BY <1>1, <2>2
    <3> HIDE DEF j
    <3>2. Answers'[k] = Answer(f.call.op, f.id, j)
      BY <1>1, <3>1
    <3> QED
      BY <1>2, <3>2 DEF AnswerFits, Answer
  <2> QED
    BY <2>1, <2>2
<1>4. Len(Answers) <= Len(Answers')
  BY <1>1
<1> QED
  BY <1>1, <1>3, <1>4 DEF NoData

LEMMA RecordFits ==
  ASSUME ServedFit, NEW call, call.rows \subseteq Rows, NEW ok, Record(call, ok)
  PROVE  ServedFit'
<1> DEFINE x == [call |-> call, ok |-> ok]
<1>1. served' = Append(served, x) /\ x.call = call /\ IsSeq(served)
  BY DEF Record, ServedFit
<1> HIDE DEF x
<1>2. /\ IsSeq(served') /\ Len(served') = Len(served) + 1 /\ Len(served) \in Nat
      /\ served'[Len(served) + 1] = x
      /\ \A k \in 1 .. Len(served) : served'[k] = served[k]
  BY <1>1, Appended
<1>3. \A k \in 1 .. Len(served') : k \in 1 .. Len(served) \/ k = Len(served) + 1
  BY <1>2
<1> QED
  BY <1>1, <1>2, <1>3 DEF ServedFit

\* check_tasks changes nothing of what has yet to be sent.
LEMMA CheckedFits ==
  ASSUME Portions
  PROVE  /\ Checked \in [Ids -> AllCalls \cup {Free, Done}]
         /\ Checked[1].op # "read" /\ (Checked[0].op # "read" => left[0] = 0)
<1>1. \A i \in Ids : Checked[i] = box[i] \/ (Checked[i] = Free /\ box[i] = Done)
  BY DEF Checked
<1>2. Free.op # "read" /\ Done.op # "read"
  BY DEF Free, Done, Call
<1>3. Checked \in [Ids -> AllCalls \cup {Free, Done}]
  BY <1>1 DEF Checked, Portions
<1>4. 0 \in Ids /\ 1 \in Ids
  BY DEF Ids
<1> QED
  BY <1>1, <1>2, <1>3, <1>4 DEF Portions

\* The session serves a request at once.
LEMMA RequestFits ==
  ASSUME UnderWay, Values, Portions, ServedFit, NEW f, FrameFits(f), ServeRequest(f),
         rcvd' = rcvd
  PROVE  /\ NoData /\ Portions' /\ ServedFit'
         /\ files' \in [Fds -> Names] /\ shown' \in [Rows -> Versions]
<1>1. /\ f.type = "request" /\ Checked[f.id] = Free /\ box' = Checked /\ left' = left
      /\ ServeLook(f) \/ ServeChange(f) \/ ServeRefusal(f)
  BY DEF ServeRequest
<1>2. /\ f.id \in Ids /\ f.call \in AllCalls /\ f.call.rows \subseteq Rows
      /\ f.call.op = "open" => f.fd \in Fds
      /\ f.id = 1 => f.call.op = "put"
      /\ \A r \in f.call.rows : f.image[r] \in Versions
  BY <1>1, AllCallsFit DEF FrameFits
<1>3. /\ box' \in [Ids -> AllCalls \cup {Free, Done}]
      /\ box'[1].op # "read" /\ (box'[0].op # "read" => left[0] = 0)
  BY <1>1, CheckedFits
<1>4. MaxItems \in Nat
  BY ConnectionAssumption
<1>5. CASE ServeLook(f)
  <2>1. NoData
    BY <1>5, LookSent
  <2>2. given' \in 0 .. MaxItems /\ f.id = 0
    BY <1>2, <1>5 DEF ServeLook, Ids
  <2>3. left[0] = 0
    <3>1. box[0] = Free \/ box[0] = Done
      BY <1>1, <2>2 DEF Checked, Ids
    <3>2. box[0].op # "read"
      BY <3>1 DEF Free, Done, Call
    <3> QED
      BY <3>2 DEF Portions
  <2>4. Portions'
    <3>1. given' \in Nat /\ given' + left[0] <= MaxItems
      <4>1. \A m \in Nat : \A a \in 0 .. m : a \in Nat /\ a + 0 <= m
        OBVIOUS
      <4> QED
        BY <1>4, <2>2, <2>3, <4>1
    <3> QED
      BY <1>1, <1>3, <3>1 DEF Portions
  <2>5. ServedFit'
    BY <1>2, <1>5, RecordFits DEF ServeLook
  <2> QED
    BY <1>5, <2>1, <2>4, <2>5 DEF ServeLook, Values
<1>6. CASE ServeChange(f)
  <2>1. NoData
    BY <1>6, ResultSentFits DEF ServeChange
  <2>2. given' = 0 /\ given' + left[0] <= MaxItems
    <3>1. \A a, b, c \in Nat : a + b <= c => 0 + b <= c
      OBVIOUS
    <3>2. 0 \in Ids
      BY DEF Ids
    <3> QED
      BY <1>4, <1>6, <3>1, <3>2 DEF Portions, ServeChange
  <2>3. Portions'
    BY <1>1, <1>3, <2>2 DEF Portions
  <2>4. ServedFit'
    BY <1>2, <1>6, RecordFits DEF ServeChange
  <2>5. files' \in [Fds -> Names]
    <3>1. files \in [Fds -> Names] /\ NoFile \in Names /\ f.call.file \in Names
      BY <1>2 DEF Values, Names
    <3> QED
      BY <1>2, <1>6, <3>1 DEF ServeChange
  <2>6. shown' \in [Rows -> Versions]
    BY <1>2, <1>6 DEF ServeChange, Values
  <2> QED
    BY <2>1, <2>3, <2>4, <2>5, <2>6
<1>7. CASE ServeRefusal(f)
  <2>1. NoData
    BY <1>7, ResultSentFits DEF ServeRefusal
  <2>2. given' = 0 /\ given' + left[0] <= MaxItems
    <3>1. \A a, b, c \in Nat : a + b <= c => 0 + b <= c
      OBVIOUS
    <3>2. 0 \in Ids
      BY DEF Ids
    <3> QED
      BY <1>4, <1>7, <3>1, <3>2 DEF Portions, ServeRefusal
  <2>3. Portions'
    BY <1>1, <1>3, <2>2 DEF Portions
  <2>4. ServedFit'
    BY <1>2, <1>7, RecordFits DEF ServeRefusal
  <2> QED
    BY <1>7, <2>1, <2>3, <2>4 DEF ServeRefusal, Values
<1> QED
  BY <1>1, <1>5, <1>6, <1>7

LEMMA ServeTypes ==
  ASSUME UnderWay, Values, Images, Portions, ServedFit, Credit, Serve, UNCHANGED scriptVars
  PROVE  UnderWay' /\ Values' /\ Images' /\ Portions' /\ ServedFit' /\ Credit'
<1>1. /\ UNCHANGED <<program, pc, exit, result, rcvd, window, ended, raster, undrawn, updates>>
      /\ ~ended /\ toServer # <<>> /\ toServer' = Tail(toServer)
  BY DEF Serve, clientVars, scriptVars, authorVars
<1>2. PICK f : /\ f = Head(toServer)
               /\ ServeRequest(f) \/ ServeRead(f) \/ ServePing(f) \/ ServeAck(f) \/ ServeCancel(f)
  BY DEF Serve
<1>3. /\ IsSeq(toServer') /\ Len(toServer') = Len(toServer) - 1 /\ Len(toServer) >= 1
      /\ Head(toServer) = toServer[1] /\ Len(toServer) \in Nat
      /\ \A k \in 1 .. Len(toServer) - 1 : toServer'[k] = toServer[k + 1]
  BY <1>1, Tailed, SeqWidens DEF UnderWay, FramesFit
<1>4. FrameFits(f)
  BY <1>2, <1>3 DEF UnderWay, FramesFit
<1>5. FramesFit(toServer')
  <2>1. \A k \in 1 .. Len(toServer') : k \in 1 .. Len(toServer) - 1 /\ k + 1 \in 1 .. Len(toServer)
    BY <1>3
  <2> QED
    BY <1>3, <2>1 DEF UnderWay, FramesFit
<1>6. /\ Tally(toServer', "ack") \in Nat /\ Tally(toServer, "ack") \in Nat
      /\ Tally(Answers, "read") \in Nat
      /\ Tally(toServer, "ack") = Tally(toServer', "ack") + (IF f.type = "ack" THEN 1 ELSE 0)
  <2>1. IsSeq(toServer) /\ IsSeq(Answers)
    BY DEF UnderWay, FramesFit, AnswersFit
  <2>2. ASSUME NEW s, IsSeq(s), NEW t, IsSeq(t), Len(s) >= 1, Len(t) = Len(s) - 1,
               \A k \in 1 .. Len(s) - 1 : t[k] = s[k + 1]
        PROVE  Tally(s, "ack") = Tally(t, "ack") + (IF s[1].type = "ack" THEN 1 ELSE 0)
    BY <2>2, TallyTail
  <2> QED
    BY <1>2, <1>3, <2>1, <2>2, TallyIs
<1>7. window # 0 =>
        /\ inFlight \in 0 .. window /\ window \in Nat
        /\ Tally(toServer, "ack") + Tally(Answers, "read") <= inFlight
  BY <1>1, ConnectionAssumption DEF Credit, Values
<1>8. ASSUME NoData, Portions', ServedFit', files' \in [Fds -> Names], shown' \in [Rows -> Versions],
             inFlight' = IF window # 0 /\ f.type = "ack" THEN inFlight - 1 ELSE inFlight
      PROVE  UnderWay' /\ Values' /\ Images' /\ Portions' /\ ServedFit' /\ Credit'
  <2>1. /\ IsSeq(rcvd') /\ IsSeq(toClient') /\ AnswersFit(Answers')
        /\ Tally(Answers', "read") = Tally(Answers, "read")
    BY <1>1, <1>8, NoDataSent
  <2>2. UnderWay'
    BY <1>5, <2>1 DEF UnderWay
  <2>3. Values' /\ Images'
    BY <1>1, <1>8 DEF Values, Images
  <2>4. Credit'
    <3> SUFFICES ASSUME window # 0
                 PROVE  /\ inFlight' \in 0 .. window
                        /\ Tally(toServer', "ack") + Tally(Answers', "read") <= inFlight'
      BY <1>1 DEF Credit
    <3>1. PICK a, b, c \in Nat :
            a = Tally(toServer, "ack") /\ b = Tally(toServer', "ack") /\ c = Tally(Answers, "read")
      BY <1>6
    <3>2. inFlight \in 0 .. window /\ window \in Nat /\ a + c <= inFlight
      BY <1>7, <3>1
    <3>3. CASE f.type = "ack"
      <4>1. a = b + 1 /\ inFlight' = inFlight - 1
        BY <1>6, <1>8, <3>1, <3>3
      <4>2. inFlight - 1 \in 0 .. window /\ b + c <= inFlight - 1
        BY <3>1, <3>2, <4>1
      <4> QED
        BY <2>1, <3>1, <4>1, <4>2
    <3>4. CASE f.type # "ack"
      <4>1. a = b /\ inFlight' = inFlight
        BY <1>6, <1>8, <3>1, <3>4
      <4> QED
        BY <2>1, <3>1, <3>2, <4>1
    <3> QED
      BY <3>3, <3>4
  <2> QED
    BY <1>8, <2>2, <2>3, <2>4
<1>9. CASE ServeRequest(f)
  <2>1. f.type # "ack" /\ inFlight' = inFlight
    BY <1>9 DEF ServeRequest
  <2>2. /\ NoData /\ Portions' /\ ServedFit'
        /\ files' \in [Fds -> Names] /\ shown' \in [Rows -> Versions]
    BY <1>1, <1>4, <1>9, RequestFits
  <2> QED
    BY <1>8, <2>1, <2>2
<1>10. CASE ServeRead(f)
  <2>1. /\ f.type = "request" /\ f.call.op = "read" /\ inFlight' = inFlight
        /\ UNCHANGED <<toClient, files, shown, served>> /\ given' = 0
        /\ box' = [Checked EXCEPT ![f.id] = f.call]
    BY <1>10 DEF ServeRead
  <2>2. f.id = 0 /\ f.call \in AllCalls
    BY <1>4, <2>1 DEF FrameFits, Ids
  <2>3. PICK n \in 0 .. MaxItems : left' = [left EXCEPT ![0] = n]
    BY <1>10, <2>2 DEF ServeRead
  <2>4. Portions'
    <3>1. /\ Checked \in [Ids -> AllCalls \cup {Free, Done}] /\ Checked[1].op # "read"
      BY CheckedFits
    <3>2. 0 \in Ids /\ 1 \in Ids /\ MaxItems \in Nat
      BY ConnectionAssumption DEF Ids
    <3>3. /\ box' \in [Ids -> AllCalls \cup {Free, Done}] /\ box'[1].op # "read"
          /\ box'[0].op = "read"
      BY <2>1, <2>2, <3>1, <3>2
    <3>4. /\ left' \in [Ids -> Nat] /\ left'[0] = n /\ left'[1] = 0 /\ n \in Nat /\ 0 + n <= MaxItems
      BY <2>3, <3>2 DEF Portions
    <3> QED
      BY <2>1, <3>3, <3>4 DEF Portions
  <2>5. NoData /\ ServedFit'
    BY <1>1, <2>1, NothingSent DEF ServedFit
  <2> QED
    BY <1>8, <2>1, <2>4, <2>5 DEF Values
<1>11. CASE ServePing(f) \/ ServeAck(f)
  <2>1. /\ UNCHANGED <<left, given, files, shown, served>> /\ box' = Checked
        /\ inFlight' = IF window # 0 /\ f.type = "ack" THEN inFlight - 1 ELSE inFlight
    BY <1>11 DEF ServePing, ServeAck, answerVars
  <2>2. NoData
    <3>1. CASE ServeAck(f)
      BY <1>1, <3>1, NothingSent DEF ServeAck
    <3>2. CASE ServePing(f)
      <4> DEFINE x == Answer("pong", 0, 0)
      <4>1. Reply(<<x>>) /\ AnswerFits(x) /\ x.type # "read"
        BY <3>2 DEF ServePing, AnswerFits, Answer
      <4> HIDE DEF x
      <4> QED
        BY <1>1, <4>1, OtherSent
    <3> QED
      BY <1>11, <3>1, <3>2
  <2>3. Portions' /\ ServedFit'
    BY <2>1, CheckedFits DEF Portions, ServedFit
  <2> QED
    BY <1>8, <2>1, <2>2, <2>3 DEF Values
<1>12. CASE ServeCancel(f)
  <2>1. /\ UNCHANGED <<inFlight, given, files, shown, served>>
        /\ box' = [Checked EXCEPT ![f.id] = Free] /\ left' = [left EXCEPT ![f.id] = 0]
        /\ f.type = "cancel"
    BY <1>12 DEF ServeCancel, answerVars
  <2>2. NoData
    <3>1. CASE Respond(f.id, Canceled)
      BY <1>1, <3>1, ResultSentFits
    <3>2. CASE Reply(<<Answer("junk", 0, 0)>>)
      <4> DEFINE x == Answer("junk", 0, 0)
      <4>1. Reply(<<x>>) /\ AnswerFits(x) /\ x.type # "read"
        BY <3>2 DEF AnswerFits, Answer
      <4> HIDE DEF x
      <4> QED
        BY <1>1, <4>1, OtherSent
    <3> QED
      BY <1>12, <3>1, <3>2 DEF ServeCancel
  <2>3. Portions'
    <3>1. /\ Checked \in [Ids -> AllCalls \cup {Free, Done}] /\ Checked[1].op # "read"
          /\ (Checked[0].op # "read" => left[0] = 0)
      BY CheckedFits
    <3>2. 0 \in Ids /\ 1 \in Ids /\ f.id \in {0, 1} /\ Free.op # "read"
      BY <1>4 DEF FrameFits, Ids, Free, Call
    <3>3. /\ box' \in [Ids -> AllCalls \cup {Free, Done}] /\ box'[1].op # "read"
          /\ box'[0] = IF f.id = 0 THEN Free ELSE Checked[0]
      BY <2>1, <3>1, <3>2
    <3>4. /\ left' \in [Ids -> Nat] /\ left'[1] = 0
          /\ left'[0] = IF f.id = 0 THEN 0 ELSE left[0]
      BY <2>1, <3>2 DEF Portions
    <3>5. given \in Nat /\ given + left'[0] <= MaxItems
      <4>1. \A a, b, c \in Nat : a + b <= c => a + 0 <= c
        OBVIOUS
      <4>2. given \in Nat /\ left[0] \in Nat /\ MaxItems \in Nat /\ given + left[0] <= MaxItems
        BY <3>2, ConnectionAssumption DEF Portions
      <4> QED
        BY <3>4, <4>1, <4>2
    <3>6. box'[0].op # "read" => left'[0] = 0
      BY <3>1, <3>3, <3>4
    <3> QED
      BY <2>1, <3>3, <3>4, <3>5, <3>6 DEF Portions
  <2>4. ServedFit'
    BY <2>1 DEF ServedFit
  <2> QED
    BY <1>8, <2>1, <2>2, <2>3, <2>4 DEF Values
<1> QED
  BY <1>2, <1>9, <1>10, <1>11, <1>12

\* The session ends, and some of what is under way to the program is lost.
LEMMA EndTypes ==
  ASSUME UnderWay, Values, Images, Portions, ServedFit, Credit, UNCHANGED scriptVars,
         ServeBadFrame \/ ServeEnd \/ Cut
  PROVE  UnderWay' /\ Values' /\ Images' /\ Portions' /\ ServedFit' /\ Credit'
<1>1. EndSession
  BY DEF ServeBadFrame, ServeEnd, Cut
<1>2. /\ UNCHANGED <<program, pc, exit, result, rcvd, window, inFlight, given, shown, served,
                     raster, undrawn, updates>>
      /\ ended' = TRUE /\ toServer' = <<>>
      /\ box' = [i \in Ids |-> Free] /\ left' = [i \in Ids |-> 0]
      /\ files' = [fd \in Fds |-> NoFile]
  BY <1>1 DEF EndSession, clientVars, scriptVars, authorVars
<1>3. IsSeq(rcvd) /\ IsSeq(toClient) /\ AnswersFit(Answers) /\ Len(toClient) \in Nat
      /\ Len(Answers) \in Nat
  BY AnswersAre DEF UnderWay
<1>4. toClient' = toClient \/ \E n \in 0 .. Len(toClient) : toClient' = SubSeq(toClient, 1, n)
  BY DEF ServeBadFrame, ServeEnd, Cut
<1>5. IsSeq(toClient') /\ AnswersFit(Answers')
  <2>1. CASE toClient' = toClient
    <3>1. Answers' = Answers
      BY <1>2, <2>1 DEF Answers
    <3> QED
      BY <1>3, <2>1, <3>1
  <2>2. CASE toClient' # toClient
    <3>1. PICK n \in 0 .. Len(toClient) : toClient' = SubSeq(toClient, 1, n)
      BY <1>4, <2>2
    <3>2. /\ IsSeq(toClient') /\ Len(Answers') = Len(Answers) - (Len(toClient) - n)
          /\ \A k \in 1 .. Len(Answers') : Answers'[k] = Answers[k]
      BY <1>2, <1>3, <3>1, AnswersLost
    <3>3. IsSeq(Answers')
      BY <1>2, <1>3, <3>2, Joined DEF Answers
    <3>4. Len(Answers') <= Len(Answers) /\ Len(Answers') \in Nat
      BY <1>3, <3>2, <3>3, SeqWidens
    <3>5. \A k \in 1 .. Len(Answers') : k \in 1 .. Len(Answers)
      BY <1>3, <3>4
    <3> QED
      BY <1>3, <3>2, <3>3, <3>5 DEF AnswersFit
  <2> QED
    BY <2>1, <2>2
<1>6. UnderWay'
  <2>1. FramesFit(toServer')
    BY <1>2, None DEF FramesFit
  <2> QED
    BY <1>2, <1>3, <1>5, <2>1 DEF UnderWay
<1>7. Values' /\ Images' /\ ServedFit'
  BY <1>2 DEF Values, Images, ServedFit, Names
<1>8. Portions'
  <2>1. 0 \in Ids /\ 1 \in Ids /\ Free.op # "read"
    BY DEF Ids, Free, Call
  <2>2. given \in Nat /\ given + 0 <= MaxItems
    <3>1. \A a, b, c \in Nat : a + b <= c => a + 0 <= c
      OBVIOUS
    <3>2. given \in Nat /\ left[0] \in Nat /\ MaxItems \in Nat /\ given + left[0] <= MaxItems
      BY <2>1, ConnectionAssumption DEF Portions
    <3> QED
      BY <3>1, <3>2
  <2> QED
    BY <1>2, <2>1, <2>2 DEF Portions
<1>9. Credit'
  BY <1>2 DEF Credit
<1> QED
  BY <1>6, <1>7, <1>8, <1>9

\* A task sends data, or answers.
LEMMA TaskTypes ==
  ASSUME UnderWay, Values, Images, Portions, ServedFit, Credit, UNCHANGED scriptVars,
         NEW i \in Ids, TaskData(i) \/ TaskResult(i) \/ StreamFails(i)
  PROVE  UnderWay' /\ Values' /\ Images' /\ Portions' /\ ServedFit' /\ Credit'
<1>1. /\ UNCHANGED <<program, pc, exit, result, rcvd, toServer, window, ended, files, shown,
                     raster, undrawn, updates>>
      /\ box[i].op = "read"
  BY DEF TaskData, TaskResult, StreamFails, clientVars, scriptVars, authorVars
<1>2. i = 0 /\ 0 \in Ids /\ 1 \in Ids
  BY <1>1 DEF Portions, Ids
<1>3. /\ given \in Nat /\ left[0] \in Nat /\ MaxItems \in Nat /\ given + left[0] <= MaxItems
  BY <1>2, ConnectionAssumption DEF Portions
<1>4. Values' /\ Images'
  BY <1>1 DEF Values, Images
<1>5. CASE TaskData(i)
  <2>1. /\ left[0] > 0 /\ left' = [left EXCEPT ![0] = left[0] - 1] /\ given' = given + 1
        /\ UNCHANGED <<box, served>>
        /\ window # 0 => inFlight < window
        /\ inFlight' = IF window = 0 THEN inFlight ELSE inFlight + 1
    BY <1>2, <1>5 DEF TaskData
  <2> DEFINE x == Answer("read", i, given + 1)
  <2>2. Reply(<<x>>) /\ AnswerFits(x) /\ x.type = "read"
    BY <1>5 DEF TaskData, AnswerFits, Answer
  <2> HIDE DEF x
  <2>3. /\ IsSeq(toClient') /\ IsSeq(Answers')
        /\ Len(Answers) \in Nat /\ Len(Answers') = Len(Answers) + 1
        /\ \A k \in 1 .. Len(Answers) : Answers'[k] = Answers[k]
        /\ Answers'[Len(Answers')] = x
    BY <1>1, <2>2, OneSent DEF UnderWay
  <2>4. AnswersFit(Answers')
    <3>1. \A k \in 1 .. Len(Answers') : k \in 1 .. Len(Answers) \/ k = Len(Answers')
      BY <2>3
    <3> QED
      BY <2>2, <2>3, <3>1 DEF UnderWay, AnswersFit
  <2>5. UnderWay'
    BY <1>1, <2>3, <2>4 DEF UnderWay
  <2>6. Portions'
    <3>1. given + 1 \in Nat /\ left[0] - 1 \in Nat /\ given + 1 + (left[0] - 1) <= MaxItems
      BY <1>3, <2>1
    <3>2. left' \in [Ids -> Nat] /\ left'[0] = left[0] - 1 /\ left'[1] = 0
      BY <1>2, <2>1, <3>1 DEF Portions
    <3>3. box'[0].op = "read"
      BY <1>1, <1>2, <2>1
    <3> QED
      BY <2>1, <3>1, <3>2, <3>3 DEF Portions
  <2>7. ServedFit'
    BY <2>1 DEF ServedFit
  <2>8. Credit'
    <3>1. Tally(Answers', "read") = Tally(Answers, "read") + 1
      <4>1. ASSUME NEW s, IsSeq(s), NEW t, IsSeq(t), Len(t) = Len(s) + 1,
                   \A k \in 1 .. Len(s) : t[k] = s[k], t[Len(s) + 1].type = "read"
            PROVE  Tally(t, "read") = Tally(s, "read") + 1
        BY <4>1, TallyMore
      <4>2. IsSeq(Answers) /\ Answers'[Len(Answers) + 1].type = "read"
        BY <2>2, <2>3 DEF UnderWay, AnswersFit
      <4> QED
        BY <2>3, <4>1, <4>2
    <3>2. PICK a, b \in Nat : a = Tally(toServer, "ack") /\ b = Tally(Answers, "read")
      <4>1. IsSeq(toServer) /\ IsSeq(Answers)
        BY DEF UnderWay, FramesFit, AnswersFit
      <4> QED
        BY <4>1, TallyIs
    <3>3. SUFFICES ASSUME window # 0
                   PROVE  inFlight' \in 0 .. window /\ (~ended => a + (b + 1) <= inFlight')
      BY <1>1, <3>1, <3>2 DEF Credit
    <3>4. inFlight \in 0 .. window /\ (~ended => a + b <= inFlight) /\ window \in Nat
      BY <1>2, <3>2, <3>3, ConnectionAssumption DEF Credit, Values
    <3>5. inFlight' = inFlight + 1 /\ inFlight < window
      BY <2>1, <3>3
    <3> QED
      BY <3>4, <3>5
  <2> QED
    BY <1>4, <2>5, <2>6, <2>7, <2>8
<1>6. CASE TaskResult(i) \/ StreamFails(i)
  <2>1. /\ UNCHANGED <<inFlight, left, given>> /\ left[0] = 0
        /\ box' = [box EXCEPT ![0] = Done]
    BY <1>2, <1>6 DEF TaskResult, StreamFails
  <2>2. PICK ok \in BOOLEAN : Respond(i, IF ok THEN Ok ELSE Refused) /\ Record(box[i], ok)
    BY <1>6 DEF TaskResult, StreamFails
  <2>3. NoData
    BY <1>1, <2>2, ResultSentFits
  <2>4. /\ IsSeq(rcvd') /\ IsSeq(toClient') /\ AnswersFit(Answers')
        /\ Tally(Answers', "read") = Tally(Answers, "read")
    BY <1>1, <2>3, NoDataSent
  <2>5. UnderWay' /\ Credit'
    BY <1>1, <2>1, <2>4 DEF UnderWay, Credit
  <2>6. Portions'
    <3>1. Done.op # "read"
      BY DEF Done, Call
    <3>2. box' \in [Ids -> AllCalls \cup {Free, Done}] /\ box'[0] = Done /\ box'[1] = box[1]
      BY <1>2, <2>1 DEF Portions
    <3> QED
      BY <2>1, <3>1, <3>2 DEF Portions
  <2>7. ServedFit'
    <3>1. box[i] \in AllCalls
      BY <1>1 DEF Portions, Free, Done, Call
    <3> QED
      BY <2>2, <3>1, AllCallsFit, RecordFits
  <2> QED
    BY <1>4, <2>5, <2>6, <2>7
<1> QED
  BY <1>5, <1>6

----------------------------------------------------------------------------
(* fping's counts, which a lost connection leaves behind.                  *)

\* The counts only fall.
LEMMA PingsFall ==
  ASSUME program = "fping", program' = program, UnderWay, UnderWay', PingsLeft, pc # "start", pc' # "start",
         NoTask', count' = count, pings' \in Nat, pongs' \in Nat,
         \A k \in 1 .. Len(toServer') : toServer'[k].type = "ping",
         \A a, b \in Nat : a = Len(Answers) /\ b = Len(toServer) =>
           pongs' + Len(Answers') + Len(toServer') + pings' <= pongs + a + b + pings
  PROVE  PingsLeft'
<1>1. Len(Answers) \in Nat /\ Len(toServer) \in Nat /\ Len(Answers') \in Nat /\ Len(toServer') \in Nat
  BY SeqWidens DEF UnderWay, FramesFit, AnswersFit
<1>2. /\ count \in Nat /\ pings \in Nat /\ pongs \in Nat
      /\ pongs + Len(Answers) + Len(toServer) + pings <= count
  BY DEF PingsLeft
<1>3. pongs' + Len(Answers') + Len(toServer') + pings' <= pongs + Len(Answers) + Len(toServer) + pings
  BY <1>1
<1>4. \A a, b, c \in Int : a <= b /\ b <= c => a <= c
  OBVIOUS
<1>5. /\ pongs' + Len(Answers') + Len(toServer') + pings' \in Int
      /\ pongs + Len(Answers) + Len(toServer) + pings \in Int
  BY <1>1, <1>2
<1>6. pongs' + Len(Answers') + Len(toServer') + pings' <= count
  BY <1>2, <1>3, <1>4, <1>5
<1> QED
  BY <1>2, <1>6 DEF PingsLeft

LEMMA PingsStay ==
  ASSUME program = "fping", program' = program, PingsLeft, Answers' = Answers, NoTask',
         UNCHANGED <<pc, toServer, count, pings, pongs>>
  PROVE  PingsLeft'
BY DEF PingsLeft

LEMMA StepKeepsPingsLeft ==
  ASSUME program = "fping", program' = program, UnderWay, UnderWay', PingsLeft, Next
  PROVE  PingsLeft'
<1>0. IsTool /\ program \notin Printers
  BY DEF IsTool, ToolSet, Printers
<1>a. /\ count \in Nat /\ pings \in Nat /\ pongs \in Nat /\ NoTask
      /\ \A k \in 1 .. Len(toServer) : toServer[k].type = "ping"
  BY DEF PingsLeft
<1>b. /\ IsSeq(toServer) /\ IsSeq(rcvd) /\ IsSeq(toClient)
      /\ Len(Answers) \in Nat /\ Len(toServer) \in Nat
  BY SeqWidens DEF UnderWay, FramesFit, AnswersFit
<1>c. /\ IsSeq(Answers') /\ Len(Answers') \in Nat /\ IsSeq(toServer') /\ Len(toServer') \in Nat
  BY SeqWidens DEF UnderWay, FramesFit, AnswersFit
<1>1. CASE Drawing \/ Rest
  <2>1. UNCHANGED connVars /\ UNCHANGED toolVars
    BY <1>1 DEF vars, Drawing, Rest
  <2>2. UNCHANGED <<pc, toServer, rcvd, toClient, box, count, pings, pongs>>
    BY <2>1 DEF connVars, clientVars, sessionVars, toolVars
  <2>3. Answers' = Answers /\ NoTask'
    BY <1>a, <2>2 DEF Answers, NoTask
  <2> QED
    BY <2>2, <2>3, PingsStay
<1>2. CASE Receive /\ UNCHANGED <<toolVars, scriptVars>>
  <2>1. UNCHANGED <<pc, toServer, box, count, pings, pongs>>
    BY <1>2 DEF Receive, sessionVars, toolVars
  <2>2. Answers' = Answers /\ NoTask'
    BY <1>2, <1>a, <1>b, <2>1, AnswersRead DEF NoTask
  <2> QED
    BY <2>1, <2>2, PingsStay
<1>3. CASE ToolStep /\ Others /\ UNCHANGED scriptVars
  <2>1. ~SendRequest /\ ~HandleItem /\ ~HandleResult /\ ~Finish
    BY <1>0 DEF SendRequest, HandleItem, HandleResult, Finish
  <2>2. CASE StartThreads
    <3>1. /\ UNCHANGED <<toClient, rcvd, toServer, box, count, pongs>>
          /\ pc = "start" /\ pc' = "read" /\ pings' = count
      BY <1>3, <2>2 DEF Others, sessionVars, StartThreads
    <3>2. Answers' = Answers /\ Answers = <<>> /\ toServer = <<>> /\ Len(<<>>) = 0 /\ pongs = 0
      BY <3>1, None DEF Answers, PingsLeft
    <3>3. NoTask'
      BY <1>a, <3>1 DEF NoTask
    <3>4. pongs' + Len(Answers') + Len(toServer') + pings' <= count'
      BY <1>a, <3>1, <3>2
    <3> QED
      BY <1>a, <3>1, <3>3, <3>4 DEF PingsLeft
  <2>3. CASE FinishPings
    <3>1. /\ UNCHANGED <<rcvd, toServer, toClient, box, count, pings, pongs>>
          /\ pc # "start" /\ pc' # "start"
      BY <1>3, <2>3 DEF Others, sessionVars, FinishPings, AtEnd, Exit, toolVars
    <3>2. Answers' = Answers /\ NoTask'
      BY <1>a, <3>1 DEF Answers, NoTask
    <3> QED
      BY <3>1, <3>2 DEF PingsLeft
  <2>4. CASE HandlePong
    <3>1. /\ UNCHANGED <<toClient, box, toServer, count, pings, pc>>
          /\ pc = "read" /\ rcvd # <<>> /\ rcvd' = Tail(rcvd) /\ pongs' = pongs + 1
      BY <1>3, <2>4 DEF Others, sessionVars, HandlePong
    <3>2. Len(Answers') = Len(Answers) - 1
      BY <1>b, <3>1, AnswerTaken
    <3>3. NoTask'
      BY <1>a, <3>1 DEF NoTask
    <3>4. ASSUME NEW a \in Nat, NEW b \in Nat, a = Len(Answers), b = Len(toServer)
          PROVE  pongs' + Len(Answers') + Len(toServer') + pings' <= pongs + a + b + pings
      <4>1. (pongs + 1) + (a - 1) + b + pings <= pongs + a + b + pings
        BY <1>a
      <4> QED
        BY <3>1, <3>2, <3>4, <4>1
    <3>5. pongs' \in Nat /\ pings' \in Nat /\ count' = count /\ pc # "start" /\ pc' # "start"
      BY <1>a, <3>1
    <3> QED
      BY <1>a, <3>1, <3>3, <3>4, <3>5, PingsFall
  <2> QED
    BY <1>3, <2>1, <2>2, <2>3, <2>4 DEF ToolStep
<1>4. CASE PingerThread
  <2> DEFINE ping == Signal("ping", 0)
  <2>1. UNCHANGED <<rcvd, toClient, box, count, pongs>> /\ pc = "read" /\ pings > 0
    BY <1>4 DEF PingerThread, Others, sessionVars, Pinger, SendPing, Killed
  <2>2. Answers' = Answers /\ NoTask'
    BY <1>a, <2>1 DEF Answers, NoTask
  <2>3. CASE Killed /\ UNCHANGED pings
    <3>1. toServer' = toServer /\ pc' = "exited" /\ pings' = pings
      BY <2>3 DEF Killed, Exit
    <3> QED
      BY <2>1, <2>2, <3>1 DEF PingsLeft
  <2>4. CASE (Send(<<ping>>) \/ SendFails) /\ pings' = pings - 1 /\ pc' = pc
    <3>1. ping.type = "ping"
      BY DEF Signal, Frame
    <3> HIDE DEF ping
    <3>2. /\ Len(toServer') <= Len(toServer) + 1
          /\ \A k \in 1 .. Len(toServer') : toServer'[k].type = "ping"
      <4>1. CASE ended
        BY <1>a, <1>b, <2>4, <4>1, Sent
      <4>2. CASE ~ended
        <5>1. /\ Len(toServer') = Len(toServer) + 1 /\ toServer'[Len(toServer) + 1] = ping
              /\ \A k \in 1 .. Len(toServer) : toServer'[k] = toServer[k]
          BY <1>b, <2>4, <4>2, Sent
        <5>2. \A k \in 1 .. Len(toServer') : k \in 1 .. Len(toServer) \/ k = Len(toServer) + 1
          BY <1>b, <5>1
        <5> QED
          BY <1>a, <1>b, <3>1, <5>1, <5>2
      <4> QED
        BY <4>1, <4>2
    <3>3. ASSUME NEW a \in Nat, NEW b \in Nat, a = Len(Answers), b = Len(toServer)
          PROVE  pongs' + Len(Answers') + Len(toServer') + pings' <= pongs + a + b + pings
      <4>1. PICK c \in Nat : c = Len(toServer')
        BY <1>c
      <4>2. c <= b + 1
        BY <3>2, <3>3, <4>1
      <4>3. pongs + a + c + (pings - 1) <= pongs + a + b + pings
        BY <1>a, <4>2
      <4> QED
        BY <2>1, <2>2, <2>4, <3>3, <4>1, <4>3
    <3>4. pongs' \in Nat /\ pings' \in Nat /\ count' = count /\ pc # "start" /\ pc' # "start"
      BY <1>a, <2>1, <2>4
    <3> QED
      BY <2>2, <3>2, <3>3, <3>4, PingsFall
  <2> QED
    BY <1>4, <2>3, <2>4 DEF PingerThread, Pinger, SendPing
<1>5. CASE Session \/ StreamError \/ Loss
  <2>1. UNCHANGED <<pc, rcvd, count, pings, pongs>>
    BY <1>5 DEF Session, StreamError, Loss, SessionStep, Serve, ServeBadFrame, ServeEnd, TaskData,
                TaskResult, StreamFails, Cut, EndSession, clientVars, toolVars
  <2>2. \A i \in Ids : ~TaskData(i) /\ ~TaskResult(i) /\ ~StreamFails(i)
    BY <1>a DEF TaskData, TaskResult, StreamFails, NoTask
  <2>3. CASE Serve
    <3>1. toServer # <<>> /\ toServer' = Tail(toServer)
      BY <2>3 DEF Serve
    <3>2. /\ Len(toServer') = Len(toServer) - 1 /\ Head(toServer) = toServer[1] /\ Len(toServer) >= 1
          /\ \A k \in 1 .. Len(toServer) - 1 : toServer'[k] = toServer[k + 1]
      BY <1>b, <3>1, Tailed
    <3>3. Head(toServer).type = "ping"
      BY <1>a, <1>b, <3>2
    <3>4. Reply(<<Answer("pong", 0, 0)>>) /\ box' = Checked
      BY <2>3, <3>3 DEF Serve, ServeRequest, ServeRead, ServePing, ServeAck, ServeCancel
    <3> DEFINE pong == Answer("pong", 0, 0)
    <3>5. Reply(<<pong>>)
      BY <3>4
    <3> HIDE DEF pong
    <3>6. Len(Answers') = Len(Answers) + 1
      BY <1>b, <2>1, <3>5, OneSent
    <3>7. \A k \in 1 .. Len(toServer') : toServer'[k].type = "ping"
      <4>1. \A k \in 1 .. Len(toServer') : k \in 1 .. Len(toServer) - 1 /\ k + 1 \in 1 .. Len(toServer)
        BY <1>b, <3>2
      <4> QED
        BY <1>a, <3>2, <4>1
    <3>8. NoTask'
      BY <1>a, <3>4 DEF NoTask, Checked, Free, Call
    <3>9. pc # "start"
      BY <3>1 DEF PingsLeft
    <3>10. ASSUME NEW a \in Nat, NEW b \in Nat, a = Len(Answers), b = Len(toServer)
           PROVE  pongs' + Len(Answers') + Len(toServer') + pings' <= pongs + a + b + pings
      <4>1. pongs + (a + 1) + (b - 1) + pings <= pongs + a + b + pings
        BY <1>a
      <4> QED
        BY <2>1, <3>2, <3>6, <3>10, <4>1
    <3>11. pongs' \in Nat /\ pings' \in Nat /\ count' = count /\ pc' # "start"
      BY <1>a, <2>1, <3>9
    <3> QED
      BY <3>7, <3>8, <3>9, <3>10, <3>11, PingsFall
  <2>4. CASE ServeBadFrame \/ ServeEnd \/ Cut
    <3>1. /\ toServer' = <<>> /\ box' = [i \in Ids |-> Free]
          /\ toClient' = toClient \/ \E n \in 0 .. Len(toClient) : toClient' = SubSeq(toClient, 1, n)
      BY <2>4 DEF ServeBadFrame, ServeEnd, Cut, EndSession
    <3>2. Len(toServer') = 0 /\ NoTask'
      BY <3>1, None DEF NoTask, Free, Call
    <3>3. Len(Answers') <= Len(Answers)
      <4>1. CASE toClient' = toClient
        BY <1>b, <2>1, <4>1 DEF Answers
      <4>2. CASE toClient' # toClient
        <5>1. PICK n \in 0 .. Len(toClient) : toClient' = SubSeq(toClient, 1, n)
          BY <3>1, <4>2
        <5>2. Len(Answers') = Len(Answers) - (Len(toClient) - n)
          BY <1>b, <2>1, <5>1, AnswersLost
        <5>3. Len(toClient) \in Nat
          BY <1>b, SeqWidens
        <5> QED
          BY <1>b, <5>2, <5>3
      <4> QED
        BY <4>1, <4>2
    <3>4. CASE pc = "start"
      <4>1. /\ toServer = <<>> /\ Answers = <<>> /\ pings = 0 /\ pongs = 0
        BY <3>4 DEF PingsLeft
      <4>2. Len(Answers') = 0
        BY <1>c, <3>3, <4>1, None
      <4>3. Answers' = <<>>
        BY <1>c, <4>2, SeqWidens
      <4> QED
        BY <1>a, <2>1, <3>1, <3>2, <3>4, <4>1, <4>3 DEF PingsLeft
    <3>5. CASE pc # "start"
      <4>1. ASSUME NEW a \in Nat, NEW b \in Nat, a = Len(Answers), b = Len(toServer)
            PROVE  pongs' + Len(Answers') + Len(toServer') + pings' <= pongs + a + b + pings
        <5>1. PICK c \in Nat : c = Len(Answers')
          BY <1>c
        <5>2. pongs + c + 0 + pings <= pongs + a + b + pings
          BY <1>a, <3>3, <4>1, <5>1
        <5> QED
          BY <2>1, <3>2, <5>1, <5>2
      <4>2. \A k \in 1 .. Len(toServer') : toServer'[k].type = "ping"
        BY <3>2
      <4>3. pongs' \in Nat /\ pings' \in Nat /\ count' = count /\ pc' # "start"
        BY <1>a, <2>1, <3>5
      <4> QED
        BY <3>2, <3>5, <4>1, <4>2, <4>3, PingsFall
    <3> QED
      BY <3>4, <3>5
  <2> QED
    BY <1>5, <2>2, <2>3, <2>4 DEF Session, StreamError, Loss, SessionStep
<1> QED
  BY <1>0, <1>1, <1>2, <1>3, <1>4, <1>5 DEF Next, Program

LEMMA InitTypes == Init => TypesInv
<1> SUFFICES ASSUME Init PROVE TypesInv
  OBVIOUS
<1>1. /\ exit = "none" /\ result = Ok /\ rcvd = <<>> /\ toServer = <<>> /\ toClient = <<>>
      /\ window \in Windows /\ ended = FALSE /\ inFlight = 0
      /\ box = [i \in Ids |-> Free] /\ left = [i \in Ids |-> 0] /\ given = 0
      /\ files = [fd \in Fds |-> NoFile] /\ shown = [r \in Rows |-> -1] /\ served = <<>>
      /\ program \in Programs
      /\ raster = [r \in Rows |-> 0] /\ undrawn = {} /\ updates = 0
      /\ pc \in {"start", "next"} /\ (program = "fping" => pc = "start")
  BY DEF Init, InitConnection, InitTool, InitScript, IsTool, ToolSet
<1>2. IsSeq(<<>>) /\ Len(<<>>) = 0
  BY None
<1>3. Answers = <<>>
  BY <1>1, <1>2, AnswersAre
<1>4. MaxItems \in Nat /\ MaxUpdates \in Nat /\ Windows \subseteq Nat
  BY ConnectionAssumption, SyncedAssumption
<1>5. UnderWay /\ ServedFit
  BY <1>1, <1>2, <1>3 DEF UnderWay, FramesFit, AnswersFit, ServedFit
<1>6. Values
  <2>1. files \in [Fds -> Names] /\ shown \in [Rows -> Versions]
    BY <1>1, <1>4 DEF Names, Versions
  <2> QED
    BY <1>1, <2>1 DEF Values, Points, Exits, Results
<1>7. Images
  BY <1>1, <1>4 DEF Images, Versions
<1>8. Portions
  <2>1. Free.op # "read" /\ 0 \in Ids /\ 1 \in Ids
    BY DEF Free, Call, Ids
  <2> QED
    BY <1>1, <1>4, <2>1 DEF Portions
<1>9. Credit
  <2>1. \A k \in 1 .. Len(<<>>) : FALSE
    BY <1>2
  <2>2. Tally(<<>>, "ack") = 0 /\ Tally(<<>>, "read") = 0
    BY <2>1, FS_EmptySet DEF Tally
  <2> QED
    BY <1>1, <1>3, <1>4, <2>2 DEF Credit
<1>10. PingsLeft
  <2>1. NoTask
    BY <1>1 DEF NoTask, Free, Call
  <2>2. CASE program = "fping"
    <3>1. count \in 1 .. MaxPings /\ pings = 0 /\ pongs = 0
      BY <2>2 DEF Init, IsTool, ToolSet, InitTool
    <3> QED
      BY <1>1, <1>2, <1>3, <2>1, <2>2, <3>1 DEF PingsLeft
  <2>3. CASE program # "fping"
    <3>1. count = 0 /\ pings = 0 /\ pongs = 0
      BY <2>3 DEF Init, InitTool
    <3> QED
      BY <2>3, <3>1 DEF PingsLeft
  <2> QED
    BY <2>2, <2>3
<1> QED
  BY <1>5, <1>6, <1>7, <1>8, <1>9, <1>10 DEF TypesInv

\* Only fping pings.
LEMMA OthersDoNotPing ==
  ASSUME program # "fping", program' = program, PingsLeft, Next
  PROVE  PingsLeft'
<1>1. UNCHANGED toolVars
  <2>1. ~StartThreads /\ ~HandlePong /\ ~Pinger
    BY DEF StartThreads, HandlePong, Pinger, SendPing
  <2>2. SendRequest \/ HandleItem \/ HandleResult \/ Finish \/ FinishPings => UNCHANGED toolVars
    BY DEF SendRequest, HandleItem, HandleResult, Finish, FinishPings, toolVars
  <2>3. Program => UNCHANGED toolVars
    BY <2>1, <2>2 DEF Program, ToolStep
  <2> QED
    BY <2>1, <2>3 DEF Next, PingerThread, Session, StreamError, Drawing, Loss, Rest, vars
<1> QED
  BY <1>1 DEF PingsLeft, toolVars

LEMMA StepKeepsTypes == FilesInv /\ TypesInv /\ [Next]_vars => TypesInv'
<1> SUFFICES ASSUME FilesInv, TypesInv, [Next]_vars PROVE TypesInv'
  OBVIOUS
<1>1. /\ UnderWay /\ ServedFit /\ Values /\ Images /\ Portions /\ Credit /\ PingsLeft
      /\ program' = program
  BY ProgramStays DEF TypesInv
<1>2. CASE UNCHANGED vars
  <2>1. UNCHANGED connVars /\ UNCHANGED authorVars /\ UNCHANGED toolVars
    BY <1>2 DEF vars, scriptVars
  <2>2. UnderWay' /\ Values' /\ Images' /\ Portions' /\ ServedFit' /\ Credit'
    BY <1>1, <2>1, IdlingKeeps
  <2>3. PingsLeft'
    <3>1. UNCHANGED <<pc, toServer, rcvd, toClient, box, count, pings, pongs>>
      BY <2>1 DEF connVars, clientVars, sessionVars, toolVars
    <3>2. Answers' = Answers /\ NoTask' = NoTask
      BY <3>1 DEF Answers, NoTask
    <3> QED
      BY <1>1, <3>1, <3>2 DEF PingsLeft
  <2> QED
    BY <2>2, <2>3 DEF TypesInv
<1>3. CASE Next
  <2>1. UnderWay' /\ Values' /\ Images' /\ Portions' /\ ServedFit' /\ Credit'
    <3>1. CASE Drawing \/ Rest
      <4>1. UNCHANGED connVars /\ (Author \/ UNCHANGED authorVars)
        BY <3>1 DEF Drawing, Rest, vars, scriptVars
      <4> QED
        BY <1>1, <4>1, IdlingKeeps
    <3>2. CASE Receive /\ UNCHANGED <<toolVars, scriptVars>>
      BY <1>1, <3>2, ReadingKeeps
    <3>3. CASE IsTool /\ (ToolStep \/ Pinger) /\ Others /\ UNCHANGED scriptVars
      <4>1. Advances /\ UNCHANGED <<program, authorVars>>
        BY <1>1, <3>3, ToolAdvances DEF scriptVars
      <4> QED
        BY <1>1, <3>3, <4>1, AdvanceKeeps
    <3>4. CASE ~IsTool /\ ScriptStep /\ Others /\ UNCHANGED <<toolVars, authorVars>>
      <4>1. Advances /\ UNCHANGED <<program, authorVars>>
        BY <1>1, <3>4, ScriptAdvances
      <4> QED
        BY <1>1, <3>4, <4>1, AdvanceKeeps
    <3>5. CASE Session \/ StreamError \/ Loss
      <4>1. UNCHANGED scriptVars
        BY <3>5 DEF Session, StreamError, Loss
      <4>2. CASE Serve
        BY <1>1, <4>1, <4>2, ServeTypes
      <4>3. CASE ServeBadFrame \/ ServeEnd \/ Cut
        BY <1>1, <4>1, <4>3, EndTypes
      <4>4. CASE \E i \in Ids : TaskData(i) \/ TaskResult(i) \/ StreamFails(i)
        BY <1>1, <4>1, <4>4, TaskTypes
      <4> QED
        BY <3>5, <4>2, <4>3, <4>4 DEF Session, StreamError, Loss, SessionStep
    <3> QED
      BY <1>3, <3>1, <3>2, <3>3, <3>4, <3>5 DEF Next, Program, PingerThread
  <2>2. PingsLeft'
    BY <1>1, <1>3, <2>1, StepKeepsPingsLeft, OthersDoNotPing
  <2> QED
    BY <2>1, <2>2 DEF TypesInv
<1> QED
  BY <1>2, <1>3

\* Whatever the programs, their connection and the session keep, it is of its
\* type: no task has more data unacknowledged than --window allows, although
\* data and acks pass each other on the way and the connection may be lost
\* with any of them; the descriptors that next_fd gives stay in the session's
\* table and the rows that write_image sends in the image; and fping prints no
\* more pongs than it was told to send pings.
THEOREM ClientsTypes == Spec => []TypeOK
<1>1. Init => FilesInv /\ TypesInv
  BY InitAnswers, InitTable, InitTypes DEF FilesInv
<1>2. FilesInv /\ TypesInv /\ [Next]_vars => (FilesInv /\ TypesInv)'
  BY StepKeepsFiles, StepKeepsTypes
<1>3. FilesInv /\ TypesInv => TypeOK
  <2> SUFFICES ASSUME FilesInv, TypesInv PROVE TypeOK
    OBVIOUS
  <2>1. /\ program \in Programs /\ pc \in Points /\ exit \in Exits /\ result \in Results
        /\ files \in [Fds -> Names] /\ shown \in [Rows -> Versions]
        /\ box \in [Ids -> AllCalls \cup {Free, Done}]
    BY DEF TypesInv, Values, Portions
  <2>2. left \in [Ids -> 0 .. MaxItems] /\ given \in 0 .. MaxItems
    <3>1. \A a, b, c \in Nat : a + b <= c => a \in 0 .. c /\ b \in 0 .. c
      OBVIOUS
    <3>2. /\ given \in Nat /\ left \in [Ids -> Nat] /\ given + left[0] <= MaxItems /\ left[1] = 0
          /\ MaxItems \in Nat /\ left[0] \in Nat
      BY ConnectionAssumption DEF TypesInv, Portions, Ids
    <3>3. given \in 0 .. MaxItems /\ left[0] \in 0 .. MaxItems /\ left[1] \in 0 .. MaxItems
      BY <3>1, <3>2
    <3>4. \A i \in Ids : left[i] \in 0 .. MaxItems
      BY <3>3 DEF Ids
    <3> QED
      BY <3>2, <3>3, <3>4
  <2>3. \A k \in DOMAIN served : served[k].call.rows \subseteq Rows
    BY SeqWidens DEF TypesInv, ServedFit
  <2>4. window # 0 => inFlight \in 0 .. window
    BY DEF TypesInv, Credit
  <2>5. step \in 0 .. Len(script)
    <3>1. CASE IsTool
      BY <3>1, None DEF FilesInv, AnswerInv, CallInv
    <3>2. CASE ~IsTool
      BY <3>2 DEF FilesInv, AnswerInv, CallInv, Basic
    <3> QED
      BY <3>1, <3>2
  <2>6. pings \in 0 .. count /\ pongs \in 0 .. count
    <3>1. CASE program = "fping"
      <4>1. Len(Answers) \in Nat /\ Len(toServer) \in Nat
        BY SeqWidens DEF TypesInv, UnderWay, FramesFit, AnswersFit
      <4>2. count \in Nat /\ pings \in Nat /\ pongs \in Nat
            /\ ((pings = 0 /\ pongs = 0) \/ pongs + Len(Answers) + Len(toServer) + pings <= count)
        BY <3>1 DEF TypesInv, PingsLeft
      <4>3. \A a, b, c, d, n \in Nat : a + b + c + d <= n => a \in 0 .. n /\ d \in 0 .. n
        OBVIOUS
      <4> QED
        BY <4>1, <4>2, <4>3
    <3>2. CASE program # "fping"
      BY <3>2 DEF TypesInv, PingsLeft
    <3> QED
      BY <3>1, <3>2
  <2> QED
    BY <2>1, <2>2, <2>3, <2>4, <2>5, <2>6 DEF TypeOK, Points, Exits, Results, Names, Versions
<1> QED
  BY <1>1, <1>2, <1>3, PTL DEF Spec
=============================================================================
