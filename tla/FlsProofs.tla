------------------------------ MODULE FlsProofs ------------------------------
(***************************************************************************)
(* fls accounts for every entry and shows it with its own attributes.  The *)
(* invariant follows each request id through the two pipes: fls or the     *)
(* pipe holds the request, or its answer is on its way, or it has failed,  *)
(* and nothing else bears the id; and it follows the list, of which the    *)
(* names that are still on their way come before all answers.              *)
(***************************************************************************)
EXTENDS Fls, FiniteSetTheorems, SequenceTheorems, WellFoundedInduction, TLAPS

\* What has yet to be handled, and what has yet to be served.
Flow  == pipe \o reply
Queue == requests \o sending

AttributeTypes == {"mode", "nlink", "size"}
Stat   == [path : Paths, mode : Paths \cup {Default}, size : Paths \cup {Default}]
Reqs   == [type : {"stat", "list"}, id : 0 .. MaxId, path : Paths]
Frames == [type : AttributeTypes \cup {"dentry", "result", "error"}, id : 0 .. MaxId, of : Paths]
Lines  == [text : {"printed", "skipped"}, st : Stat]

Typed ==
  /\ DOMAIN stats \subseteq 0 .. MaxId /\ stats \in [DOMAIN stats -> Stat]
  /\ result \in {0, 1} /\ shut \in BOOLEAN
  /\ output \in Seq(Lines)
  /\ sending \in Seq(Reqs) /\ requests \in Seq(Reqs)
  /\ pipe \in Seq(Frames) /\ reply \in Seq(Frames)
  /\ Len(sending) <= 1 /\ Len(requests) <= RequestCap /\ Len(pipe) <= ReplyCap
  /\ files \subseteq Paths /\ listing \in Seq(Names)

\* Whether fls and the session run.
Ends ==
  /\ client \in {"running", "done"} /\ server \in {"running", "exited"}
  /\ shut => sending = <<>>
  /\ server = "exited" => shut /\ reply = <<>> /\ requests = <<>>
  /\ client = "done" => server = "exited" /\ pipe = <<>>

NoneIn(s, i) == \A k \in 1 .. Len(s) : s[k].id # i

OnlyIn(s, i, x) == \E k \in 1 .. Len(s) : s[k] = x /\ \A l \in 1 .. Len(s) : s[l].id = i => l = k

\* The rest of an answer: attributes, and the result.
AnswerIn(s, i, p) ==
  \E k \in 1 .. Len(s) :
    /\ s[k].id = i /\ s[k].type = "result"
    /\ \A l \in 1 .. Len(s) : s[l].id = i /\ l # k =>
         /\ l < k /\ s[l].of = p
         /\ s[l].type \in IF p \in dirs THEN {"mode", "nlink"} ELSE {"mode", "size"}

Coming(s, i, type) == \E k \in 1 .. Len(s) : s[k].id = i /\ s[k].type = type

Fresh(i) == stats[i] = NewStat(stats[i].path)

Asked(i) ==
  /\ Fresh(i) /\ NoneIn(Flow, i)
  /\ OnlyIn(Queue, i, Request("stat", i, stats[i].path))

Failing(i) ==
  /\ Fresh(i) /\ NoneIn(Queue, i)
  /\ OnlyIn(Flow, i, Frame("error", i, Path))

Answering(i) ==
  LET p == stats[i].path IN
  /\ NoneIn(Queue, i) /\ AnswerIn(Flow, i, p)
  /\ stats[i].mode = p \/ (stats[i].mode = Default /\ Coming(Flow, i, "mode"))
  /\ IF p \in dirs THEN stats[i].size = Default
                   ELSE stats[i].size = p \/ (stats[i].size = Default /\ Coming(Flow, i, "size"))

HasFailed(i) == Fresh(i) /\ NoneIn(Queue, i) /\ NoneIn(Flow, i) /\ result = 1 /\ shut

Tracked(i) == Asked(i) \/ Failing(i) \/ Answering(i) \/ HasFailed(i)

IdsTracked ==
  /\ \A i \in DOMAIN stats : Tracked(i)
  /\ \A i \in 1 .. MaxId : i \notin DOMAIN stats => NoneIn(Queue, i) /\ NoneIn(Flow, i)

\* The path given to fls is being asked for.
Root ==
  /\ DOMAIN stats = {0} /\ stats[0].path = Path
  /\ listing = <<>> /\ output = <<>>
  /\ shut => HasFailed(0)

\* It was none of a directory.
RootShown ==
  /\ DOMAIN stats = {} /\ Path \notin dirs /\ Queue = <<>> /\ Flow = <<>>
  /\ Len(output) = 1 /\ output[1].st.path = Path

ListAsked ==
  /\ DOMAIN stats = {} /\ Path \in dirs
  /\ Queue = <<Request("list", 0, Path)>> /\ Flow = <<>>
  /\ listing = <<>> /\ output = <<>> /\ ~shut

\* Each of the first n names was given an id or was skipped, once.
Named(n) ==
  /\ \A i \in DOMAIN stats : \E k \in 1 .. n : stats[i].path = listing[k]
  /\ \A j \in 1 .. Len(output) : \E k \in 1 .. n : output[j].st.path = listing[k]
  /\ \A k \in 1 .. n : \/ \E i \in DOMAIN stats : stats[i].path = listing[k]
                       \/ \E j \in 1 .. Len(output) : output[j].st.path = listing[k]

Once ==
  /\ \A i, j \in DOMAIN stats : stats[i].path = stats[j].path => i = j
  /\ \A i, j \in 1 .. Len(output) : output[i].st.path = output[j].st.path => i = j
  /\ \A i \in DOMAIN stats : \A j \in 1 .. Len(output) : stats[i].path # output[j].st.path
  /\ \A k, l \in 1 .. Len(listing) : listing[k] = listing[l] => k = l

\* n names have been handled; d names and the end of the list are on their way,
\* before anything else.
Pending(n, d) ==
  /\ Len(listing) = n + d /\ Named(n) /\ d + 1 <= Len(Flow)
  /\ \A k \in 1 .. d : Flow[k] = Frame("dentry", 0, listing[n + k])
  /\ Flow[d + 1].id = 0 /\ Flow[d + 1].type \in {"result", "error"}
  /\ \A k \in d + 2 .. Len(Flow) : Flow[k].id # 0

Listing ==
  /\ 0 \notin DOMAIN stats /\ Path \in dirs /\ ~shut /\ Once /\ NoneIn(Queue, 0)
  /\ \E n, d \in 0 .. Len(listing) : Pending(n, d)

Listed ==
  /\ 0 \notin DOMAIN stats /\ Path \in dirs /\ Once /\ NoneIn(Queue, 0) /\ NoneIn(Flow, 0)
  /\ Named(Len(listing)) /\ sending = <<>>

Phase == Root \/ RootShown \/ ListAsked \/ Listing \/ Listed

LinesMatch ==
  \A k \in 1 .. Len(output) : LET st == output[k].st IN
    IF output[k].text = "printed" THEN st.mode = st.path /\ (st.size = Default <=> st.path \in dirs)
                                  ELSE st.mode = Default

FlsInv == Typed /\ Ends /\ IdsTracked /\ Phase /\ LinesMatch

----------------------------------------------------------------------------
(* Sequences.                                                              *)

LEMMA TailIs ==
  ASSUME NEW S, NEW s \in Seq(S), s # <<>>
  PROVE  /\ Tail(s) \in Seq(S) /\ Len(Tail(s)) = Len(s) - 1
         /\ Len(s) \in Nat /\ Len(s) >= 1 /\ Head(s) = s[1] /\ s[1] \in S
         /\ \A k \in 1 .. Len(s) - 1 : Tail(s)[k] = s[k + 1]
<1>1. Len(s) \in Nat /\ Len(s) # 0
  BY LenProperties, EmptySeq
<1>2. /\ Tail(s) \in Seq(S) /\ Len(Tail(s)) = Len(s) - 1
      /\ \A k \in 1 .. Len(Tail(s)) : Tail(s)[k] = s[k + 1]
  BY HeadTailProperties
<1>3. Head(s) = s[1]
  BY <1>1
<1>4. s[1] \in S
  BY <1>1, ElementOfSeq
<1> QED
  BY <1>1, <1>2, <1>3, <1>4

LEMMA JoinIs ==
  ASSUME NEW S, NEW s \in Seq(S), NEW t \in Seq(S)
  PROVE  /\ s \o t \in Seq(S) /\ Len(s \o t) = Len(s) + Len(t)
         /\ Len(s) \in Nat /\ Len(t) \in Nat
         /\ \A k \in 1 .. Len(s) : (s \o t)[k] = s[k]
         /\ \A k \in 1 .. Len(t) : (s \o t)[Len(s) + k] = t[k]
         /\ \A k \in 1 .. Len(s \o t) : k \in 1 .. Len(s) \/ \E l \in 1 .. Len(t) : k = Len(s) + l
<1>1. /\ s \o t \in Seq(S) /\ Len(s \o t) = Len(s) + Len(t)
      /\ \A k \in 1 .. Len(s) + Len(t) : (s \o t)[k] = IF k <= Len(s) THEN s[k] ELSE t[k - Len(s)]
  BY ConcatProperties
<1>2. PICK m, n \in Nat : m = Len(s) /\ n = Len(t)
  BY LenProperties
<1>3. \A k \in 1 .. m : (s \o t)[k] = s[k]
  BY <1>1, <1>2
<1>4. ASSUME NEW k \in 1 .. n PROVE (s \o t)[m + k] = t[k]
  <2>1. m + k \in 1 .. m + n /\ ~(m + k <= m) /\ m + k - m = k
    BY <1>2
  <2> QED
    BY <1>1, <1>2, <2>1
<1>5. ASSUME NEW k \in 1 .. m + n PROVE k \in 1 .. m \/ \E l \in 1 .. n : k = m + l
  <2>1. k \in 1 .. m \/ (k - m \in 1 .. n /\ k = m + (k - m))
    BY <1>2
  <2> QED
    BY <2>1
<1> QED
  BY <1>1, <1>2, <1>3, <1>4, <1>5

LEMMA TailOfJoin ==
  ASSUME NEW S, NEW s \in Seq(S), s # <<>>, NEW t \in Seq(S)
  PROVE  Tail(s \o t) = Tail(s) \o t /\ s \o t # <<>> /\ Head(s \o t) = Head(s)
<1> DEFINE u == s \o t  v == Tail(s) \o t
<1>1. PICK m, n \in Nat : m = Len(s) /\ n = Len(t) /\ m >= 1
  BY TailIs, LenProperties
<1>2. /\ Tail(s) \in Seq(S) /\ Len(Tail(s)) = m - 1 /\ Head(s) = s[1]
      /\ \A k \in 1 .. m - 1 : Tail(s)[k] = s[k + 1]
  BY <1>1, TailIs
<1>3. /\ u \in Seq(S) /\ Len(u) = m + n
      /\ \A k \in 1 .. m : u[k] = s[k]
      /\ \A k \in 1 .. n : u[m + k] = t[k]
  BY <1>1, JoinIs
<1>4. /\ v \in Seq(S) /\ Len(v) = m - 1 + n
      /\ \A k \in 1 .. m - 1 : v[k] = Tail(s)[k]
      /\ \A k \in 1 .. n : v[m - 1 + k] = t[k]
  BY <1>1, <1>2, JoinIs
<1>5. u # <<>>
  BY <1>1, <1>3, EmptySeq
<1> HIDE DEF u, v
<1>6. /\ Tail(u) \in Seq(S) /\ Len(Tail(u)) = m + n - 1 /\ Head(u) = u[1]
      /\ \A k \in 1 .. m + n - 1 : Tail(u)[k] = u[k + 1]
  BY <1>1, <1>3, <1>5, TailIs
<1>7. ASSUME NEW k \in 1 .. m + n - 1 PROVE Tail(u)[k] = v[k]
  <2>1. CASE k <= m - 1
    <3>1. k \in 1 .. m - 1 /\ k + 1 \in 1 .. m
      BY <1>1, <2>1
    <3> QED
      BY <1>2, <1>3, <1>4, <1>6, <1>7, <3>1
  <2>2. CASE k >= m
    <3>1. PICK l \in 1 .. n : k = m - 1 + l /\ k + 1 = m + l
      <4>1. k - m + 1 \in 1 .. n /\ k = m - 1 + (k - m + 1) /\ k + 1 = m + (k - m + 1)
        BY <1>1, <1>7, <2>2
      <4> QED
        BY <4>1
    <3>2. Tail(u)[k] = u[k + 1]
      BY <1>6, <1>7
    <3>3. u[m + l] = t[l] /\ v[m - 1 + l] = t[l]
      BY <1>3, <1>4
    <3> QED
      BY <3>1, <3>2, <3>3
  <2>3. k <= m - 1 \/ k >= m
    BY <1>1, <1>7
  <2> QED
    BY <2>1, <2>2, <2>3
<1>8. Len(v) = m + n - 1
  BY <1>1, <1>4
<1>9. Tail(u) = v
  BY <1>4, <1>6, <1>7, <1>8, SeqEqual
<1>10. Head(u) = Head(s)
  BY <1>1, <1>2, <1>3, <1>6
<1> QED
  BY <1>5, <1>9, <1>10 DEF u, v

\* What is known of an id in one sequence holds of it in the other.
Passes(s, t, i) ==
  /\ NoneIn(s, i) => NoneIn(t, i)
  /\ \A x : x.id = i /\ OnlyIn(s, i, x) => OnlyIn(t, i, x)
  /\ \A p : AnswerIn(s, i, p) => AnswerIn(t, i, p)
  /\ \A type : Coming(s, i, type) => Coming(t, i, type)

LEMMA TailPasses ==
  ASSUME NEW S, NEW s \in Seq(S), s # <<>>, NEW i, s[1].id # i
  PROVE  Passes(s, Tail(s), i)
<1> DEFINE t == Tail(s)
<1>1. PICK n \in Nat : n = Len(s) /\ n >= 1
  BY TailIs
<1>2. Len(t) = n - 1 /\ \A k \in 1 .. n - 1 : t[k] = s[k + 1]
  BY <1>1, TailIs
<1> HIDE DEF t
<1>3. \A k \in 1 .. n - 1 : k + 1 \in 1 .. n /\ k + 1 # 1
  BY <1>1
<1>4. ASSUME NEW k \in 1 .. n, s[k].id = i PROVE \E l \in 1 .. n - 1 : k = l + 1
  <2>1. k # 1
    BY <1>4
  <2>2. k - 1 \in 1 .. n - 1 /\ k = (k - 1) + 1
    BY <1>1, <2>1
  <2> QED
    BY <2>2
<1>5. NoneIn(s, i) => NoneIn(t, i)
  BY <1>1, <1>2, <1>3 DEF NoneIn
<1>6. ASSUME NEW x, x.id = i, OnlyIn(s, i, x) PROVE OnlyIn(t, i, x)
  <2>1. PICK k \in 1 .. n : s[k] = x /\ \A l \in 1 .. n : s[l].id = i => l = k
    BY <1>1, <1>6 DEF OnlyIn
  <2>2. PICK j \in 1 .. n - 1 : k = j + 1
    BY <1>4, <1>6, <2>1
  <2>3. ASSUME NEW l \in 1 .. n - 1, t[l].id = i PROVE l = j
    <3>1. l + 1 = j + 1
      BY <1>2, <1>3, <2>1, <2>2, <2>3
    <3> QED
      BY <3>1
  <2> QED
    BY <1>2, <2>1, <2>2, <2>3 DEF OnlyIn
<1>7. ASSUME NEW p, AnswerIn(s, i, p) PROVE AnswerIn(t, i, p)
  <2>1. PICK k \in 1 .. n :
          /\ s[k].id = i /\ s[k].type = "result"
          /\ \A l \in 1 .. n : s[l].id = i /\ l # k =>
               /\ l < k /\ s[l].of = p
               /\ s[l].type \in IF p \in dirs THEN {"mode", "nlink"} ELSE {"mode", "size"}
    BY <1>1, <1>7 DEF AnswerIn
  <2>2. PICK j \in 1 .. n - 1 : k = j + 1
    BY <1>4, <2>1
  <2>3. ASSUME NEW l \in 1 .. n - 1, t[l].id = i, l # j
        PROVE  /\ l < j /\ t[l].of = p
               /\ t[l].type \in IF p \in dirs THEN {"mode", "nlink"} ELSE {"mode", "size"}
    <3>1. l + 1 # k
      BY <2>2, <2>3
    <3>2. l + 1 < j + 1
      BY <1>2, <1>3, <2>1, <2>2, <2>3, <3>1
    <3>3. l < j
      BY <3>2
    <3> QED
      BY <1>2, <1>3, <2>1, <2>3, <3>1, <3>3
  <2> QED
    BY <1>2, <2>1, <2>2, <2>3 DEF AnswerIn
<1>8. ASSUME NEW type, Coming(s, i, type) PROVE Coming(t, i, type)
  <2>1. PICK k \in 1 .. n : s[k].id = i /\ s[k].type = type
    BY <1>1, <1>8 DEF Coming
  <2>2. PICK j \in 1 .. n - 1 : k = j + 1
    BY <1>4, <2>1
  <2> QED
    BY <1>2, <2>1, <2>2 DEF Coming
<1> QED
  BY <1>5, <1>6, <1>7, <1>8 DEF Passes, t

LEMMA JoinPasses ==
  ASSUME NEW S, NEW s \in Seq(S), NEW t \in Seq(S), NEW i
  PROVE  /\ NoneIn(t, i) => Passes(s, s \o t, i)
         /\ NoneIn(s, i) => Passes(t, s \o t, i)
<1> DEFINE u == s \o t
<1>1. PICK m, n \in Nat : m = Len(s) /\ n = Len(t)
  BY LenProperties
<1>2. /\ Len(u) = m + n
      /\ \A k \in 1 .. m : u[k] = s[k]
      /\ \A k \in 1 .. n : u[m + k] = t[k]
      /\ \A k \in 1 .. m + n : k \in 1 .. m \/ \E l \in 1 .. n : k = m + l
  BY <1>1, JoinIs
<1> HIDE DEF u
<1>3. /\ \A k \in 1 .. m : k \in 1 .. m + n
      /\ \A k \in 1 .. n : m + k \in 1 .. m + n
      /\ \A k, l \in 1 .. n : m + k = m + l => k = l
      /\ \A k, l \in 1 .. n : k < l => m + k < m + l
  OBVIOUS
<1>4. ASSUME NoneIn(t, i) PROVE Passes(s, u, i)
  <2>1. \A k \in 1 .. m + n : u[k].id = i => k \in 1 .. m /\ u[k] = s[k]
    BY <1>1, <1>2, <1>4 DEF NoneIn
  <2>2. NoneIn(s, i) => NoneIn(u, i)
    BY <1>1, <1>2, <2>1 DEF NoneIn
  <2>3. ASSUME NEW x, x.id = i, OnlyIn(s, i, x) PROVE OnlyIn(u, i, x)
    <3>1. PICK k \in 1 .. m : s[k] = x /\ \A l \in 1 .. m : s[l].id = i => l = k
      BY <1>1, <2>3 DEF OnlyIn
    <3>2. \A l \in 1 .. m + n : u[l].id = i => l = k
      BY <2>1, <3>1
    <3> QED
      BY <1>2, <1>3, <3>1, <3>2 DEF OnlyIn
  <2>4. ASSUME NEW p, AnswerIn(s, i, p) PROVE AnswerIn(u, i, p)
    <3>1. PICK k \in 1 .. m :
            /\ s[k].id = i /\ s[k].type = "result"
            /\ \A l \in 1 .. m : s[l].id = i /\ l # k =>
                 /\ l < k /\ s[l].of = p
                 /\ s[l].type \in IF p \in dirs THEN {"mode", "nlink"} ELSE {"mode", "size"}
      BY <1>1, <2>4 DEF AnswerIn
    <3>2. \A l \in 1 .. m + n : u[l].id = i /\ l # k =>
            /\ l < k /\ u[l].of = p
            /\ u[l].type \in IF p \in dirs THEN {"mode", "nlink"} ELSE {"mode", "size"}
      BY <2>1, <3>1
    <3> QED
      BY <1>2, <1>3, <3>1, <3>2 DEF AnswerIn
  <2>5. ASSUME NEW type, Coming(s, i, type) PROVE Coming(u, i, type)
    BY <1>1, <1>2, <1>3, <2>5 DEF Coming
  <2> QED
    BY <2>2, <2>3, <2>4, <2>5 DEF Passes
<1>5. ASSUME NoneIn(s, i) PROVE Passes(t, u, i)
  <2>1. \A k \in 1 .. m + n : u[k].id = i => \E l \in 1 .. n : k = m + l /\ u[k] = t[l]
    <3> SUFFICES ASSUME NEW k \in 1 .. m + n, u[k].id = i
                 PROVE  \E l \in 1 .. n : k = m + l /\ u[k] = t[l]
      OBVIOUS
    <3>1. k \notin 1 .. m
      BY <1>1, <1>2, <1>5 DEF NoneIn
    <3> QED
      BY <1>2, <3>1
  <2>2. NoneIn(t, i) => NoneIn(u, i)
    BY <1>1, <1>2, <2>1 DEF NoneIn
  <2>3. ASSUME NEW x, x.id = i, OnlyIn(t, i, x) PROVE OnlyIn(u, i, x)
    <3>1. PICK k \in 1 .. n : t[k] = x /\ \A l \in 1 .. n : t[l].id = i => l = k
      BY <1>1, <2>3 DEF OnlyIn
    <3>2. \A l \in 1 .. m + n : u[l].id = i => l = m + k
      BY <2>1, <3>1
    <3> QED
      BY <1>2, <1>3, <3>1, <3>2 DEF OnlyIn
  <2>4. ASSUME NEW p, AnswerIn(t, i, p) PROVE AnswerIn(u, i, p)
    <3>1. PICK k \in 1 .. n :
            /\ t[k].id = i /\ t[k].type = "result"
            /\ \A l \in 1 .. n : t[l].id = i /\ l # k =>
                 /\ l < k /\ t[l].of = p
                 /\ t[l].type \in IF p \in dirs THEN {"mode", "nlink"} ELSE {"mode", "size"}
      BY <1>1, <2>4 DEF AnswerIn
    <3>2. ASSUME NEW j \in 1 .. m + n, u[j].id = i, j # m + k
          PROVE  /\ j < m + k /\ u[j].of = p
                 /\ u[j].type \in IF p \in dirs THEN {"mode", "nlink"} ELSE {"mode", "size"}
      <4>1. PICK l \in 1 .. n : j = m + l /\ u[j] = t[l]
        BY <2>1, <3>2
      <4>2. l # k /\ t[l].id = i
        BY <3>2, <4>1
      <4>3. l < k
        BY <3>1, <4>2
      <4>4. j < m + k
        BY <1>3, <4>1, <4>3
      <4> QED
        BY <3>1, <4>1, <4>2, <4>4
    <3>3. m + k \in 1 .. m + n /\ u[m + k] = t[k]
      BY <1>2, <1>3
    <3> QED
      BY <1>2, <3>1, <3>2, <3>3 DEF AnswerIn
  <2>5. ASSUME NEW type, Coming(t, i, type) PROVE Coming(u, i, type)
    <3>1. PICK k \in 1 .. n : t[k].id = i /\ t[k].type = type
      BY <1>1, <2>5 DEF Coming
    <3>2. m + k \in 1 .. Len(u) /\ u[m + k] = t[k]
      BY <1>2, <1>3
    <3> QED
      BY <3>1, <3>2 DEF Coming
  <2> QED
    BY <2>2, <2>3, <2>4, <2>5 DEF Passes
<1> QED
  BY <1>4, <1>5 DEF u

LEMMA SamePasses ==
  ASSUME NEW s, NEW i
  PROVE  Passes(s, s, i)
BY DEF Passes

LEMMA Regroup ==
  ASSUME NEW S, NEW a \in Seq(S), NEW b \in Seq(S), NEW c \in Seq(S)
  PROVE  (a \o b) \o c = a \o (b \o c)
  BY ConcatAssociative

LEMMA HeadMoves ==
  ASSUME NEW S, NEW s \in Seq(S), NEW t \in Seq(S), t # <<>>
  PROVE  /\ Append(s, Head(t)) \o Tail(t) = s \o t
         /\ Append(s, Head(t)) \in Seq(S) /\ Len(Append(s, Head(t))) = Len(s) + 1
<1>1. /\ Tail(t) \in Seq(S) /\ Len(Tail(t)) = Len(t) - 1 /\ Len(t) >= 1 /\ Len(t) \in Nat
      /\ Head(t) = t[1] /\ t[1] \in S
      /\ \A k \in 1 .. Len(t) - 1 : Tail(t)[k] = t[k + 1]
  BY TailIs
<1>2. PICK n \in Nat : n = Len(t) /\ n >= 1
  BY <1>1
<1>3. PICK rest \in Seq(S) : /\ rest = Tail(t) /\ Len(rest) = n - 1
                            /\ \A k \in 1 .. n - 1 : rest[k] = t[k + 1]
  BY <1>1, <1>2
<1>4. PICK x \in Seq(S) : x = <<Head(t)>> /\ Len(x) = 1 /\ x[1] = t[1]
  <2>1. <<Head(t)>> \in Seq(S) /\ Len(<<Head(t)>>) = 1 /\ <<Head(t)>>[1] = t[1]
    BY <1>1
  <2> QED
    BY <2>1
<1>5. Append(s, Head(t)) = s \o x
  BY <1>1, <1>4
<1>6. s \o x \in Seq(S) /\ Len(s \o x) = Len(s) + 1
  BY <1>4, JoinIs
<1>7. PICK y \in Seq(S) : /\ y = x \o rest /\ Len(y) = Len(x) + Len(rest)
                          /\ \A k \in 1 .. Len(x) : y[k] = x[k]
                          /\ \A k \in 1 .. Len(rest) : y[Len(x) + k] = rest[k]
  <2>1. /\ x \o rest \in Seq(S) /\ Len(x \o rest) = Len(x) + Len(rest)
        /\ \A k \in 1 .. Len(x) : (x \o rest)[k] = x[k]
        /\ \A k \in 1 .. Len(rest) : (x \o rest)[Len(x) + k] = rest[k]
    BY JoinIs
  <2> QED
    BY <2>1
<1>8. Len(y) = n /\ y[1] = t[1] /\ \A k \in 1 .. n - 1 : y[1 + k] = t[k + 1]
  BY <1>2, <1>3, <1>4, <1>7
<1>9. ASSUME NEW k \in 1 .. n PROVE y[k] = t[k]
  <2>1. k = 1 \/ (k - 1 \in 1 .. n - 1 /\ 1 + (k - 1) = k /\ (k - 1) + 1 = k)
    BY <1>2
  <2> QED
    BY <1>8, <2>1
<1>10. y = t
  BY <1>2, <1>8, <1>9, SeqEqual
<1>11. (s \o x) \o rest = s \o (x \o rest)
  BY Regroup, SMTT(30)
<1> QED
  BY <1>3, <1>5, <1>6, <1>7, <1>10, <1>11

----------------------------------------------------------------------------
(* What steps do to the pipes.                                             *)

LEMMA FlowIs ==
  ASSUME Typed
  PROVE  /\ Flow \in Seq(Frames) /\ Len(Flow) \in Nat
         /\ Queue \in Seq(Reqs) /\ Len(Queue) \in Nat
         /\ Flow = <<>> <=> pipe = <<>> /\ reply = <<>>
         /\ Queue = <<>> <=> requests = <<>> /\ sending = <<>>
         /\ DOMAIN output = 1 .. Len(output) /\ Len(output) \in Nat
         /\ DOMAIN listing = 1 .. Len(listing) /\ Len(listing) \in Nat
<1>1. Flow \in Seq(Frames) /\ Queue \in Seq(Reqs)
  BY JoinIs DEF Typed, Flow, Queue
<1>2. Len(Flow) \in Nat /\ Len(Queue) \in Nat
  BY <1>1, LenProperties
<1>3. /\ Flow = <<>> <=> pipe = <<>> /\ reply = <<>>
      /\ Queue = <<>> <=> requests = <<>> /\ sending = <<>>
  BY ConcatEqualIffEmpty DEF Typed, Flow, Queue
<1>4. /\ DOMAIN output = 1 .. Len(output) /\ Len(output) \in Nat
      /\ DOMAIN listing = 1 .. Len(listing) /\ Len(listing) \in Nat
  BY LenProperties DEF Typed
<1> QED
  BY <1>1, <1>2, <1>3, <1>4

\* fls takes a frame from the pipe, and may have something to send then.
LEMMA FlowTaken ==
  ASSUME Typed, pipe # <<>>, sending = <<>>, pipe' = Tail(pipe), UNCHANGED <<reply, requests>>,
         sending' \in Seq(Reqs)
  PROVE  /\ Flow # <<>> /\ Flow' = Tail(Flow) /\ Head(pipe) = Flow[1] /\ Flow[1] \in Frames
         /\ Queue' = Queue \o sending'
<1>1. Flow # <<>> /\ Flow' = Tail(Flow) /\ Head(pipe) = Head(Flow)
  BY TailOfJoin DEF Flow, Typed
<1>2. Head(Flow) = Flow[1] /\ Flow[1] \in Frames
  BY <1>1, FlowIs, TailIs
<1>3. Queue = requests
  BY ConcatEmptySeq DEF Queue, Typed
<1> QED
  BY <1>1, <1>2, <1>3 DEF Queue

\* The session takes a request and answers it.
LEMMA QueueTaken ==
  ASSUME Typed, requests # <<>>, reply = <<>>, requests' = Tail(requests), UNCHANGED <<pipe, sending>>,
         reply' \in Seq(Frames)
  PROVE  /\ Queue # <<>> /\ Queue' = Tail(Queue) /\ Head(requests) = Queue[1] /\ Queue[1] \in Reqs
         /\ Flow' = Flow \o reply'
<1>1. Queue # <<>> /\ Queue' = Tail(Queue) /\ Head(requests) = Head(Queue)
  BY TailOfJoin DEF Queue, Typed
<1>2. Head(Queue) = Queue[1] /\ Queue[1] \in Reqs
  BY <1>1, FlowIs, TailIs
<1>3. Flow = pipe
  BY ConcatEmptySeq DEF Flow, Typed
<1> QED
  BY <1>1, <1>2, <1>3 DEF Flow

LEMMA ReplyMoves ==
  ASSUME Typed, reply # <<>>, pipe' = Append(pipe, Head(reply)), reply' = Tail(reply)
  PROVE  Flow' = Flow /\ pipe' \in Seq(Frames) /\ reply' \in Seq(Frames) /\ Len(pipe') = Len(pipe) + 1
<1>1. reply \in Seq(Frames) /\ pipe \in Seq(Frames)
  BY DEF Typed
<1>2. Tail(reply) \in Seq(Frames)
  BY <1>1, TailIs
<1> QED
  BY <1>1, <1>2, HeadMoves DEF Flow

LEMMA RequestMoves ==
  ASSUME Typed, requests' = requests \o sending, sending' = <<>>
  PROVE  Queue' = Queue /\ requests' \in Seq(Reqs) /\ Len(requests') = Len(requests) + Len(sending)
<1>1. requests' \in Seq(Reqs) /\ Len(requests') = Len(requests) + Len(sending)
  BY JoinIs DEF Typed
<1> QED
  BY <1>1, ConcatEmptySeq DEF Queue

----------------------------------------------------------------------------
(* What comes next.                                                        *)

\* The first element of a sequence is the answer's, and is taken from it.
LEMMA TailOwn ==
  ASSUME NEW S, NEW s \in Seq(S), s # <<>>, NEW i, s[1].id = i
  PROVE  /\ \A x : OnlyIn(s, i, x) => s[1] = x /\ NoneIn(Tail(s), i)
         /\ \A p : AnswerIn(s, i, p) =>
              IF s[1].type = "result" THEN NoneIn(Tail(s), i)
              ELSE /\ AnswerIn(Tail(s), i, p) /\ s[1].of = p
                   /\ s[1].type \in IF p \in dirs THEN {"mode", "nlink"} ELSE {"mode", "size"}
         /\ \A type : Coming(s, i, type) /\ s[1].type # type => Coming(Tail(s), i, type)
<1> DEFINE t == Tail(s)
<1>1. PICK n \in Nat : n = Len(s) /\ n >= 1
  BY TailIs
<1>2. Len(t) = n - 1 /\ \A k \in 1 .. n - 1 : t[k] = s[k + 1]
  BY <1>1, TailIs
<1> HIDE DEF t
<1>3. /\ 1 \in 1 .. n /\ ~ \E k \in 1 .. n : k < 1
      /\ \A k \in 1 .. n - 1 : k + 1 \in 1 .. n /\ k + 1 # 1 /\ ~ (k + 1 < 1)
      /\ \A k, l \in 1 .. n - 1 : (k + 1 = l + 1 => k = l) /\ (k + 1 < l + 1 => k < l)
  BY <1>1
<1>4. ASSUME NEW k \in 1 .. n, k # 1 PROVE \E l \in 1 .. n - 1 : k = l + 1
  <2>1. k - 1 \in 1 .. n - 1 /\ k = (k - 1) + 1
    BY <1>1, <1>4
  <2> QED
    BY <2>1
<1>5. ASSUME NEW x, OnlyIn(s, i, x) PROVE s[1] = x /\ NoneIn(t, i)
  <2>1. PICK k \in 1 .. n : s[k] = x /\ \A l \in 1 .. n : s[l].id = i => l = k
    BY <1>1, <1>5 DEF OnlyIn
  <2>2. k = 1
    BY <1>3, <2>1
  <2>3. ASSUME NEW l \in 1 .. n - 1 PROVE t[l].id # i
    BY <1>2, <1>3, <2>1, <2>2
  <2> QED
    BY <1>2, <2>1, <2>2, <2>3 DEF NoneIn
<1>6. ASSUME NEW p, AnswerIn(s, i, p)
      PROVE  IF s[1].type = "result" THEN NoneIn(t, i)
             ELSE /\ AnswerIn(t, i, p) /\ s[1].of = p
                  /\ s[1].type \in IF p \in dirs THEN {"mode", "nlink"} ELSE {"mode", "size"}
  <2>1. PICK k \in 1 .. n :
          /\ s[k].id = i /\ s[k].type = "result"
          /\ \A l \in 1 .. n : s[l].id = i /\ l # k =>
               /\ l < k /\ s[l].of = p
               /\ s[l].type \in IF p \in dirs THEN {"mode", "nlink"} ELSE {"mode", "size"}
    BY <1>1, <1>6 DEF AnswerIn
  <2>2. CASE k = 1
    <3>1. ASSUME NEW l \in 1 .. n - 1 PROVE t[l].id # i
      BY <1>2, <1>3, <2>1, <2>2
    <3> QED
      BY <1>2, <2>1, <2>2, <3>1 DEF NoneIn
  <2>3. CASE k # 1
    <3>1. PICK j \in 1 .. n - 1 : k = j + 1
      BY <1>4, <2>3
    <3>2. ASSUME NEW l \in 1 .. n - 1, t[l].id = i, l # j
          PROVE  /\ l < j /\ t[l].of = p
                 /\ t[l].type \in IF p \in dirs THEN {"mode", "nlink"} ELSE {"mode", "size"}
      <4>1. l + 1 # k /\ l + 1 \in 1 .. n /\ t[l] = s[l + 1]
        BY <1>2, <1>3, <3>1, <3>2
      <4>2. l + 1 < j + 1
        BY <2>1, <3>1, <3>2, <4>1
      <4>3. l < j
        BY <1>3, <4>2
      <4> QED
        BY <2>1, <3>2, <4>1, <4>3
    <3>3. AnswerIn(t, i, p)
      BY <1>2, <2>1, <3>1, <3>2 DEF AnswerIn
    <3>4. /\ s[1].of = p
          /\ s[1].type \in IF p \in dirs THEN {"mode", "nlink"} ELSE {"mode", "size"}
      BY <1>3, <2>1, <2>3
    <3> QED
      BY <3>3, <3>4
  <2> QED
    BY <2>2, <2>3
<1>7. ASSUME NEW type, Coming(s, i, type), s[1].type # type PROVE Coming(t, i, type)
  <2>1. PICK k \in 1 .. n : s[k].id = i /\ s[k].type = type
    BY <1>1, <1>7 DEF Coming
  <2>2. PICK j \in 1 .. n - 1 : k = j + 1
    BY <1>4, <1>7, <2>1
  <2> QED
    BY <1>2, <2>1, <2>2 DEF Coming
<1> QED
  BY <1>5, <1>6, <1>7 DEF t

LEMMA OnlyOwn ==
  ASSUME NEW S, NEW s \in Seq(S), s # <<>>, NEW i, s[1].id = i, NEW x, OnlyIn(s, i, x)
  PROVE  NoneIn(Tail(s), i)
<1>1. \A y : OnlyIn(s, i, y) => s[1] = y /\ NoneIn(Tail(s), i)
  BY TailOwn
<1> QED
  BY <1>1

\* Nothing is there if nothing bears any id.
LEMMA NoneAtAll ==
  ASSUME NEW S, NEW s \in Seq(S), \A x \in S : x.id \in 0 .. MaxId, \A i \in 0 .. MaxId : NoneIn(s, i)
  PROVE  s = <<>>
<1>1. SUFFICES ASSUME s # <<>> PROVE FALSE
  OBVIOUS
<1>2. s[1] \in S /\ 1 \in 1 .. Len(s)
  BY <1>1, TailIs
<1> QED
  BY <1>2 DEF NoneIn

LEMMA LeastIs ==
  ASSUME NEW T \in SUBSET Nat, T # {}
  PROVE  \E i \in T : \A j \in T : i <= j
<1>1. IsWellFoundedOn(OpToRel(<, Nat), Nat)
  BY NatLessThanWellFounded
<1>2. PICK i \in T : \A j \in T : <<j, i>> \notin OpToRel(<, Nat)
  BY <1>1, WFMin
<1>3. ASSUME NEW j \in T PROVE i <= j
  <2>1. <<j, i>> \in OpToRel(<, Nat) <=> j < i
    BY DEF OpToRel
  <2>2. ~ (j < i)
    BY <1>2, <2>1, Zenon
  <2>3. i \in Nat /\ j \in Nat
    OBVIOUS
  <2> QED
    BY <2>2, <2>3
<1> QED
  BY <1>3

LEMMA NextIdIs ==
  NextId # 0 => NextId \in 1 .. MaxId /\ NextId \notin DOMAIN stats
<1> DEFINE unused == 1 .. MaxId \ DOMAIN stats
<1>1. SUFFICES ASSUME unused # {} PROVE NextId \in unused
  BY DEF NextId
<1>2. unused \in SUBSET Nat
  BY FlsAssumption
<1>3. \E i \in unused : \A j \in unused : i <= j
  BY <1>1, <1>2, LeastIs
<1> QED
  BY <1>1, <1>3 DEF NextId

\* The frame that fls handles next.
LEMMA HeadComes ==
  ASSUME Typed, IdsTracked, Phase, Flow # <<>>, NEW f, f = Flow[1]
  PROVE  \/ /\ f.id \in DOMAIN stats /\ Failing(f.id) /\ f.type = "error"
         \/ /\ f.id \in DOMAIN stats /\ Answering(f.id) /\ f.type = "result"
         \/ /\ f.id \in DOMAIN stats /\ Answering(f.id) /\ f.of = stats[f.id].path
            /\ f.type \in IF f.of \in dirs THEN {"mode", "nlink"} ELSE {"mode", "size"}
         \/ /\ f.id \notin DOMAIN stats /\ f.id = 0 /\ Listing
            /\ f.type \in {"dentry", "result", "error"}
<1>1. Flow \in Seq(Frames) /\ f \in Frames /\ f.id \in 0 .. MaxId /\ 1 \in 1 .. Len(Flow)
  <2>1. Flow \in Seq(Frames) /\ f \in Frames /\ 1 \in 1 .. Len(Flow)
    BY FlowIs, TailIs
  <2> QED
    BY <2>1 DEF Frames
<1>2. ~ NoneIn(Flow, f.id)
  BY <1>1 DEF NoneIn
<1>5. /\ \A x : OnlyIn(Flow, f.id, x) => f = x
      /\ \A p : AnswerIn(Flow, f.id, p) /\ f.type # "result" =>
           f.of = p /\ f.type \in IF p \in dirs THEN {"mode", "nlink"} ELSE {"mode", "size"}
  <2>1. PICK i : i = f.id /\ Flow[1].id = i
    OBVIOUS
  <2> QED
    BY <1>1, <2>1, TailOwn
<1>3. CASE f.id \in DOMAIN stats
  <2>1. Failing(f.id) \/ Answering(f.id)
    BY <1>2, <1>3 DEF IdsTracked, Tracked, Asked, HasFailed
  <2>2. CASE Failing(f.id)
    <3>1. f = Frame("error", f.id, Path)
      BY <1>5, <2>2 DEF Failing
    <3> QED
      BY <1>3, <2>2, <3>1 DEF Frame
  <2>3. CASE Answering(f.id)
    <3>1. AnswerIn(Flow, f.id, stats[f.id].path)
      BY <2>3 DEF Answering
    <3>2. \/ f.type = "result"
          \/ /\ f.of = stats[f.id].path
             /\ f.type \in IF f.of \in dirs THEN {"mode", "nlink"} ELSE {"mode", "size"}
      BY <1>5, <3>1
    <3> QED
      BY <1>3, <2>3, <3>2
  <2> QED
    BY <2>1, <2>2, <2>3
<1>4. CASE f.id \notin DOMAIN stats
  <2>1. f.id = 0
    <3>1. \A i \in 1 .. MaxId : i \notin DOMAIN stats => NoneIn(Flow, i)
      BY DEF IdsTracked
    <3>2. f.id \notin 1 .. MaxId
      BY <1>2, <1>4, <3>1
    <3> QED
      BY <1>1, <3>2, FlsAssumption
  <2>2. Listing
    BY <1>2, <1>4, <2>1 DEF Phase, Root, RootShown, ListAsked, Listed
  <2>3. f.type \in {"dentry", "result", "error"}
    <3>1. PICK n, d \in 0 .. Len(listing) : Pending(n, d)
      BY <2>2 DEF Listing
    <3>2. CASE d = 0
      BY <3>1, <3>2 DEF Pending
    <3>3. CASE d # 0
      <4>1. 1 \in 1 .. d
        BY <3>3, FlowIs
      <4>2. f = Frame("dentry", 0, listing[n + 1])
        BY <3>1, <4>1 DEF Pending
      <4> QED
        BY <4>2 DEF Frame
    <3> QED
      BY <3>2, <3>3
  <2> QED
    BY <1>4, <2>1, <2>2, <2>3
<1> QED
  BY <1>3, <1>4

\* The request that the session serves next.
LEMMA HeadAsked ==
  ASSUME Typed, IdsTracked, Phase, Queue # <<>>, NEW r, r = Queue[1]
  PROVE  \/ /\ r.id \in DOMAIN stats /\ Asked(r.id)
            /\ r = Request("stat", r.id, stats[r.id].path)
         \/ ListAsked /\ r = Request("list", 0, Path)
<1>1. Queue \in Seq(Reqs) /\ r \in Reqs /\ r.id \in 0 .. MaxId /\ 1 \in 1 .. Len(Queue)
  <2>1. Queue \in Seq(Reqs) /\ r \in Reqs /\ 1 \in 1 .. Len(Queue)
    BY FlowIs, TailIs
  <2> QED
    BY <2>1 DEF Reqs
<1>2. ~ NoneIn(Queue, r.id)
  BY <1>1 DEF NoneIn
<1>5. \A x : OnlyIn(Queue, r.id, x) => r = x
  <2>1. PICK i : i = r.id /\ Queue[1].id = i
    OBVIOUS
  <2> QED
    BY <1>1, <2>1, TailOwn
<1>3. CASE r.id \in DOMAIN stats
  <2>1. Asked(r.id)
    BY <1>2, <1>3 DEF IdsTracked, Tracked, Failing, Answering, HasFailed
  <2>2. r = Request("stat", r.id, stats[r.id].path)
    BY <1>5, <2>1 DEF Asked
  <2> QED
    BY <1>3, <2>1, <2>2
<1>4. CASE r.id \notin DOMAIN stats
  <2>1. r.id = 0
    <3>1. \A i \in 1 .. MaxId : i \notin DOMAIN stats => NoneIn(Queue, i)
      BY DEF IdsTracked
    <3>2. r.id \notin 1 .. MaxId
      BY <1>2, <1>4, <3>1
    <3> QED
      BY <1>1, <3>2, FlsAssumption
  <2>2. ListAsked
    BY <1>2, <1>4, <2>1 DEF Phase, Root, RootShown, Listing, Listed
  <2> QED
    BY <2>2 DEF ListAsked
<1> QED
  BY <1>3, <1>4

\* An id that a step does not touch is tracked as before.
LEMMA StaysTracked ==
  ASSUME NEW i, Tracked(i), stats'[i] = stats[i], dirs' = dirs,
         Passes(Queue, Queue', i), Passes(Flow, Flow', i),
         result = 1 => result' = 1, shut => shut'
  PROVE  Tracked(i)'
<1>1. PICK p : p = stats[i].path /\ stats'[i].path = p
  OBVIOUS
<1>2. Fresh(i) => Fresh(i)'
  BY DEF Fresh, NewStat
<1>3. /\ NoneIn(Queue, i) => NoneIn(Queue, i)'
      /\ NoneIn(Flow, i) => NoneIn(Flow, i)'
  BY DEF Passes, NoneIn
<1>4. /\ \A x : x.id = i /\ OnlyIn(Queue, i, x) => OnlyIn(Queue', i, x)
      /\ \A x : x.id = i /\ OnlyIn(Flow, i, x) => OnlyIn(Flow', i, x)
      /\ AnswerIn(Flow, i, p) => AnswerIn(Flow', i, p)
      /\ \A type : Coming(Flow, i, type) => Coming(Flow', i, type)
  BY DEF Passes
<1>5. CASE Asked(i)
  <2>1. Request("stat", i, p).id = i
    BY DEF Request
  <2>2. OnlyIn(Queue', i, Request("stat", i, p))
    BY <1>1, <1>4, <1>5, <2>1 DEF Asked
  <2>3. Fresh(i)' /\ NoneIn(Flow, i)'
    BY <1>2, <1>3, <1>5 DEF Asked
  <2> QED
    BY <1>1, <2>2, <2>3 DEF Tracked, Asked
<1>6. CASE Failing(i)
  <2>1. Frame("error", i, Path).id = i
    BY DEF Frame
  <2>2. OnlyIn(Flow', i, Frame("error", i, Path))
    BY <1>4, <1>6, <2>1 DEF Failing
  <2>3. Fresh(i)' /\ NoneIn(Queue, i)'
    BY <1>2, <1>3, <1>6 DEF Failing
  <2> QED
    BY <2>2, <2>3 DEF Tracked, Failing
<1>7. CASE Answering(i)
  <2>1. NoneIn(Queue, i)'
    BY <1>3, <1>7 DEF Answering
  <2>2. AnswerIn(Flow', i, p)
    BY <1>1, <1>4, <1>7 DEF Answering
  <2>3. AnswerIn(Flow, i, stats[i].path)'
    BY <1>1, <2>2 DEF AnswerIn
  <2>4. /\ stats'[i].mode = p \/ (stats'[i].mode = Default /\ Coming(Flow', i, "mode"))
        /\ IF p \in dirs THEN stats'[i].size = Default
           ELSE stats'[i].size = p \/ (stats'[i].size = Default /\ Coming(Flow', i, "size"))
    BY <1>1, <1>4, <1>7 DEF Answering
  <2> QED
    BY <1>1, <2>1, <2>3, <2>4 DEF Tracked, Answering
<1>8. CASE HasFailed(i)
  BY <1>2, <1>3, <1>8 DEF Tracked, HasFailed
<1> QED
  BY <1>5, <1>6, <1>7, <1>8 DEF Tracked

----------------------------------------------------------------------------
(* What the session answers.                                               *)

LEMMA FrameIs ==
  ASSUME NEW type \in AttributeTypes \cup {"dentry", "result", "error"}, NEW i \in 0 .. MaxId, NEW p \in Paths
  PROVE  /\ Frame(type, i, p) \in Frames
         /\ Frame(type, i, p).type = type /\ Frame(type, i, p).id = i /\ Frame(type, i, p).of = p
BY DEF Frame, Frames

LEMMA RequestIs ==
  ASSUME NEW type \in {"stat", "list"}, NEW i \in 0 .. MaxId, NEW p \in Paths
  PROVE  Request(type, i, p) \in Reqs /\ Request(type, i, p).id = i
BY DEF Request, Reqs

LEMMA FailureIs ==
  ASSUME NEW i \in 0 .. MaxId, NEW s, s = Failed(i)
  PROVE  /\ s \in Seq(Frames) /\ Len(s) = 1 /\ s[1] = Frame("error", i, Path)
         /\ \A k \in 1 .. Len(s) : s[k].id = i
         /\ OnlyIn(s, i, Frame("error", i, Path))
<1>1. PICK x \in Frames : x = Frame("error", i, Path) /\ x.id = i
  BY FrameIs DEF Paths
<1>2. s = <<x>>
  BY <1>1 DEF Failed
<1>3. s \in Seq(Frames) /\ Len(s) = 1 /\ s[1] = x
  BY <1>2
<1>4. \A k \in 1 .. 1 : k = 1
  OBVIOUS
<1> QED
  BY <1>1, <1>3, <1>4 DEF OnlyIn

LEMMA PairIs ==
  ASSUME NEW S, NEW a \in S, NEW z \in S
  PROVE  <<a>> \o <<z>> = <<a, z>> /\ <<a>> \o <<>> = <<a>>
<1>1. PICK s, t, u \in Seq(S) : /\ s = <<a>> /\ Len(s) = 1 /\ s[1] = a
                                /\ t = <<z>> /\ Len(t) = 1 /\ t[1] = z
                                /\ u = <<a, z>> /\ Len(u) = 2 /\ u[1] = a /\ u[2] = z
  <2>1. /\ <<a>> \in Seq(S) /\ Len(<<a>>) = 1 /\ <<a>>[1] = a
        /\ <<z>> \in Seq(S) /\ Len(<<z>>) = 1 /\ <<z>>[1] = z
        /\ <<a, z>> \in Seq(S) /\ Len(<<a, z>>) = 2 /\ <<a, z>>[1] = a /\ <<a, z>>[2] = z
    OBVIOUS
  <2> QED
    BY <2>1
<1>2. PICK v \in Seq(S) : v = s \o t /\ Len(v) = 2 /\ v[1] = a /\ v[2] = z
  <2>1. s \o t \in Seq(S) /\ Len(s \o t) = 2 /\ (s \o t)[1] = s[1] /\ (s \o t)[2] = t[1]
    BY <1>1, JoinIs
  <2> QED
    BY <1>1, <2>1
<1>3. \A k \in 1 .. 2 : k = 1 \/ k = 2
  OBVIOUS
<1>4. v = u
  <2>1. Len(v) = Len(u) /\ \A k \in 1 .. Len(v) : v[k] = u[k]
    BY <1>1, <1>2, <1>3
  <2> QED
    BY <2>1, SeqEqual, Zenon
<1>5. s \o <<>> = s
  BY ConcatEmptySeq
<1> QED
  BY <1>1, <1>2, <1>4, <1>5

LEMMA TripleIs ==
  ASSUME NEW S, NEW a \in S, NEW b \in S, NEW z \in S
  PROVE  <<a>> \o <<b>> \o <<z>> = <<a, b, z>>
<1>1. PICK s, t, u \in Seq(S) : /\ s = <<a, b>> /\ Len(s) = 2 /\ s[1] = a /\ s[2] = b
                                /\ t = <<z>> /\ Len(t) = 1 /\ t[1] = z
                                /\ u = <<a, b, z>> /\ Len(u) = 3 /\ u[1] = a /\ u[2] = b /\ u[3] = z
  <2>1. /\ <<a, b>> \in Seq(S) /\ Len(<<a, b>>) = 2 /\ <<a, b>>[1] = a /\ <<a, b>>[2] = b
        /\ <<z>> \in Seq(S) /\ Len(<<z>>) = 1 /\ <<z>>[1] = z
    OBVIOUS
  <2>2. /\ <<a, b, z>> \in Seq(S) /\ Len(<<a, b, z>>) = 3
        /\ <<a, b, z>>[1] = a /\ <<a, b, z>>[2] = b /\ <<a, b, z>>[3] = z
    OBVIOUS
  <2> QED
    BY <2>1, <2>2
<1>2. PICK v \in Seq(S) : v = s \o t /\ Len(v) = 3 /\ v[1] = a /\ v[2] = b /\ v[3] = z
  <2>1. /\ s \o t \in Seq(S) /\ Len(s \o t) = 3
        /\ (s \o t)[1] = s[1] /\ (s \o t)[2] = s[2] /\ (s \o t)[3] = t[1]
    BY <1>1, JoinIs
  <2> QED
    BY <1>1, <2>1
<1>3. \A k \in 1 .. 3 : k = 1 \/ k = 2 \/ k = 3
  OBVIOUS
<1>4. v = u
  <2>1. Len(v) = 3 /\ Len(u) = 3 /\ \A k \in 1 .. 3 : v[k] = u[k]
    BY <1>1, <1>2, <1>3
  <2> QED
    BY <2>1, SeqEqual
<1> QED
  BY <1>1, <1>2, <1>4, PairIs

LEMMA AnswerIs ==
  ASSUME NEW i \in 0 .. MaxId, NEW p \in Paths, NEW more \in Attributes(i, p)
  PROVE  \A s : s = <<Frame("mode", i, p)>> \o more \o <<Frame("result", i, Path)>> =>
           /\ s \in Seq(Frames)
           /\ \A k \in 1 .. Len(s) : s[k].id = i
           /\ AnswerIn(s, i, p) /\ Coming(s, i, "mode")
           /\ p \notin dirs => Coming(s, i, "size")
<1>0. SUFFICES ASSUME NEW s, s = <<Frame("mode", i, p)>> \o more \o <<Frame("result", i, Path)>>
               PROVE  /\ s \in Seq(Frames)
                      /\ \A k \in 1 .. Len(s) : s[k].id = i
                      /\ AnswerIn(s, i, p) /\ Coming(s, i, "mode")
                      /\ p \notin dirs => Coming(s, i, "size")
  OBVIOUS
<1>1. PICK a, z \in Frames : /\ a = Frame("mode", i, p) /\ a.type = "mode" /\ a.id = i /\ a.of = p
                            /\ z = Frame("result", i, Path) /\ z.type = "result" /\ z.id = i
  BY FrameIs DEF Paths, AttributeTypes
<1>2. CASE more = <<>>
  <2>1. s = <<a, z>>
    <3>1. s = <<a>> \o <<>> \o <<z>>
      BY <1>0, <1>1, <1>2
    <3> QED
      BY <3>1, PairIs
  <2>2. s \in Seq(Frames) /\ Len(s) = 2 /\ s[1] = a /\ s[2] = z
    BY <2>1
  <2>3. \A k \in 1 .. 2 : k = 1 \/ k = 2
    OBVIOUS
  <2>4. p \in dirs
    BY <1>2 DEF Attributes
  <2>5. AnswerIn(s, i, p)
    BY <1>1, <2>2, <2>3, <2>4 DEF AnswerIn
  <2>6. Coming(s, i, "mode")
    BY <1>1, <2>2 DEF Coming
  <2> QED
    BY <1>1, <2>2, <2>3, <2>4, <2>5, <2>6
<1>3. CASE more # <<>>
  <2>1. PICK b \in Frames : /\ more = <<b>> /\ b.id = i /\ b.of = p
                           /\ b.type = IF p \in dirs THEN "nlink" ELSE "size"
    BY <1>3, FrameIs DEF Attributes, AttributeTypes
  <2>2. s = <<a, b, z>>
    <3>1. s = <<a>> \o <<b>> \o <<z>>
      BY <1>0, <1>1, <2>1
    <3> QED
      BY <3>1, TripleIs
  <2>3. s \in Seq(Frames) /\ Len(s) = 3 /\ s[1] = a /\ s[2] = b /\ s[3] = z
    BY <2>2
  <2>4. \A k \in 1 .. 3 : k = 1 \/ k = 2 \/ k = 3
    OBVIOUS
  <2>5. AnswerIn(s, i, p)
    <3>1. 3 \in 1 .. Len(s) /\ s[3].id = i /\ s[3].type = "result"
      BY <1>1, <2>3
    <3>2. ASSUME NEW l \in 1 .. Len(s), l # 3
          PROVE  /\ l < 3 /\ s[l].of = p
                 /\ s[l].type \in IF p \in dirs THEN {"mode", "nlink"} ELSE {"mode", "size"}
      BY <1>1, <2>1, <2>3, <2>4, <3>2
    <3> QED
      BY <3>1, <3>2 DEF AnswerIn
  <2>6. Coming(s, i, "mode")
    BY <1>1, <2>3 DEF Coming
  <2>7. p \notin dirs => Coming(s, i, "size")
    BY <2>1, <2>3 DEF Coming
  <2> QED
    BY <1>1, <2>1, <2>3, <2>4, <2>5, <2>6, <2>7
<1> QED
  BY <1>2, <1>3

\* What the session may answer to stat.
StatAnswers(i, p) ==
  {Failed(i)} \cup {<<Frame("mode", i, p)>> \o more \o <<Frame("result", i, Path)>> : more \in Attributes(i, p)}

LEMMA StatAnswersAre ==
  ASSUME NEW i \in 0 .. MaxId, NEW p \in Paths, NEW s \in StatAnswers(i, p)
  PROVE  /\ s \in Seq(Frames) /\ \A k \in 1 .. Len(s) : s[k].id = i
         /\ \/ OnlyIn(s, i, Frame("error", i, Path))
            \/ AnswerIn(s, i, p) /\ Coming(s, i, "mode") /\ (p \notin dirs => Coming(s, i, "size"))
<1>1. CASE s = Failed(i)
  BY <1>1, FailureIs
<1>2. ASSUME NEW more \in Attributes(i, p), s = <<Frame("mode", i, p)>> \o more \o <<Frame("result", i, Path)>>
      PROVE  /\ s \in Seq(Frames) /\ \A k \in 1 .. Len(s) : s[k].id = i
             /\ AnswerIn(s, i, p) /\ Coming(s, i, "mode") /\ (p \notin dirs => Coming(s, i, "size"))
  <2>1. \A t : t = <<Frame("mode", i, p)>> \o more \o <<Frame("result", i, Path)>> =>
          /\ t \in Seq(Frames)
          /\ \A k \in 1 .. Len(t) : t[k].id = i
          /\ AnswerIn(t, i, p) /\ Coming(t, i, "mode")
          /\ p \notin dirs => Coming(t, i, "size")
    BY AnswerIs
  <2> QED
    BY <1>2, <2>1, Zenon
<1>3. s = Failed(i) \/ \E more \in Attributes(i, p) :
        s = <<Frame("mode", i, p)>> \o more \o <<Frame("result", i, Path)>>
  BY DEF StatAnswers
<1> QED
  BY <1>1, <1>2, <1>3, Zenon

\* The listing and its end.
LEMMA ListingIs ==
  ASSUME Typed, NEW l \in SetToSeqs(files \ {Path})
  PROVE  /\ l \in Seq(Names) /\ Len(l) \in Nat
         /\ \A j, k \in 1 .. Len(l) : l[j] = l[k] => j = k
         /\ \A s : s = [k \in DOMAIN l |-> Frame("dentry", 0, l[k])] \o <<Frame("result", 0, Path)>> =>
              /\ s \in Seq(Frames) /\ Len(s) = Len(l) + 1
              /\ \A k \in 1 .. Len(l) : s[k] = Frame("dentry", 0, l[k])
              /\ s[Len(l) + 1] = Frame("result", 0, Path)
<1>1. IsFiniteSet(files \ {Path}) /\ files \ {Path} \subseteq Names
  <2>1. files \ {Path} \subseteq Names
    BY DEF Typed, Paths
  <2> QED
    BY <2>1, FlsAssumption, FS_Subset
<1>2. PICK n \in Nat : n = Cardinality(files \ {Path})
  BY <1>1, FS_CardinalityType
<1>3. l \in [1 .. n -> files \ {Path}] /\ \A j, k \in 1 .. n : j # k => l[j] # l[k]
  BY <1>2 DEF SetToSeqs
<1>4. l \in Seq(Names) /\ Len(l) = n /\ DOMAIN l = 1 .. n
  BY <1>1, <1>3
<1>5. ASSUME NEW k \in 1 .. n PROVE Frame("dentry", 0, l[k]) \in Frames
  <2>1. l[k] \in Paths /\ 0 \in 0 .. MaxId
    BY <1>4, FlsAssumption DEF Paths
  <2> QED
    BY <2>1, FrameIs
<1>6. PICK names \in Seq(Frames) : /\ names = [k \in DOMAIN l |-> Frame("dentry", 0, l[k])]
                                  /\ Len(names) = n /\ \A k \in 1 .. n : names[k] = Frame("dentry", 0, l[k])
  <2>1. [k \in 1 .. n |-> Frame("dentry", 0, l[k])] \in Seq(Frames)
    BY <1>5
  <2>2. [k \in DOMAIN l |-> Frame("dentry", 0, l[k])] = [k \in 1 .. n |-> Frame("dentry", 0, l[k])]
    BY <1>4
  <2>3. PICK names \in Seq(Frames) : names = [k \in 1 .. n |-> Frame("dentry", 0, l[k])]
    BY <2>1
  <2>4. Len(names) = n /\ \A k \in 1 .. n : names[k] = Frame("dentry", 0, l[k])
    BY <2>3
  <2> QED
    BY <2>2, <2>3, <2>4
<1>7. PICK end \in Seq(Frames) : end = <<Frame("result", 0, Path)>> /\ Len(end) = 1 /\ end[1] = Frame("result", 0, Path)
  <2>1. Frame("result", 0, Path) \in Frames
    <3>1. Path \in Paths /\ 0 \in 0 .. MaxId
      BY FlsAssumption DEF Paths
    <3> QED
      BY <3>1, FrameIs
  <2>2. <<Frame("result", 0, Path)>> \in Seq(Frames)
    BY <2>1
  <2> QED
    BY <2>2
<1>8. ASSUME NEW s, s = names \o end
      PROVE  /\ s \in Seq(Frames) /\ Len(s) = n + 1
             /\ \A k \in 1 .. n : s[k] = names[k]
             /\ s[n + 1] = end[1]
  BY <1>6, <1>7, <1>8, JoinIs
<1>9. \A s : s = [k \in DOMAIN l |-> Frame("dentry", 0, l[k])] \o <<Frame("result", 0, Path)>> =>
        /\ s \in Seq(Frames) /\ Len(s) = n + 1
        /\ \A k \in 1 .. n : s[k] = names[k]
        /\ s[n + 1] = end[1]
  BY <1>6, <1>7, <1>8
<1>10. l \in Seq(Names) /\ Len(l) \in Nat
  BY <1>4
<1>11. \A j, k \in 1 .. Len(l) : l[j] = l[k] => j = k
  BY <1>3, <1>4
<1>12. \A s : s = [k \in DOMAIN l |-> Frame("dentry", 0, l[k])] \o <<Frame("result", 0, Path)>> =>
         /\ s \in Seq(Frames) /\ Len(s) = Len(l) + 1
         /\ \A k \in 1 .. Len(l) : s[k] = Frame("dentry", 0, l[k])
         /\ s[Len(l) + 1] = Frame("result", 0, Path)
  <2>1. Len(l) = n /\ end[1] = Frame("result", 0, Path)
    BY <1>4, <1>7
  <2>2. \A k \in 1 .. n : names[k] = Frame("dentry", 0, l[k])
    BY <1>6
  <2> QED
    BY <1>9, <2>1, <2>2, Zenon
<1> QED
  BY <1>10, <1>11, <1>12, Zenon

\* A list and what the session answers to list then.
ListAnswer(l, s) ==
  /\ l \in Seq(Names) /\ \A j, k \in 1 .. Len(l) : l[j] = l[k] => j = k
  /\ s \in Seq(Frames) /\ Len(s) = Len(l) + 1
  /\ \A k \in 1 .. Len(l) : s[k] = Frame("dentry", 0, l[k])
  /\ s[Len(l) + 1].id = 0 /\ s[Len(l) + 1].type \in {"result", "error"}

LEMMA ListAnswersAre ==
  ASSUME Typed
  PROVE  /\ \A s : s = Failed(0) => ListAnswer(<<>>, s)
         /\ \A l \in SetToSeqs(files \ {Path}) : \A s :
              s = [k \in DOMAIN l |-> Frame("dentry", 0, l[k])] \o <<Frame("result", 0, Path)>> =>
              ListAnswer(l, s)
<1>1. ASSUME NEW s, s = Failed(0) PROVE ListAnswer(<<>>, s)
  <2>1. PICK l \in Seq(Names) : l = <<>> /\ Len(l) = 0
    BY EmptySeq
  <2>2. 0 \in 0 .. MaxId
    BY FlsAssumption
  <2>3. s \in Seq(Frames) /\ Len(s) = 1 /\ s[1] = Frame("error", 0, Path)
    BY <1>1, <2>2, FailureIs
  <2>4. ListAnswer(l, s)
    BY <2>1, <2>3 DEF ListAnswer, Frame
  <2> QED
    BY <2>1, <2>4
<1>2. ASSUME NEW l \in SetToSeqs(files \ {Path}), NEW s,
             s = [k \in DOMAIN l |-> Frame("dentry", 0, l[k])] \o <<Frame("result", 0, Path)>>
      PROVE  ListAnswer(l, s)
  <2>1. PICK d, x :
          /\ d \in Nat /\ d = Len(l) /\ l \in Seq(Names) /\ \A j, k \in 1 .. d : l[j] = l[k] => j = k
          /\ s \in Seq(Frames) /\ Len(s) = d + 1
          /\ \A k \in 1 .. d : s[k] = Frame("dentry", 0, l[k])
          /\ s[d + 1] = x /\ x = Frame("result", 0, Path)
    BY <1>2, ListingIs, Zenon
  <2>2. x.id = 0 /\ x.type = "result"
    BY <2>1 DEF Frame
  <2> QED
    BY <2>1, <2>2 DEF ListAnswer
<1> QED
  BY <1>1, <1>2

----------------------------------------------------------------------------
(* Steps.                                                                  *)

\* A step that neither takes nor adds anything.
LEMMA QuietStep ==
  ASSUME IdsTracked, Phase, LinesMatch, Queue' = Queue, Flow' = Flow,
         UNCHANGED <<stats, result, shut, output, listing, dirs>>, sending = <<>> => sending' = <<>>
  PROVE  IdsTracked' /\ Phase' /\ LinesMatch'
<1>1. IdsTracked'
  <2>1. ASSUME NEW i \in DOMAIN stats PROVE Tracked(i)'
    <3>1. Passes(Queue, Queue', i) /\ Passes(Flow, Flow', i)
      BY SamePasses
    <3>2. Tracked(i)
      BY DEF IdsTracked
    <3> QED
      BY <3>1, <3>2, StaysTracked
  <2>2. \A i \in 1 .. MaxId : i \notin DOMAIN stats => NoneIn(Queue, i)' /\ NoneIn(Flow, i)'
    BY DEF IdsTracked, NoneIn
  <2> QED
    BY <2>1, <2>2 DEF IdsTracked
<1>2. Phase'
  <2>1. CASE Root
    BY <2>1 DEF Phase, Root, HasFailed, Fresh, NewStat, NoneIn
  <2>2. CASE RootShown
    BY <2>2 DEF Phase, RootShown
  <2>3. CASE ListAsked
    BY <2>3 DEF Phase, ListAsked
  <2>4. CASE Listing
    <3>1. PICK n, d \in 0 .. Len(listing) : Pending(n, d)
      BY <2>4 DEF Listing
    <3>2. Named(n)'
      BY <3>1 DEF Pending, Named
    <3>3. Pending(n, d)'
      BY <3>1, <3>2 DEF Pending
    <3>4. Once' /\ NoneIn(Queue, 0)'
      BY <2>4 DEF Listing, Once, NoneIn
    <3>5. Len(listing') = Len(listing)
      OBVIOUS
    <3>6. Listing'
      BY <2>4, <3>3, <3>4, <3>5 DEF Listing
    <3> QED
      BY <3>6 DEF Phase
  <2>5. CASE Listed
    BY <2>5 DEF Phase, Listed, Once, NoneIn, Named
  <2> QED
    BY <2>1, <2>2, <2>3, <2>4, <2>5 DEF Phase
<1>3. LinesMatch'
  BY DEF LinesMatch
<1> QED
  BY <1>1, <1>2, <1>3

\* The session answers the request for the attributes of an entry.
LEMMA StatServed ==
  ASSUME Typed, IdsTracked, Phase, LinesMatch, Queue # <<>>,
         NEW i \in DOMAIN stats, Asked(i), Queue[1].id = i, NEW s \in StatAnswers(i, stats[i].path),
         Queue' = Tail(Queue), Flow' = Flow \o s,
         UNCHANGED <<stats, result, shut, output, listing, dirs, sending>>
  PROVE  IdsTracked' /\ Phase' /\ LinesMatch' /\ s \in Seq(Frames)
<1>1. PICK p \in Paths : p = stats[i].path /\ i \in 0 .. MaxId
  BY DEF Typed, Stat
<1>2. /\ s \in Seq(Frames) /\ \A k \in 1 .. Len(s) : s[k].id = i
      /\ \/ OnlyIn(s, i, Frame("error", i, Path))
         \/ AnswerIn(s, i, p) /\ Coming(s, i, "mode") /\ (p \notin dirs => Coming(s, i, "size"))
  BY <1>1, StatAnswersAre
<1>3. /\ Flow \in Seq(Frames) /\ Len(Flow) \in Nat /\ Queue \in Seq(Reqs)
      /\ Len(Flow') = Len(Flow) + Len(s) /\ Len(s) \in Nat
      /\ \A k \in 1 .. Len(Flow) : Flow'[k] = Flow[k]
      /\ \A k \in 1 .. Len(Flow') : k \in 1 .. Len(Flow) \/ Flow'[k].id = i
  <2>1. Flow \in Seq(Frames) /\ Queue \in Seq(Reqs)
    BY FlowIs
  <2>2. /\ Len(Flow \o s) = Len(Flow) + Len(s) /\ Len(s) \in Nat /\ Len(Flow) \in Nat
        /\ \A k \in 1 .. Len(Flow) : (Flow \o s)[k] = Flow[k]
        /\ \A k \in 1 .. Len(s) : (Flow \o s)[Len(Flow) + k] = s[k]
        /\ \A k \in 1 .. Len(Flow \o s) : k \in 1 .. Len(Flow) \/ \E l \in 1 .. Len(s) : k = Len(Flow) + l
    BY <1>2, <2>1, JoinIs
  <2>3. \A k \in 1 .. Len(Flow \o s) : k \in 1 .. Len(Flow) \/ (Flow \o s)[k].id = i
    BY <1>2, <2>2
  <2> QED
    BY <2>1, <2>2, <2>3, Zenon
<1>4. ASSUME NEW j, j # i PROVE Passes(Queue, Queue', j) /\ Passes(Flow, Flow', j)
  <2>1. NoneIn(s, j)
    BY <1>2, <1>4 DEF NoneIn
  <2>2. Passes(Queue, Tail(Queue), j)
    BY <1>3, <1>4, TailPasses
  <2>3. Passes(Flow, Flow \o s, j)
    BY <1>2, <1>3, <2>1, JoinPasses
  <2> QED
    BY <2>2, <2>3
<1>5. NoneIn(Queue, i)'
  <2>1. OnlyIn(Queue, i, Request("stat", i, p))
    BY <1>1 DEF Asked
  <2>2. NoneIn(Tail(Queue), i)
    BY <1>3, <2>1, TailOwn
  <2> QED
    BY <2>2 DEF NoneIn
<1>6. Passes(s, Flow', i)
  <2>1. NoneIn(Flow, i)
    BY DEF Asked
  <2> QED
    BY <1>2, <1>3, <2>1, JoinPasses
<1>7. Tracked(i)'
  <2>1. Fresh(i)' /\ stats'[i].path = p /\ stats'[i].mode = Default /\ stats'[i].size = Default
    BY <1>1 DEF Asked, Fresh, NewStat
  <2>2. CASE OnlyIn(s, i, Frame("error", i, Path))
    <3>1. OnlyIn(Flow', i, Frame("error", i, Path))
      BY <1>6, <2>2 DEF Passes, Frame
    <3> QED
      BY <1>5, <2>1, <3>1 DEF Tracked, Failing
  <2>3. CASE AnswerIn(s, i, p) /\ Coming(s, i, "mode") /\ (p \notin dirs => Coming(s, i, "size"))
    <3>1. AnswerIn(Flow', i, p) /\ Coming(Flow', i, "mode") /\ (p \notin dirs => Coming(Flow', i, "size"))
      BY <1>6, <2>3 DEF Passes
    <3>2. AnswerIn(Flow, i, stats[i].path)'
      BY <2>1, <3>1 DEF AnswerIn
    <3> QED
      BY <1>5, <2>1, <3>1, <3>2 DEF Tracked, Answering
  <2> QED
    BY <1>2, <2>2, <2>3
<1>8. IdsTracked'
  <2>1. ASSUME NEW j \in DOMAIN stats PROVE Tracked(j)'
    <3>1. CASE j = i
      BY <1>7, <3>1
    <3>2. CASE j # i
      <4>1. Tracked(j)
        BY DEF IdsTracked
      <4> QED
        BY <1>4, <3>2, <4>1, StaysTracked
    <3> QED
      BY <3>1, <3>2
  <2>2. ASSUME NEW j \in 1 .. MaxId, j \notin DOMAIN stats PROVE NoneIn(Queue, j)' /\ NoneIn(Flow, j)'
    <3>1. NoneIn(Queue, j) /\ NoneIn(Flow, j) /\ j # i
      BY <2>2 DEF IdsTracked
    <3>2. NoneIn(Queue', j) /\ NoneIn(Flow', j)
      BY <1>4, <3>1 DEF Passes
    <3> QED
      BY <3>2 DEF NoneIn
  <2> QED
    BY <2>1, <2>2 DEF IdsTracked
<1>9. Phase'
  <2>1. CASE Root
    <3>1. i = 0 /\ ~ NoneIn(Queue, 0)
      <4>1. 1 \in 1 .. Len(Queue)
        BY <1>3, TailIs
      <4> QED
        BY <2>1, <4>1 DEF Root, NoneIn
    <3>2. ~ shut
      BY <2>1, <3>1 DEF Root, HasFailed
    <3> QED
      BY <2>1, <3>2 DEF Phase, Root
  <2>2. CASE Listing
    <3>1. PICK n, d \in 0 .. Len(listing) : Pending(n, d)
      BY <2>2 DEF Listing
    <3>2. Named(n)'
      BY <3>1 DEF Pending, Named
    <3>3. i # 0
      BY <2>2 DEF Listing
    <3>4. Pending(n, d)'
      <4>1. n \in Nat /\ d \in Nat /\ Len(listing) = n + d /\ d + 1 <= Len(Flow)
        BY <3>1, FlowIs DEF Pending
      <4>2. PICK m, e \in Nat : m = Len(Flow) /\ e = Len(Flow')
        BY <1>3
      <4>3. m <= e
        BY <1>3, <4>2
      <4>4. /\ \A k \in 1 .. d : k \in 1 .. m
            /\ d + 1 \in 1 .. m
        BY <4>1, <4>2
      <4>5. /\ \A k \in 1 .. d : Flow'[k] = Frame("dentry", 0, listing[n + k])
            /\ Flow'[d + 1].id = 0 /\ Flow'[d + 1].type \in {"result", "error"}
        BY <1>3, <3>1, <4>2, <4>4 DEF Pending
      <4>6. ASSUME NEW k \in d + 2 .. e PROVE Flow'[k].id # 0
        <5>1. k \in 1 .. e /\ (k \in 1 .. m => k \in d + 2 .. m)
          BY <4>1, <4>2
        <5>2. \A l \in d + 2 .. m : Flow[l].id # 0
          BY <3>1, <4>2 DEF Pending
        <5> QED
          BY <1>3, <3>3, <4>2, <5>1, <5>2
      <4> QED
        BY <3>2, <4>1, <4>2, <4>3, <4>5, <4>6 DEF Pending
    <3>5. Once'
      BY <2>2 DEF Listing, Once
    <3>6. NoneIn(Queue, 0)'
      <4>1. NoneIn(Queue', 0)
        BY <1>4, <2>2, <3>3 DEF Listing, Passes
      <4> QED
        BY <4>1 DEF NoneIn
    <3>7. Listing'
      BY <2>2, <3>1, <3>4, <3>5, <3>6 DEF Listing
    <3> QED
      BY <3>7 DEF Phase
  <2>3. CASE Listed
    <3>1. i # 0
      BY <2>3 DEF Listed
    <3>2. NoneIn(Queue', 0) /\ NoneIn(Flow', 0)
      BY <1>4, <2>3, <3>1 DEF Listed, Passes
    <3>3. Named(Len(listing))' /\ Once'
      BY <2>3 DEF Listed, Named, Once
    <3>4. Listed'
      BY <2>3, <3>2, <3>3 DEF Listed, NoneIn
    <3> QED
      BY <3>4 DEF Phase
  <2>4. Root \/ Listing \/ Listed
    BY DEF Phase, RootShown, ListAsked
  <2> QED
    BY <2>1, <2>2, <2>3, <2>4
<1>10. LinesMatch'
  BY DEF LinesMatch
<1> QED
  BY <1>2, <1>8, <1>9, <1>10

\* The session answers the request for the list.
LEMMA ListServed ==
  ASSUME Typed, ListAsked, LinesMatch, NEW l, NEW s, ListAnswer(l, s),
         listing' = l, Queue' = Tail(Queue), Flow' = Flow \o s,
         UNCHANGED <<stats, result, shut, output, dirs>>
  PROVE  IdsTracked' /\ Phase' /\ LinesMatch'
<1>1. PICK d \in Nat :
        /\ d = Len(l) /\ l \in Seq(Names) /\ \A j, k \in 1 .. d : l[j] = l[k] => j = k
        /\ s \in Seq(Frames) /\ Len(s) = d + 1 /\ \A k \in 1 .. d : s[k] = Frame("dentry", 0, l[k])
        /\ s[d + 1].id = 0 /\ s[d + 1].type \in {"result", "error"}
  BY LenProperties DEF ListAnswer
<1>2. Flow' = s
  BY <1>1, ConcatEmptySeq DEF ListAsked
<1>3. Queue' = <<>>
  BY DEF ListAsked
<1>4. /\ \A k \in 1 .. d : s[k].id = 0
      /\ s[d + 1].id = 0 /\ s[d + 1].type \in {"result", "error"}
  <2>1. \A k \in 1 .. d : Frame("dentry", 0, l[k]).id = 0
    BY DEF Frame
  <2> QED
    BY <1>1, <2>1
<1>5. \A k \in 1 .. Len(s) : s[k].id = 0
  <2>1. \A k \in 1 .. d + 1 : k \in 1 .. d \/ k = d + 1
    OBVIOUS
  <2> QED
    BY <1>1, <1>4, <2>1
<1>6. Len(output) = 0 /\ Len(Queue') = 0 /\ DOMAIN stats = {} /\ Path \in dirs /\ ~ shut
  BY <1>3 DEF ListAsked
<1>7. IdsTracked'
  <2>1. \A i \in 1 .. MaxId : NoneIn(Queue', i) /\ NoneIn(Flow', i)
    BY <1>2, <1>5, <1>6 DEF NoneIn
  <2> QED
    BY <1>6, <2>1 DEF IdsTracked, NoneIn
<1>8. Named(0)'
  BY <1>6 DEF Named
<1>9. Pending(0, d)'
  <2>1. Len(Flow') = d + 1 /\ \A k \in d + 2 .. d + 1 : Flow'[k].id # 0
    BY <1>1, <1>2
  <2>2. \A k \in 1 .. d : 0 + k = k
    OBVIOUS
  <2> QED
    BY <1>1, <1>2, <1>4, <1>8, <2>1, <2>2 DEF Pending
<1>10. Once'
  BY <1>1, <1>6 DEF Once
<1>11. NoneIn(Queue, 0)'
  BY <1>6 DEF NoneIn
<1>12. 0 \in 0 .. d /\ d \in 0 .. d
  OBVIOUS
<1>13. Phase'
  BY <1>1, <1>6, <1>9, <1>10, <1>11, <1>12 DEF Phase, Listing
<1> QED
  BY <1>1, <1>7, <1>13 DEF LinesMatch

\* fls takes a frame: what is known of the other ids holds of what is left.
LEMMA OthersPass ==
  ASSUME Typed, Flow # <<>>, Flow' = Tail(Flow)
  PROVE  /\ \A j : j # Flow[1].id => Passes(Flow, Flow', j)
         /\ 1 \in 1 .. Len(Flow) /\ Flow[1].id \in 0 .. MaxId
<1>1. Flow \in Seq(Frames) /\ Flow[1] \in Frames /\ Len(Flow) \in Nat /\ Len(Flow) >= 1
  BY FlowIs, TailIs
<1>2. \A j : j # Flow[1].id => Passes(Flow, Tail(Flow), j)
  BY <1>1, TailPasses
<1> QED
  BY <1>1, <1>2 DEF Frames

LEMMA OthersTracked ==
  ASSUME Typed, IdsTracked, Flow # <<>>, Flow' = Tail(Flow), dirs' = dirs,
         NEW j \in DOMAIN stats, j # Flow[1].id, stats'[j] = stats[j], Passes(Queue, Queue', j),
         result = 1 => result' = 1, shut => shut'
  PROVE  Tracked(j)'
<1>1. Tracked(j) /\ Passes(Flow, Flow', j)
  BY OthersPass DEF IdsTracked
<1> QED
  BY <1>1, StaysTracked

\* The frame that comes next tells the phase.
LEMMA HeadPhase ==
  ASSUME Typed, Phase, Flow # <<>>
  PROVE  \/ Root /\ (~ NoneIn(Flow, 0) => ~ shut)
         \/ Listing /\ Flow[1].id = 0
         \/ Listed /\ Flow[1].id # 0
<1>1. 1 \in 1 .. Len(Flow)
  BY FlowIs, TailIs
<1>2. Root \/ Listing \/ Listed
  BY DEF Phase, RootShown, ListAsked
<1>3. CASE Root
  BY <1>3 DEF Root, HasFailed
<1>4. CASE Listing
  <2>1. PICK n, d \in 0 .. Len(listing) : Pending(n, d)
    BY <1>4 DEF Listing
  <2>2. CASE d = 0
    BY <1>4, <2>1, <2>2 DEF Pending
  <2>3. CASE d # 0
    <3>1. 1 \in 1 .. d
      BY <2>3, FlowIs
    <3>2. Flow[1] = Frame("dentry", 0, listing[n + 1])
      BY <2>1, <3>1 DEF Pending
    <3> QED
      BY <1>4, <3>2 DEF Frame
  <2> QED
    BY <2>2, <2>3
<1>5. CASE Listed
  BY <1>1, <1>5 DEF Listed, NoneIn
<1> QED
  BY <1>2, <1>3, <1>4, <1>5

LEMMA SamePaths ==
  ASSUME DOMAIN stats' = DOMAIN stats, \A j \in DOMAIN stats : stats'[j].path = stats[j].path,
         UNCHANGED <<output, listing>>
  PROVE  /\ Once => Once'
         /\ Named(Len(listing)) => Named(Len(listing))'
<1>1. Once => Once'
  BY DEF Once
<1>2. ASSUME NEW n, n = Len(listing), Named(n) PROVE Named(n)'
  BY <1>2 DEF Named
<1> QED
  BY <1>1, <1>2

\* The attributes of a path arrive.
LEMMA AttributeStep ==
  ASSUME Typed, IdsTracked, Phase, LinesMatch, Flow # <<>>, Flow' = Tail(Flow), Queue' = Queue,
         NEW f, f = Flow[1], HandleAttribute(f), UNCHANGED <<listing, dirs>>
  PROVE  /\ IdsTracked' /\ Phase' /\ LinesMatch'
         /\ DOMAIN stats' = DOMAIN stats /\ stats' \in [DOMAIN stats -> Stat]
<1>1. PICK i \in DOMAIN stats : i = f.id
  BY DEF HandleAttribute
<1>2. PICK p \in Paths : p = stats[i].path
  BY DEF Typed, Stat
<1>3. /\ Answering(i) /\ f.of = p
      /\ f.type \in IF p \in dirs THEN {"mode", "nlink"} ELSE {"mode", "size"}
  BY <1>1, <1>2, HeadComes DEF HandleAttribute
<1>4. /\ DOMAIN stats' = DOMAIN stats /\ \A j \in DOMAIN stats : j # i => stats'[j] = stats[j]
      /\ stats'[i].path = p
      /\ stats'[i].mode = IF f.type = "mode" THEN p ELSE stats[i].mode
      /\ stats'[i].size = IF f.type = "size" THEN p ELSE stats[i].size
      /\ stats'[i] \in Stat
  <2>1. stats[i] \in Stat
    BY DEF Typed
  <2>2. stats' = [stats EXCEPT ![i].mode = IF f.type = "mode" THEN p ELSE @,
                               ![i].size = IF f.type = "size" THEN p ELSE @]
    BY <1>1, <1>3 DEF HandleAttribute
  <2>3. DOMAIN stats' = DOMAIN stats /\ \A j \in DOMAIN stats : j # i => stats'[j] = stats[j]
    BY <2>2
  <2>4. PICK st \in Stat : st = stats[i]
    BY <2>1
  <2>5. stats'[i] = [path |-> p, mode |-> IF f.type = "mode" THEN p ELSE st.mode,
                     size |-> IF f.type = "size" THEN p ELSE st.size]
    BY <1>2, <2>2, <2>4 DEF Stat
  <2>6. stats'[i] \in Stat
    BY <2>5 DEF Stat
  <2> QED
    BY <2>3, <2>4, <2>5, <2>6
<1>5. stats' \in [DOMAIN stats -> Stat]
  BY <1>4 DEF HandleAttribute, Typed
<1>6. Flow \in Seq(Frames) /\ 1 \in 1 .. Len(Flow) /\ f.id \in 0 .. MaxId
  BY FlowIs, OthersPass
<1>7. /\ AnswerIn(Flow', i, p)
      /\ \A type : Coming(Flow, i, type) /\ f.type # type => Coming(Flow', i, type)
  <2>1. Flow[1].id = i /\ AnswerIn(Flow, i, p) /\ f.type # "result"
    BY <1>1, <1>2, <1>3 DEF Answering
  <2>2. /\ AnswerIn(Tail(Flow), i, p)
        /\ \A type : Coming(Flow, i, type) /\ Flow[1].type # type => Coming(Tail(Flow), i, type)
    <3>1. Flow # <<>>
      BY <1>6, EmptySeq
    <3>2. \A type : Coming(Flow, i, type) /\ Flow[1].type # type => Coming(Tail(Flow), i, type)
      BY <1>6, <2>1, <3>1, TailOwn
    <3>3. AnswerIn(Tail(Flow), i, p)
      BY <1>6, <2>1, <3>1, TailOwn
    <3> QED
      BY <3>2, <3>3
  <2> QED
    BY <2>2
<1>8. Tracked(i)'
  <2>1. stats'[i].mode = p \/ (stats'[i].mode = Default /\ Coming(Flow', i, "mode"))
    BY <1>2, <1>3, <1>4, <1>7 DEF Answering
  <2>2. IF p \in dirs THEN stats'[i].size = Default
        ELSE stats'[i].size = p \/ (stats'[i].size = Default /\ Coming(Flow', i, "size"))
    BY <1>2, <1>3, <1>4, <1>7 DEF Answering
  <2>3. AnswerIn(Flow, i, stats[i].path)'
    BY <1>4, <1>7 DEF AnswerIn
  <2>4. NoneIn(Queue, i)'
    BY <1>3 DEF Answering, NoneIn
  <2> QED
    BY <1>4, <2>1, <2>2, <2>3, <2>4 DEF Tracked, Answering
<1>9. IdsTracked'
  <2>1. ASSUME NEW j \in DOMAIN stats, j # i PROVE Tracked(j)'
    <3>1. Passes(Queue, Queue', j)
      BY SamePasses
    <3> QED
      BY <1>1, <1>4, <2>1, <3>1, OthersTracked DEF HandleAttribute
  <2>2. ASSUME NEW j \in 1 .. MaxId, j \notin DOMAIN stats PROVE NoneIn(Queue', j) /\ NoneIn(Flow', j)
    BY <1>1, <2>2, OthersPass DEF IdsTracked, Passes
  <2> QED
    BY <1>4, <1>8, <2>1, <2>2 DEF IdsTracked, NoneIn
<1>10. Phase'
  <2>1. CASE Root /\ (~ NoneIn(Flow, 0) => ~ shut)
    <3>1. i = 0 /\ ~ NoneIn(Flow, 0)
      BY <1>1, <1>6, <2>1 DEF Root, NoneIn
    <3> QED
      BY <1>2, <1>4, <2>1, <3>1 DEF Phase, Root, HandleAttribute
  <2>2. CASE Listed
    <3>1. \A j \in DOMAIN stats : stats'[j].path = stats[j].path
      BY <1>2, <1>4
    <3>2. UNCHANGED output
      BY DEF HandleAttribute
    <3>3. Named(Len(listing))' /\ Once'
      BY <1>4, <2>2, <3>1, <3>2, SamePaths DEF Listed
    <3>4. NoneIn(Flow', 0)
      BY <1>1, <2>2, OthersPass DEF Listed, Passes
    <3>5. Listed'
      BY <1>4, <2>2, <3>3, <3>4 DEF Listed, HandleAttribute, NoneIn
    <3> QED
      BY <3>5 DEF Phase
  <2>3. ~ Listing \/ Flow[1].id # 0
    BY <1>1 DEF Listing
  <2> QED
    BY <2>1, <2>2, <2>3, HeadPhase
<1>11. LinesMatch'
  BY DEF LinesMatch, HandleAttribute
<1> QED
  BY <1>4, <1>5, <1>9, <1>10, <1>11

\* A stat request has failed.
LEMMA ErrorStep ==
  ASSUME Typed, IdsTracked, Phase, LinesMatch, Flow # <<>>, Flow' = Tail(Flow), Queue' = Queue,
         NEW f, f = Flow[1], HandleError(f), UNCHANGED <<listing, dirs>>
  PROVE  IdsTracked' /\ Phase' /\ LinesMatch'
<1>1. PICK i \in DOMAIN stats : i = f.id
  BY DEF HandleError
<1>2. Failing(i)
  BY <1>1, HeadComes DEF HandleError
<1>3. Flow \in Seq(Frames) /\ 1 \in 1 .. Len(Flow) /\ f.id \in 0 .. MaxId
  BY FlowIs, OthersPass
<1>4. NoneIn(Flow', i)
  <2>1. Flow[1].id = i /\ OnlyIn(Flow, i, Frame("error", i, Path))
    BY <1>1, <1>2 DEF Failing
  <2>2. NoneIn(Tail(Flow), i)
    BY <1>3, <2>1, OnlyOwn
  <2> QED
    BY <2>2
<1>5. HasFailed(i)'
  BY <1>2, <1>4 DEF HasFailed, Failing, Fresh, NewStat, NoneIn, HandleError
<1>6. IdsTracked'
  <2>1. ASSUME NEW j \in DOMAIN stats, j # i PROVE Tracked(j)'
    <3>1. Passes(Queue, Queue', j)
      BY SamePasses
    <3> QED
      BY <1>1, <2>1, <3>1, OthersTracked DEF HandleError
  <2>2. ASSUME NEW j \in 1 .. MaxId, j \notin DOMAIN stats PROVE NoneIn(Queue', j) /\ NoneIn(Flow', j)
    BY <1>1, <2>2, OthersPass DEF IdsTracked, Passes
  <2>3. Tracked(i)'
    BY <1>5 DEF Tracked
  <2>4. DOMAIN stats' = DOMAIN stats
    BY DEF HandleError
  <2> QED
    BY <2>1, <2>2, <2>3, <2>4 DEF IdsTracked, NoneIn
<1>7. Phase'
  <2>1. CASE Root
    <3>1. i = 0
      BY <2>1 DEF Root
    <3> QED
      BY <1>5, <2>1, <3>1 DEF Phase, Root, HandleError
  <2>2. CASE Listed
    <3>1. UNCHANGED <<stats, output>>
      BY DEF HandleError
    <3>2. Named(Len(listing))' /\ Once'
      BY <2>2, <3>1, SamePaths DEF Listed
    <3>3. NoneIn(Flow', 0)
      BY <1>1, <2>2, OthersPass DEF Listed, Passes
    <3>4. Listed'
      BY <2>2, <3>2, <3>3 DEF Listed, HandleError, NoneIn
    <3> QED
      BY <3>4 DEF Phase
  <2>3. ~ Listing \/ Flow[1].id # 0
    BY <1>1 DEF Listing
  <2> QED
    BY <2>1, <2>2, <2>3, HeadPhase
<1>8. LinesMatch'
  BY DEF LinesMatch, HandleError
<1> QED
  BY <1>6, <1>7, <1>8

\* The result of a stat request: its answer is complete.
LEMMA ResultComes ==
  ASSUME Typed, IdsTracked, Phase, Flow # <<>>, Flow' = Tail(Flow), dirs' = dirs,
         NEW f, f = Flow[1], f.type = "result", f.id \in DOMAIN stats, Erase(f.id)
  PROVE  /\ stats[f.id].mode = stats[f.id].path
         /\ stats[f.id].size = Default <=> stats[f.id].path \in dirs
         /\ NoneIn(Queue, f.id) /\ NoneIn(Flow', f.id) /\ ~ NoneIn(Flow, f.id)
         /\ DOMAIN stats' = DOMAIN stats \ {f.id} /\ \A j \in DOMAIN stats' : stats'[j] = stats[j]
         /\ stats' \in [DOMAIN stats' -> Stat]
<1>1. PICK i \in DOMAIN stats : i = f.id
  OBVIOUS
<1>2. PICK p \in Paths : p = stats[i].path
  BY DEF Typed, Stat
<1>3. Answering(i)
  BY <1>1, HeadComes
<1>4. Flow \in Seq(Frames) /\ 1 \in 1 .. Len(Flow)
  BY FlowIs, OthersPass
<1>5. NoneIn(Flow', i) /\ \A type : Coming(Flow, i, type) => type = "result"
  <2>1. Flow[1].id = i /\ AnswerIn(Flow, i, p) /\ Flow[1].type = "result"
    BY <1>1, <1>2, <1>3 DEF Answering
  <2>2. NoneIn(Tail(Flow), i) /\ \A type : Coming(Flow, i, type) /\ Flow[1].type # type => Coming(Tail(Flow), i, type)
    BY <1>4, <2>1, TailOwn
  <2>3. \A type : ~ Coming(Tail(Flow), i, type)
    BY <2>2 DEF NoneIn, Coming
  <2> QED
    BY <2>1, <2>2, <2>3
<1>6. p # Default
  BY FlsAssumption DEF Paths
<1>7. stats[i].mode = p /\ (stats[i].size = Default <=> p \in dirs)
  <2>1. ~ Coming(Flow, i, "mode") /\ ~ Coming(Flow, i, "size")
    BY <1>5
  <2> QED
    BY <1>2, <1>3, <1>6, <2>1 DEF Answering
<1>8. NoneIn(Queue, i) /\ ~ NoneIn(Flow, i)
  BY <1>1, <1>3, <1>4 DEF Answering, NoneIn
<1>9. DOMAIN stats' = DOMAIN stats \ {i} /\ \A j \in DOMAIN stats' : stats'[j] = stats[j]
  BY <1>1 DEF Erase, Restrict
<1>10. stats' \in [DOMAIN stats' -> Stat]
  BY <1>1 DEF Erase, Restrict, Typed
<1> QED
  BY <1>1, <1>2, <1>5, <1>7, <1>8, <1>9, <1>10

\* The ids that are left are tracked as before.
LEMMA OneErased ==
  ASSUME Typed, IdsTracked, Flow # <<>>, Flow' = Tail(Flow), dirs' = dirs, Queue' = Queue,
         DOMAIN stats' = DOMAIN stats \ {Flow[1].id}, \A j \in DOMAIN stats' : stats'[j] = stats[j],
         NoneIn(Queue, Flow[1].id), NoneIn(Flow', Flow[1].id), result' = result, shut => shut'
  PROVE  IdsTracked'
<1>1. ASSUME NEW j \in DOMAIN stats' PROVE Tracked(j)'
  <2>1. Passes(Queue, Queue', j)
    BY SamePasses
  <2> QED
    BY <2>1, OthersTracked
<1>2. ASSUME NEW j \in 1 .. MaxId, j \notin DOMAIN stats' PROVE NoneIn(Queue', j) /\ NoneIn(Flow', j)
  <2>1. CASE j = Flow[1].id
    BY <2>1
  <2>2. CASE j # Flow[1].id
    BY <1>2, <2>2, OthersPass DEF IdsTracked, Passes
  <2> QED
    BY <2>1, <2>2
<1> QED
  BY <1>1, <1>2 DEF IdsTracked, NoneIn

\* Nothing else is on its way while the path given to fls is asked for.
LEMMA AllAnswered ==
  ASSUME Typed, IdsTracked, DOMAIN stats = {0}, Flow # <<>>, Flow' = Tail(Flow), Flow[1].id = 0,
         NoneIn(Queue, 0), NoneIn(Flow', 0)
  PROVE  Queue = <<>> /\ Flow' = <<>> /\ Len(Flow') = 0
<1>1. /\ Queue \in Seq(Reqs) /\ Flow \in Seq(Frames) /\ Flow' \in Seq(Frames)
  BY FlowIs, TailIs
<1>2. ASSUME NEW j \in 0 .. MaxId PROVE NoneIn(Queue, j) /\ NoneIn(Flow', j)
  <2>1. CASE j = 0
    BY <2>1
  <2>2. CASE j # 0
    <3>1. j \in 1 .. MaxId
      BY <2>2, FlsAssumption
    <3> QED
      BY <2>2, <3>1, OthersPass DEF IdsTracked, Passes
  <2> QED
    BY <2>1, <2>2
<1>3. PICK s \in Seq(Frames) : s = Flow'
  BY <1>1
<1>4. \A x \in Reqs : x.id \in 0 .. MaxId
  BY DEF Reqs
<1>5. \A x \in Frames : x.id \in 0 .. MaxId
  BY DEF Frames
<1>6. Queue = <<>>
  BY <1>1, <1>2, <1>4, NoneAtAll
<1>7. s = <<>>
  BY <1>2, <1>3, <1>5, NoneAtAll
<1>8. Len(s) = 0
  BY <1>7, EmptySeq
<1> QED
  BY <1>3, <1>6, <1>7, <1>8

\* The path given to fls turns out to be a directory.
LEMMA RootStep ==
  ASSUME Typed, IdsTracked, Phase, LinesMatch, Flow # <<>>, Flow' = Tail(Flow), Queue' = Queue \o sending',
         NEW f, f = Flow[1], HandleRoot(f), UNCHANGED <<listing, dirs>>
  PROVE  /\ IdsTracked' /\ Phase' /\ LinesMatch' /\ ~ shut
         /\ stats' \in [DOMAIN stats' -> Stat] /\ DOMAIN stats' = {}
<1>1. f.id = 0 /\ 0 \in DOMAIN stats /\ f.type = "result" /\ Erase(0) /\ stats[0].mode \in dirs
  BY DEF HandleRoot, IsDirectory
<1>2. /\ stats[0].mode = stats[0].path
      /\ NoneIn(Queue, 0) /\ NoneIn(Flow', 0) /\ ~ NoneIn(Flow, 0)
      /\ DOMAIN stats' = DOMAIN stats \ {0}
      /\ stats' \in [DOMAIN stats' -> Stat]
  BY <1>1, ResultComes
<1>3. Root /\ ~ shut
  BY <1>1, <1>2, HeadPhase DEF Listing, Listed
<1>4. Queue = <<>> /\ Flow' = <<>> /\ Len(Flow') = 0
  BY <1>1, <1>2, <1>3, AllAnswered DEF Root
<1>5. sending' = <<Request("list", 0, Path)>>
  BY DEF HandleRoot
<1>6. PICK r \in Reqs : r = Request("list", 0, Path) /\ r.id = 0
  <2>1. 0 \in 0 .. MaxId /\ Path \in Paths
    BY FlsAssumption DEF Paths
  <2> QED
    BY <2>1, RequestIs
<1>7. Queue' = <<r>>
  <2>1. <<r>> \in Seq(Reqs)
    OBVIOUS
  <2>2. <<>> \o <<r>> = <<r>>
    BY <2>1, ConcatEmptySeq
  <2> QED
    BY <1>4, <1>5, <1>6, <2>2
<1>8. DOMAIN stats' = {} /\ Path \in dirs /\ ~ shut' /\ listing' = <<>> /\ output' = <<>>
  BY <1>1, <1>2, <1>3 DEF Root, HandleRoot
<1>9. Phase'
  BY <1>4, <1>6, <1>7, <1>8 DEF Phase, ListAsked
<1>10. \A k \in 1 .. Len(Queue') : Queue'[k].id = 0
  BY <1>6, <1>7
<1>11. \A j \in 1 .. MaxId : NoneIn(Queue', j) /\ NoneIn(Flow', j)
  <2>1. ASSUME NEW j \in 1 .. MaxId PROVE NoneIn(Queue', j) /\ NoneIn(Flow', j)
    <3>1. j # 0
      BY FlsAssumption
    <3>2. NoneIn(Queue', j)
      BY <1>10, <3>1 DEF NoneIn
    <3>3. NoneIn(Flow', j)
      <4>1. 1 .. Len(Flow') = {}
        BY <1>4
      <4> QED
        BY <4>1 DEF NoneIn
    <3> QED
      BY <3>2, <3>3
  <2> QED
    BY <2>1
<1>12. IdsTracked'
  BY <1>8, <1>11 DEF IdsTracked, NoneIn
<1>13. LinesMatch'
  BY <1>8 DEF LinesMatch
<1> QED
  BY <1>2, <1>3, <1>8, <1>9, <1>12, <1>13

\* fls writes one line more.
Writes(line) == output' = Append(output, line)

LEMMA LineAdded ==
  ASSUME output \in Seq(Lines), NEW line \in Lines, Writes(line)
  PROVE  /\ output' \in Seq(Lines) /\ Len(output) \in Nat /\ Len(output') = Len(output) + 1
         /\ \A k \in 1 .. Len(output) : output'[k] = output[k]
         /\ output'[Len(output) + 1] = line
         /\ \A k \in 1 .. Len(output') : k \in 1 .. Len(output) \/ k = Len(output) + 1
<1>1. Len(output) \in Nat
  BY LenProperties
<1>2. /\ Append(output, line) \in Seq(Lines) /\ Len(Append(output, line)) = Len(output) + 1
      /\ \A k \in 1 .. Len(output) : Append(output, line)[k] = output[k]
      /\ Append(output, line)[Len(output) + 1] = line
  BY AppendProperties
<1>3. \A k \in 1 .. Len(output) + 1 : k \in 1 .. Len(output) \/ k = Len(output) + 1
  BY <1>1
<1> QED
  BY <1>1, <1>2, <1>3 DEF Writes

LEMMA LineMatches ==
  ASSUME output \in Seq(Lines), NEW line \in Lines, Writes(line), LinesMatch, dirs' = dirs,
         IF line.text = "printed" THEN line.st.mode = line.st.path /\ (line.st.size = Default <=> line.st.path \in dirs)
                                  ELSE line.st.mode = Default
  PROVE  LinesMatch'
<1>1. ASSUME NEW k \in 1 .. Len(output')
      PROVE  IF output'[k].text = "printed"
               THEN /\ output'[k].st.mode = output'[k].st.path
                    /\ output'[k].st.size = Default <=> output'[k].st.path \in dirs
               ELSE output'[k].st.mode = Default
  <2>1. k \in 1 .. Len(output) \/ k = Len(output) + 1
    BY LineAdded
  <2>2. CASE k \in 1 .. Len(output)
    <3>1. output'[k] = output[k]
      BY <2>2, LineAdded
    <3> QED
      BY <2>2, <3>1 DEF LinesMatch
  <2>3. CASE k = Len(output) + 1
    <3>1. output'[k] = line
      BY <2>3, LineAdded
    <3> QED
      BY <3>1
  <2> QED
    BY <2>1, <2>2, <2>3
<1> QED
  BY <1>1 DEF LinesMatch

\* An entry that is printed goes from the_stats to the output.
LEMMA EntryPrinted ==
  ASSUME Typed, Once, NEW n, Named(n), NEW i \in DOMAIN stats, NEW line \in Lines, line.st = stats[i],
         Writes(line), listing' = listing,
         DOMAIN stats' = DOMAIN stats \ {i}, \A j \in DOMAIN stats' : stats'[j] = stats[j]
  PROVE  Named(n)' /\ Once'
<1>1. PICK m \in Nat :
        /\ m = Len(output) /\ Len(output') = m + 1
        /\ \A k \in 1 .. m : output'[k] = output[k]
        /\ output'[m + 1].st = stats[i]
        /\ \A k \in 1 .. m + 1 : k \in 1 .. m \/ k = m + 1
  BY LineAdded DEF Typed
<1>2. /\ \A k \in 1 .. m : k \in 1 .. m + 1
      /\ m + 1 \in 1 .. m + 1
  OBVIOUS
<1>3. Named(n)'
  <2>1. \A j \in DOMAIN stats' : \E k \in 1 .. n : stats'[j].path = listing[k]
    BY DEF Named
  <2>2. ASSUME NEW j \in 1 .. m + 1 PROVE \E k \in 1 .. n : output'[j].st.path = listing[k]
    BY <1>1 DEF Named
  <2>3. ASSUME NEW k \in 1 .. n
        PROVE  \/ \E j \in DOMAIN stats' : stats'[j].path = listing[k]
               \/ \E j \in 1 .. m + 1 : output'[j].st.path = listing[k]
    <3>1. CASE \E j \in DOMAIN stats : stats[j].path = listing[k]
      <4>1. PICK j \in DOMAIN stats : stats[j].path = listing[k]
        BY <3>1
      <4>2. CASE j = i
        BY <1>1, <1>2, <4>1, <4>2
      <4>3. CASE j # i
        BY <4>1, <4>3
      <4> QED
        BY <4>2, <4>3
    <3>2. CASE \E j \in 1 .. m : output[j].st.path = listing[k]
      BY <1>1, <1>2, <3>2
    <3> QED
      BY <1>1, <3>1, <3>2 DEF Named
  <2>4. listing' = listing /\ Len(output') = m + 1
    BY <1>1
  <2>5. /\ \A j \in DOMAIN stats' : \E k \in 1 .. n : stats'[j].path = listing'[k]
        /\ \A j \in 1 .. Len(output') : \E k \in 1 .. n : output'[j].st.path = listing'[k]
        /\ \A k \in 1 .. n : \/ \E j \in DOMAIN stats' : stats'[j].path = listing'[k]
                             \/ \E j \in 1 .. Len(output') : output'[j].st.path = listing'[k]
    BY <2>1, <2>2, <2>3, <2>4
  <2> QED
    BY <2>5, Zenon DEF Named
<1>4. Once'
  <2>1. \A j, k \in DOMAIN stats' : stats'[j].path = stats'[k].path => j = k
    BY DEF Once
  <2>2. ASSUME NEW j \in 1 .. m + 1, NEW k \in 1 .. m + 1, output'[j].st.path = output'[k].st.path
        PROVE  j = k
    <3>1. \A l \in 1 .. m : output'[l].st.path # output'[m + 1].st.path
      BY <1>1 DEF Once
    <3>2. CASE j \in 1 .. m /\ k \in 1 .. m
      BY <1>1, <2>2, <3>2 DEF Once
    <3>3. CASE j = m + 1 /\ k \in 1 .. m
      BY <2>2, <3>1, <3>3
    <3>4. CASE k = m + 1 /\ j \in 1 .. m
      BY <2>2, <3>1, <3>4
    <3> QED
      BY <1>1, <3>2, <3>3, <3>4
  <2>3. ASSUME NEW j \in DOMAIN stats', NEW k \in 1 .. m + 1 PROVE stats'[j].path # output'[k].st.path
    <3>1. CASE k \in 1 .. m
      BY <1>1, <3>1 DEF Once
    <3>2. CASE k = m + 1
      <4>1. j # i /\ j \in DOMAIN stats
        OBVIOUS
      <4> QED
        BY <1>1, <3>2, <4>1 DEF Once
    <3> QED
      BY <1>1, <3>1, <3>2
  <2>4. \A k, l \in 1 .. Len(listing') : listing'[k] = listing'[l] => k = l
    BY DEF Once
  <2> QED
    BY <1>1, <2>1, <2>2, <2>3, <2>4 DEF Once
<1> QED
  BY <1>3, <1>4

\* The answer for a path is complete, and it is printed.
LEMMA PrintStep ==
  ASSUME Typed, IdsTracked, Phase, LinesMatch, Flow # <<>>, Flow' = Tail(Flow), Queue' = Queue,
         NEW f, f = Flow[1], HandlePrint(f), UNCHANGED <<listing, dirs>>
  PROVE  /\ IdsTracked' /\ Phase' /\ LinesMatch' /\ output' \in Seq(Lines)
         /\ stats' \in [DOMAIN stats' -> Stat] /\ DOMAIN stats' \subseteq DOMAIN stats
<1>1. PICK i \in DOMAIN stats, st \in Stat :
        i = f.id /\ st = stats[i] /\ f.type = "result" /\ ~ IsDirectory(f) /\ Erase(f.id)
  <2>1. \A i \in DOMAIN stats : stats[i] \in Stat
    BY DEF Typed
  <2> QED
    BY <2>1 DEF HandlePrint
<1>2. /\ st.mode = st.path /\ (st.size = Default <=> st.path \in dirs)
      /\ NoneIn(Queue, i) /\ NoneIn(Flow', i) /\ ~ NoneIn(Flow, i)
      /\ DOMAIN stats' = DOMAIN stats \ {i} /\ \A j \in DOMAIN stats' : stats'[j] = stats[j]
  BY <1>1, ResultComes
<1>8. stats' \in [DOMAIN stats' -> Stat]
  BY <1>1, ResultComes
<1>3. IdsTracked'
  <2>1. /\ NoneIn(Queue, Flow[1].id) /\ NoneIn(Flow', Flow[1].id)
        /\ DOMAIN stats' = DOMAIN stats \ {Flow[1].id}
    BY <1>1, <1>2
  <2>2. result' = result /\ (shut => shut')
    BY DEF HandlePrint
  <2>3. \A j \in DOMAIN stats' : stats'[j] = stats[j]
    BY <1>2
  <2> QED
    BY <2>1, <2>2, <2>3, OneErased
<1>4. PICK line \in Lines : line.text = "printed" /\ line.st = st /\ Writes(line)
  <2>1. output' = Append(output, [text |-> "printed", st |-> st])
    BY <1>1 DEF HandlePrint, Line
  <2>2. [text |-> "printed", st |-> st] \in Lines
    BY DEF Lines
  <2> QED
    BY <2>1, <2>2 DEF Writes
<1>5. output \in Seq(Lines)
  BY DEF Typed
<1>6. LinesMatch' /\ output' \in Seq(Lines)
  <2>1. output' \in Seq(Lines)
    BY <1>4, <1>5, LineAdded
  <2>2. line.st.mode = line.st.path /\ (line.st.size = Default <=> line.st.path \in dirs)
    BY <1>2, <1>4
  <2>3. LinesMatch'
    BY <1>4, <1>5, <2>2, LineMatches
  <2> QED
    BY <2>1, <2>3
<1>7. Phase'
  <2>1. CASE Root
    <3>1. i = 0 /\ st.path = Path /\ Flow[1].id = 0 /\ DOMAIN stats = {0} /\ output = <<>>
      BY <1>1, <2>1 DEF Root
    <3>2. Path \notin dirs
      BY <1>1, <1>2, <3>1 DEF IsDirectory
    <3>3. Queue = <<>> /\ Flow' = <<>>
      BY <1>2, <3>1, AllAnswered
    <3>4. Len(output') = 1 /\ output'[1] = line
      <4>1. Len(output) = 0
        BY <3>1
      <4> QED
        BY <1>4, <1>5, <4>1, LineAdded
    <3> QED
      BY <1>2, <1>4, <3>1, <3>2, <3>3, <3>4 DEF Phase, RootShown
  <2>2. CASE Listed
    <3>1. i # 0
      BY <2>2 DEF Listed
    <3>2. PICK n : n = Len(listing) /\ Named(n) /\ Once
      BY <2>2 DEF Listed
    <3>3. Named(n)' /\ Once'
      BY <1>1, <1>2, <1>4, <3>2, EntryPrinted
    <3>4. NoneIn(Flow', 0)
      BY <1>1, <2>2, <3>1, OthersPass DEF Listed, Passes
    <3>5. Named(Len(listing))'
      BY <3>2, <3>3
    <3>6. 0 \notin DOMAIN stats' /\ sending' = <<>>
      <4>1. 0 \notin DOMAIN stats'
        BY <1>2, <2>2 DEF Listed
      <4>2. sending' = <<>>
        BY <2>2 DEF Listed, HandlePrint
      <4> QED
        BY <4>1, <4>2
    <3>7. Listed'
      BY <2>2, <3>3, <3>4, <3>5, <3>6 DEF Listed, NoneIn
    <3> QED
      BY <3>7 DEF Phase
  <2>3. ~ Listing \/ Flow[1].id # 0
    BY <1>1 DEF Listing
  <2> QED
    BY <2>1, <2>2, <2>3, HeadPhase
<1> QED
  BY <1>2, <1>3, <1>6, <1>7, <1>8

\* The names that are still on their way, one fewer.
LEMMA NameTaken ==
  ASSUME Typed, Flow # <<>>, Flow' = Tail(Flow), NEW n, NEW d, n \in Nat, d \in Nat, Pending(n, d),
         Flow[1].type = "dentry"
  PROVE  /\ d >= 1 /\ Flow[1].of = listing[n + 1] /\ n + 1 \in 1 .. Len(listing)
         /\ Len(listing) = (n + 1) + (d - 1) /\ (d - 1) + 1 <= Len(Flow')
         /\ \A k \in 1 .. d - 1 : Flow'[k] = Frame("dentry", 0, listing[(n + 1) + k])
         /\ Flow'[(d - 1) + 1].id = 0 /\ Flow'[(d - 1) + 1].type \in {"result", "error"}
         /\ \A k \in (d - 1) + 2 .. Len(Flow') : Flow'[k].id # 0
<1>1. PICK l, m \in Nat :
        /\ l = Len(listing) /\ m = Len(Flow) /\ l = n + d /\ d + 1 <= m
        /\ \A k \in 1 .. d : Flow[k] = Frame("dentry", 0, listing[n + k])
        /\ Flow[d + 1].id = 0 /\ Flow[d + 1].type \in {"result", "error"}
        /\ \A k \in d + 2 .. m : Flow[k].id # 0
  BY FlowIs DEF Pending
<1>2. d >= 1
  <2>1. d # 0
    BY <1>1
  <2> QED
    BY <2>1
<1>3. PICK s \in Seq(Frames) : /\ s = Flow' /\ Len(s) = m - 1
                              /\ \A k \in 1 .. m - 1 : s[k] = Flow[k + 1]
  <2>1. Flow \in Seq(Frames)
    BY FlowIs
  <2>2. /\ Tail(Flow) \in Seq(Frames) /\ Len(Tail(Flow)) = m - 1
        /\ \A k \in 1 .. m - 1 : Tail(Flow)[k] = Flow[k + 1]
    BY <1>1, <2>1, TailIs
  <2> QED
    BY <2>2
<1>4. Flow[1].of = listing[n + 1] /\ n + 1 \in 1 .. l
  <2>1. Flow[1] = Frame("dentry", 0, listing[n + 1]) /\ n + 1 \in 1 .. l
    BY <1>1, <1>2
  <2> QED
    BY <2>1 DEF Frame
<1>5. l = (n + 1) + (d - 1) /\ (d - 1) + 1 <= m - 1
  BY <1>1
<1>6. ASSUME NEW k \in 1 .. d - 1 PROVE s[k] = Frame("dentry", 0, listing[(n + 1) + k])
  <2>1. k \in 1 .. m - 1 /\ k + 1 \in 1 .. d /\ n + (k + 1) = (n + 1) + k
    BY <1>1, <1>2
  <2> QED
    BY <1>1, <1>3, <2>1
<1>7. s[(d - 1) + 1].id = 0 /\ s[(d - 1) + 1].type \in {"result", "error"}
  <2>1. (d - 1) + 1 = d /\ d \in 1 .. m - 1
    BY <1>1, <1>2
  <2> QED
    BY <1>1, <1>3, <2>1
<1>8. ASSUME NEW k \in (d - 1) + 2 .. m - 1 PROVE s[k].id # 0
  <2>1. k \in 1 .. m - 1 /\ k + 1 \in d + 2 .. m
    BY <1>1, <1>2
  <2> QED
    BY <1>1, <1>3, <2>1
<1> QED
  BY <1>1, <1>2, <1>3, <1>4, <1>5, <1>6, <1>7, <1>8

\* No entry and no line has the next name yet.
LEMMA NameIsNew ==
  ASSUME Once, NEW n \in Nat, Named(n), n + 1 \in 1 .. Len(listing), Len(listing) \in Nat
  PROVE  /\ \A i \in DOMAIN stats : stats[i].path # listing[n + 1]
         /\ \A j \in 1 .. Len(output) : output[j].st.path # listing[n + 1]
<1>1. \A k \in 1 .. n : listing[k] # listing[n + 1]
  <2>1. \A k \in 1 .. n : k \in 1 .. Len(listing) /\ k # n + 1
    OBVIOUS
  <2> QED
    BY <2>1 DEF Once
<1> QED
  BY <1>1 DEF Named

\* A name is skipped.
LEMMA EntrySkipped ==
  ASSUME Typed, Once, NEW n \in Nat, Named(n), n + 1 \in 1 .. Len(listing), Len(listing) \in Nat,
         NEW line \in Lines, line.st.path = listing[n + 1], Writes(line), UNCHANGED <<stats, listing>>
  PROVE  Named(n + 1)' /\ Once'
<1>1. PICK m \in Nat :
        /\ m = Len(output) /\ Len(output') = m + 1
        /\ \A k \in 1 .. m : output'[k] = output[k]
        /\ output'[m + 1].st.path = listing[n + 1]
        /\ \A k \in 1 .. m + 1 : k \in 1 .. m \/ k = m + 1
  BY LineAdded DEF Typed
<1>2. /\ \A k \in 1 .. m : k \in 1 .. m + 1
      /\ m + 1 \in 1 .. m + 1 /\ n + 1 \in 1 .. n + 1
      /\ \A k \in 1 .. n : k \in 1 .. n + 1
      /\ \A k \in 1 .. n + 1 : k \in 1 .. n \/ k = n + 1
  OBVIOUS
<1>3. /\ \A i \in DOMAIN stats : stats[i].path # listing[n + 1]
      /\ \A j \in 1 .. m : output[j].st.path # listing[n + 1]
  BY <1>1, NameIsNew
<1>4. PICK q : q = n + 1
  OBVIOUS
<1>5. /\ \A i \in DOMAIN stats : \E k \in 1 .. q : stats[i].path = listing[k]
      /\ \A j \in 1 .. m + 1 : \E k \in 1 .. q : output'[j].st.path = listing[k]
      /\ \A k \in 1 .. q : \/ \E i \in DOMAIN stats : stats[i].path = listing[k]
                           \/ \E j \in 1 .. m + 1 : output'[j].st.path = listing[k]
  <2>1. \A i \in DOMAIN stats : \E k \in 1 .. q : stats[i].path = listing[k]
    BY <1>2, <1>4 DEF Named
  <2>2. \A j \in 1 .. m + 1 : \E k \in 1 .. q : output'[j].st.path = listing[k]
    <3>1. ASSUME NEW j \in 1 .. m PROVE \E k \in 1 .. n : output'[j].st.path = listing[k]
      BY <1>1 DEF Named
    <3>2. output'[m + 1].st.path = listing[n + 1]
      BY <1>1
    <3> QED
      BY <1>1, <1>2, <1>4, <3>1, <3>2
  <2>3. \A k \in 1 .. q : \/ \E i \in DOMAIN stats : stats[i].path = listing[k]
                          \/ \E j \in 1 .. m + 1 : output'[j].st.path = listing[k]
    <3>1. ASSUME NEW k \in 1 .. n
          PROVE  \/ \E i \in DOMAIN stats : stats[i].path = listing[k]
                 \/ \E j \in 1 .. m + 1 : output'[j].st.path = listing[k]
      <4>1. CASE \E i \in DOMAIN stats : stats[i].path = listing[k]
        BY <4>1
      <4>2. CASE \E j \in 1 .. m : output[j].st.path = listing[k]
        BY <1>1, <1>2, <4>2
      <4> QED
        BY <1>1, <4>1, <4>2 DEF Named
    <3>2. \E j \in 1 .. m + 1 : output'[j].st.path = listing[n + 1]
      BY <1>1, <1>2
    <3> QED
      BY <1>2, <1>4, <3>1, <3>2
  <2> QED
    BY <2>1, <2>2, <2>3
<1>6. Named(q)'
  BY <1>1, <1>5 DEF Named
<1>7. Once'
  <2>1. ASSUME NEW j \in 1 .. m + 1, NEW k \in 1 .. m + 1, output'[j].st.path = output'[k].st.path
        PROVE  j = k
    <3>1. \A l \in 1 .. m : output'[l].st.path # output'[m + 1].st.path
      BY <1>1, <1>3
    <3>2. CASE j \in 1 .. m /\ k \in 1 .. m
      BY <1>1, <2>1, <3>2 DEF Once
    <3>3. CASE j = m + 1 /\ k \in 1 .. m
      BY <2>1, <3>1, <3>3
    <3>4. CASE k = m + 1 /\ j \in 1 .. m
      BY <2>1, <3>1, <3>4
    <3> QED
      BY <1>1, <3>2, <3>3, <3>4
  <2>2. ASSUME NEW j \in DOMAIN stats, NEW k \in 1 .. m + 1 PROVE stats[j].path # output'[k].st.path
    <3>1. CASE k \in 1 .. m
      BY <1>1, <3>1 DEF Once
    <3>2. CASE k = m + 1
      BY <1>1, <1>3, <3>2
    <3> QED
      BY <1>1, <3>1, <3>2
  <2> QED
    BY <1>1, <2>1, <2>2 DEF Once
<1> QED
  BY <1>4, <1>6, <1>7

\* A name is given an id.
LEMMA EntryGiven ==
  ASSUME Typed, Once, NEW n \in Nat, Named(n), n + 1 \in 1 .. Len(listing), Len(listing) \in Nat,
         NEW i, i \notin DOMAIN stats, DOMAIN stats' = DOMAIN stats \cup {i},
         stats'[i].path = listing[n + 1], \A j \in DOMAIN stats : stats'[j] = stats[j],
         UNCHANGED <<output, listing>>
  PROVE  Named(n + 1)' /\ Once'
<1>1. /\ n + 1 \in 1 .. n + 1
      /\ \A k \in 1 .. n : k \in 1 .. n + 1
      /\ \A k \in 1 .. n + 1 : k \in 1 .. n \/ k = n + 1
  OBVIOUS
<1>2. /\ \A j \in DOMAIN stats : stats[j].path # listing[n + 1]
      /\ \A j \in 1 .. Len(output) : output[j].st.path # listing[n + 1]
  BY NameIsNew
<1>3. PICK q : q = n + 1
  OBVIOUS
<1>4. \A j \in DOMAIN stats' : \E k \in 1 .. q : stats'[j].path = listing[k]
  BY <1>1, <1>3 DEF Named
<1>5. \A j \in 1 .. Len(output) : \E k \in 1 .. q : output[j].st.path = listing[k]
  BY <1>1, <1>3 DEF Named
<1>6. ASSUME NEW k \in 1 .. q
      PROVE  \/ \E j \in DOMAIN stats' : stats'[j].path = listing[k]
             \/ \E j \in 1 .. Len(output) : output[j].st.path = listing[k]
  <2>1. CASE k \in 1 .. n
    <3>1. CASE \E j \in DOMAIN stats : stats[j].path = listing[k]
      BY <3>1
    <3>2. CASE \E j \in 1 .. Len(output) : output[j].st.path = listing[k]
      BY <3>2
    <3> QED
      BY <2>1, <3>1, <3>2 DEF Named
  <2>2. CASE k = n + 1
    BY <2>2
  <2> QED
    BY <1>1, <1>3, <2>1, <2>2
<1>7. Named(q)'
  BY <1>4, <1>5, <1>6 DEF Named
<1>8. Once'
  <2>1. ASSUME NEW j \in DOMAIN stats', NEW k \in DOMAIN stats', stats'[j].path = stats'[k].path
        PROVE  j = k
    <3>1. \A l \in DOMAIN stats : stats'[l].path # stats'[i].path
      BY <1>2
    <3>2. CASE j \in DOMAIN stats /\ k \in DOMAIN stats
      BY <2>1, <3>2 DEF Once
    <3>3. CASE j = i /\ k \in DOMAIN stats
      BY <2>1, <3>1, <3>3
    <3>4. CASE k = i /\ j \in DOMAIN stats
      BY <2>1, <3>1, <3>4
    <3> QED
      BY <3>2, <3>3, <3>4
  <2>2. ASSUME NEW j \in DOMAIN stats', NEW k \in 1 .. Len(output) PROVE stats'[j].path # output[k].st.path
    <3>1. CASE j \in DOMAIN stats
      BY <3>1 DEF Once
    <3>2. CASE j = i
      BY <1>2, <3>2
    <3> QED
      BY <3>1, <3>2
  <2> QED
    BY <2>1, <2>2 DEF Once
<1> QED
  BY <1>3, <1>7, <1>8

\* The frame that comes next belongs to the list.
LEMMA ListComes ==
  ASSUME Typed, IdsTracked, Phase, Flow # <<>>, NEW f, f = Flow[1],
         f.id \notin DOMAIN stats
  PROVE  /\ f.id = 0 /\ Listing
         /\ \E n, d \in Nat : Pending(n, d) /\ (f.type = "dentry" \/ d = 0) /\ (f.type # "dentry" \/ d # 0)
<1>1. f.id = 0 /\ Listing
  BY HeadComes
<1>2. PICK n, d \in Nat : Pending(n, d)
  BY <1>1, FlowIs DEF Listing
<1>3. CASE d = 0
  BY <1>1, <1>2, <1>3 DEF Pending
<1>4. CASE d # 0
  <2>1. 1 \in 1 .. d
    BY <1>4
  <2>2. f = Frame("dentry", 0, listing[n + 1])
    BY <1>2, <2>1 DEF Pending
  <2>3. f.type = "dentry"
    BY <2>2 DEF Frame
  <2> QED
    BY <1>1, <1>2, <1>4, <2>3
<1> QED
  BY <1>3, <1>4

\* What is left of the flow and of the list makes the rest of the listing.
LEMMA ListingGoesOn ==
  ASSUME Typed, Listing, Flow # <<>>, Flow' = Tail(Flow), NEW n \in Nat, NEW d \in Nat, Pending(n, d),
         Flow[1].type = "dentry", Named(n + 1)', Once', NoneIn(Queue', 0), 0 \notin DOMAIN stats',
         UNCHANGED <<listing, dirs, shut>>
  PROVE  Phase'
<1>1. /\ d >= 1 /\ n + 1 \in 1 .. Len(listing)
      /\ Len(listing) = (n + 1) + (d - 1) /\ (d - 1) + 1 <= Len(Flow')
      /\ \A k \in 1 .. d - 1 : Flow'[k] = Frame("dentry", 0, listing[(n + 1) + k])
      /\ Flow'[(d - 1) + 1].id = 0 /\ Flow'[(d - 1) + 1].type \in {"result", "error"}
      /\ \A k \in (d - 1) + 2 .. Len(Flow') : Flow'[k].id # 0
  BY NameTaken
<1>2. PICK p, q \in Nat : p = n + 1 /\ q = d - 1
  BY <1>1
<1>3. Pending(p, q)'
  BY <1>1, <1>2 DEF Pending
<1>4. p \in 0 .. Len(listing) /\ q \in 0 .. Len(listing)
  BY <1>1, <1>2, FlowIs
<1>5. 0 \notin DOMAIN stats' /\ Path \in dirs' /\ ~ shut' /\ NoneIn(Queue, 0)'
  BY DEF Listing, NoneIn
<1>6. Listing'
  BY <1>3, <1>4, <1>5 DEF Listing
<1> QED
  BY <1>6 DEF Phase

\* A name that there is no id for is skipped.
LEMMA NameSkipped ==
  ASSUME Typed, IdsTracked, Phase, LinesMatch, Flow # <<>>, Flow' = Tail(Flow), Queue' = Queue,
         NEW f, f = Flow[1], f.type = "dentry", f.id \notin DOMAIN stats,
         output' = Line("skipped", NewStat(f.of)), UNCHANGED <<stats, result, shut, listing, dirs>>
  PROVE  IdsTracked' /\ Phase' /\ LinesMatch' /\ output' \in Seq(Lines)
<1>1. f.id = 0 /\ Listing
  BY ListComes
<1>2. PICK n, d \in Nat : Pending(n, d)
  BY ListComes
<1>3. f.of = listing[n + 1] /\ n + 1 \in 1 .. Len(listing) /\ Named(n) /\ Once
  BY <1>1, <1>2, NameTaken DEF Pending, Listing
<1>4. f.of \in Paths
  <2>1. Flow \in Seq(Frames)
    BY FlowIs
  <2>2. f \in Frames
    BY <2>1, TailIs
  <2> QED
    BY <2>2 DEF Frames
<1>5. PICK line \in Lines : Writes(line) /\ line.text = "skipped" /\ line.st = NewStat(f.of)
  <2>1. NewStat(f.of) \in Stat
    BY <1>4 DEF NewStat, Stat
  <2>2. [text |-> "skipped", st |-> NewStat(f.of)] \in Lines
    BY <2>1 DEF Lines
  <2>3. Writes([text |-> "skipped", st |-> NewStat(f.of)])
    BY DEF Line, Writes
  <2> QED
    BY <2>2, <2>3
<1>6. line.st.path = listing[n + 1] /\ line.st.mode = Default
  BY <1>3, <1>5 DEF NewStat
<1>7. Named(n + 1)' /\ Once'
  BY <1>3, <1>5, <1>6, FlowIs, EntrySkipped
<1>8. IdsTracked'
  <2>1. ASSUME NEW j \in DOMAIN stats PROVE Tracked(j)'
    <3>1. Passes(Queue, Queue', j)
      BY SamePasses
    <3> QED
      BY <3>1, OthersTracked
  <2>2. ASSUME NEW j \in 1 .. MaxId, j \notin DOMAIN stats PROVE NoneIn(Queue', j) /\ NoneIn(Flow', j)
    <3>1. j # Flow[1].id
      BY <1>1
    <3> QED
      BY <2>2, <3>1, OthersPass DEF IdsTracked, Passes
  <2> QED
    BY <2>1, <2>2 DEF IdsTracked, NoneIn
<1>9. Phase'
  <2>1. NoneIn(Queue', 0) /\ 0 \notin DOMAIN stats'
    BY <1>1 DEF Listing
  <2> QED
    BY <1>1, <1>2, <1>7, <2>1, ListingGoesOn
<1>10. output \in Seq(Lines)
  BY DEF Typed
<1>11. LinesMatch' /\ output' \in Seq(Lines)
  BY <1>5, <1>6, <1>10, LineAdded, LineMatches
<1> QED
  BY <1>8, <1>9, <1>11

\* A name is given an id, and its attributes are asked for.
LEMMA NameGiven ==
  ASSUME Typed, IdsTracked, Phase, LinesMatch, Flow # <<>>, Flow' = Tail(Flow),
         NEW f, f = Flow[1], f.type = "dentry", f.id \notin DOMAIN stats,
         NEW i \in 1 .. MaxId, i \notin DOMAIN stats, NEW r, r = Request("stat", i, f.of), Queue' = Queue \o <<r>>,
         Set(i, NewStat(f.of)), UNCHANGED <<output, result, shut, listing, dirs>>
  PROVE  /\ IdsTracked' /\ Phase' /\ LinesMatch' /\ r \in Reqs
         /\ stats' \in [DOMAIN stats' -> Stat] /\ DOMAIN stats' = DOMAIN stats \cup {i}
<1>1. f.id = 0 /\ Listing
  BY ListComes
<1>2. PICK n, d \in Nat : Pending(n, d)
  BY ListComes
<1>3. f.of = listing[n + 1] /\ n + 1 \in 1 .. Len(listing) /\ Named(n) /\ Once
  BY <1>1, <1>2, NameTaken DEF Pending, Listing
<1>4. PICK p \in Paths : p = f.of
  <2>1. Flow \in Seq(Frames)
    BY FlowIs
  <2>2. f \in Frames
    BY <2>1, TailIs
  <2> QED
    BY <2>2 DEF Frames
<1>5. i # 0 /\ i \in 0 .. MaxId
  BY FlsAssumption
<1>6. r \in Reqs /\ r.id = i
  BY <1>4, <1>5, RequestIs
<1>7. NewStat(p) \in Stat /\ NewStat(p).path = p
  BY <1>4 DEF NewStat, Stat
<1>8. /\ DOMAIN stats' = DOMAIN stats \cup {i} /\ stats'[i] = NewStat(p)
      /\ \A j \in DOMAIN stats : stats'[j] = stats[j]
  BY <1>4 DEF Set
<1>9. stats' \in [DOMAIN stats' -> Stat]
  BY <1>4, <1>7 DEF Set, Typed
<1>10. PICK s \in Seq(Reqs) : s = <<r>> /\ Len(s) = 1 /\ s[1] = r
  <2>1. <<r>> \in Seq(Reqs) /\ Len(<<r>>) = 1 /\ <<r>>[1] = r
    BY <1>6
  <2> QED
    BY <2>1
<1>11. /\ \A j : j # i => Passes(Queue, Queue', j)
       /\ NoneIn(Queue, i) => Passes(s, Queue', i)
  <2>1. \A j : j # i => NoneIn(s, j)
    BY <1>6, <1>10 DEF NoneIn
  <2>2. Queue \in Seq(Reqs)
    BY FlowIs
  <2> QED
    BY <1>10, <2>1, <2>2, JoinPasses
<1>12. Tracked(i)'
  <2>1. NoneIn(Queue, i) /\ NoneIn(Flow, i)
    BY DEF IdsTracked
  <2>2. NoneIn(Flow', i)
    BY <1>1, <1>5, <2>1, OthersPass DEF Passes
  <2>3. OnlyIn(s, i, r)
    BY <1>6, <1>10 DEF OnlyIn
  <2>4. OnlyIn(Queue', i, r)
    BY <1>6, <1>11, <2>1, <2>3 DEF Passes
  <2>5. stats'[i].path = p /\ Fresh(i)'
    BY <1>7, <1>8 DEF Fresh
  <2>6. OnlyIn(Queue, i, Request("stat", i, stats[i].path))'
    <3>1. r = Request("stat", i, stats'[i].path)
      BY <1>4, <2>5
    <3>2. PICK q : q = Queue'
      OBVIOUS
    <3>3. OnlyIn(q, i, r)
      BY <2>4, <3>2
    <3>4. PICK k \in 1 .. Len(q) : q[k] = r /\ \A l \in 1 .. Len(q) : q[l].id = i => l = k
      BY <3>3 DEF OnlyIn
    <3> QED
      BY <3>1, <3>2, <3>4 DEF OnlyIn
  <2>7. NoneIn(Flow, i)'
    BY <2>2 DEF NoneIn
  <2> QED
    BY <2>5, <2>6, <2>7 DEF Tracked, Asked
<1>13. IdsTracked'
  <2>1. ASSUME NEW j \in DOMAIN stats PROVE Tracked(j)'
    BY <1>8, <1>11, OthersTracked
  <2>2. ASSUME NEW j \in 1 .. MaxId, j \notin DOMAIN stats' PROVE NoneIn(Queue', j) /\ NoneIn(Flow', j)
    <3>1. j # Flow[1].id /\ j # i /\ j \notin DOMAIN stats
      BY <1>1, <1>8, <2>2
    <3> QED
      BY <1>11, <3>1, OthersPass DEF IdsTracked, Passes
  <2> QED
    BY <1>8, <1>12, <2>1, <2>2 DEF IdsTracked, NoneIn
<1>14. Named(n + 1)' /\ Once'
  <2>1. stats'[i].path = listing[n + 1]
    BY <1>3, <1>4, <1>7, <1>8
  <2> QED
    BY <1>3, <1>8, <2>1, FlowIs, EntryGiven
<1>15. Phase'
  <2>1. NoneIn(Queue', 0) /\ 0 \notin DOMAIN stats'
    BY <1>1, <1>5, <1>8, <1>11 DEF Listing, Passes
  <2> QED
    BY <1>1, <1>2, <1>14, <2>1, ListingGoesOn
<1>16. LinesMatch'
  BY DEF LinesMatch
<1> QED
  BY <1>6, <1>8, <1>9, <1>13, <1>15, <1>16

\* The list is complete, or has failed.
LEMMA ListedStep ==
  ASSUME Typed, IdsTracked, Phase, LinesMatch, Flow # <<>>, Flow' = Tail(Flow), Queue' = Queue, sending = <<>>,
         NEW f, f = Flow[1], HandleListed(f), UNCHANGED <<listing, dirs>>
  PROVE  IdsTracked' /\ Phase' /\ LinesMatch'
<1>1. f.id \notin DOMAIN stats /\ f.type # "dentry"
  BY DEF HandleListed
<1>2. f.id = 0 /\ Listing
  BY <1>1, ListComes
<1>3. PICK n \in Nat : Pending(n, 0)
  BY <1>1, ListComes
<1>4. UNCHANGED <<stats, output, sending>>
  BY DEF HandleListed
<1>5. IdsTracked'
  <2>1. ASSUME NEW j \in DOMAIN stats PROVE Tracked(j)'
    <3>1. Passes(Queue, Queue', j)
      BY SamePasses
    <3>2. (result = 1 => result' = 1) /\ (shut => shut')
      BY DEF HandleListed
    <3> QED
      BY <1>1, <1>4, <3>1, <3>2, OthersTracked
  <2>2. ASSUME NEW j \in 1 .. MaxId, j \notin DOMAIN stats PROVE NoneIn(Queue', j) /\ NoneIn(Flow', j)
    <3>1. j # Flow[1].id
      BY <1>2
    <3> QED
      BY <2>2, <3>1, OthersPass DEF IdsTracked, Passes
  <2> QED
    BY <1>4, <2>1, <2>2 DEF IdsTracked, NoneIn
<1>6. Named(Len(listing)) /\ \A k \in 2 .. Len(Flow) : Flow[k].id # 0
  <2>1. Len(listing) = n + 0 /\ Named(n) /\ \A k \in 0 + 2 .. Len(Flow) : Flow[k].id # 0
    BY <1>3 DEF Pending
  <2>2. n + 0 = n /\ 0 + 2 = 2
    OBVIOUS
  <2> QED
    BY <2>1, <2>2
<1>7. NoneIn(Flow', 0)
  <2>1. Flow \in Seq(Frames)
    BY FlowIs
  <2>2. /\ Len(Flow) \in Nat /\ Len(Tail(Flow)) = Len(Flow) - 1
        /\ \A k \in 1 .. Len(Flow) - 1 : Tail(Flow)[k] = Flow[k + 1]
    BY <2>1, TailIs
  <2>3. \A k \in 1 .. Len(Flow) - 1 : k + 1 \in 2 .. Len(Flow)
    BY <2>2
  <2> QED
    BY <1>6, <2>2, <2>3 DEF NoneIn
<1>8. Phase'
  <2>1. Named(Len(listing))' /\ Once'
    BY <1>2, <1>4, <1>6, SamePaths DEF Listing
  <2>2. Listed'
    BY <1>2, <1>4, <1>7, <2>1 DEF Listed, Listing, NoneIn
  <2> QED
    BY <2>2 DEF Phase
<1>9. LinesMatch'
  BY <1>4 DEF LinesMatch
<1> QED
  BY <1>5, <1>8, <1>9

----------------------------------------------------------------------------
(* The invariant.                                                          *)

LEMMA TypedAfter ==
  ASSUME Typed, Ends, client = "running", pipe # <<>>, pipe' = Tail(pipe),
         UNCHANGED <<client, requests, reply, server, listing, files>>,
         DOMAIN stats' \subseteq 0 .. MaxId, stats' \in [DOMAIN stats' -> Stat],
         result' \in {0, 1}, shut' \in BOOLEAN, shut => shut', output' \in Seq(Lines),
         sending' \in Seq(Reqs), Len(sending') <= 1, shut' => sending' = <<>>
  PROVE  Typed' /\ Ends'
<1>1. pipe' \in Seq(Frames) /\ Len(pipe') <= ReplyCap
  <2>1. pipe \in Seq(Frames) /\ Len(pipe) <= ReplyCap
    BY DEF Typed
  <2>2. Tail(pipe) \in Seq(Frames) /\ Len(Tail(pipe)) = Len(pipe) - 1 /\ Len(pipe) \in Nat
    BY <2>1, TailIs
  <2> QED
    BY <2>1, <2>2, FlsAssumption
<1>2. Typed'
  BY <1>1 DEF Typed
<1>3. Ends'
  BY DEF Ends
<1> QED
  BY <1>2, <1>3

\* fls handles a frame.
LEMMA HandleKeeps ==
  ASSUME FlsInv, Handle
  PROVE  FlsInv'
<1>1. Typed /\ Ends /\ IdsTracked /\ Phase /\ LinesMatch
  BY DEF FlsInv
<1>2. /\ client = "running" /\ sending = <<>> /\ pipe # <<>> /\ pipe' = Tail(pipe)
      /\ UNCHANGED <<requests, reply, server, listing, files, dirs>>
  BY DEF Handle, serverVars, worldVars
<1>3. PICK f : /\ f = Head(pipe)
               /\ \/ HandleAttribute(f) \/ HandleError(f) \/ HandleRoot(f) \/ HandlePrint(f)
                  \/ HandleName(f) \/ HandleListed(f) \/ HandleUnknown(f)
  BY DEF Handle
<1>4. ASSUME sending' \in Seq(Reqs)
      PROVE  Flow # <<>> /\ Flow' = Tail(Flow) /\ f = Flow[1] /\ Queue' = Queue \o sending'
  BY <1>1, <1>2, <1>3, <1>4, FlowTaken
<1>5. Flow # <<>> /\ f = Flow[1] /\ f.id \in 0 .. MaxId
  <2>1. Flow # <<>>
    BY <1>1, <1>2, FlowIs
  <2>2. Flow \in Seq(Frames) /\ Head(Flow) = Flow[1] /\ Flow[1] \in Frames
    BY <1>1, <2>1, FlowIs, TailIs
  <2>3. Head(Flow) = Head(pipe)
    BY <1>1, <1>2, TailOfJoin DEF Flow, Typed
  <2> QED
    BY <1>3, <2>1, <2>2, <2>3 DEF Frames
<1>6. ASSUME sending' = sending
      PROVE  sending' = <<>> /\ sending' \in Seq(Reqs) /\ Len(sending') <= 1 /\ Flow' = Tail(Flow) /\ Queue' = Queue
  <2>1. sending' = <<>> /\ sending' \in Seq(Reqs) /\ Len(sending') <= 1
    BY <1>1, <1>2, <1>6 DEF Typed
  <2>2. Queue \o <<>> = Queue
    BY <1>1, FlowIs, ConcatEmptySeq
  <2> QED
    BY <1>4, <2>1, <2>2
<1>7. /\ DOMAIN stats \subseteq 0 .. MaxId /\ stats \in [DOMAIN stats -> Stat]
      /\ output \in Seq(Lines) /\ result \in {0, 1} /\ shut \in BOOLEAN
  BY <1>1 DEF Typed
<1>8. CASE HandleAttribute(f)
  <2>1. UNCHANGED <<result, output, sending, shut, client>>
    BY <1>8 DEF HandleAttribute
  <2>2. /\ IdsTracked' /\ Phase' /\ LinesMatch'
        /\ DOMAIN stats' = DOMAIN stats /\ stats' \in [DOMAIN stats -> Stat]
    BY <1>1, <1>2, <1>5, <1>6, <1>8, <2>1, AttributeStep
  <2>3. Typed' /\ Ends'
    BY <1>1, <1>2, <1>6, <1>7, <2>1, <2>2, TypedAfter
  <2> QED
    BY <2>2, <2>3 DEF FlsInv
<1>9. CASE HandleError(f)
  <2>1. UNCHANGED <<stats, output, sending, client>> /\ result' = 1 /\ shut' = TRUE
    BY <1>9 DEF HandleError
  <2>2. IdsTracked' /\ Phase' /\ LinesMatch'
    BY <1>1, <1>2, <1>5, <1>6, <1>9, <2>1, ErrorStep
  <2>3. Typed' /\ Ends'
    BY <1>1, <1>2, <1>6, <1>7, <2>1, TypedAfter
  <2> QED
    BY <2>2, <2>3 DEF FlsInv
<1>10. CASE HandleRoot(f)
  <2>1. UNCHANGED <<result, output, shut, client>> /\ sending' = <<Request("list", 0, Path)>>
    BY <1>10 DEF HandleRoot
  <2>2. sending' \in Seq(Reqs) /\ Len(sending') = 1
    <3>1. Request("list", 0, Path) \in Reqs
      <4>1. 0 \in 0 .. MaxId /\ Path \in Paths
        BY FlsAssumption DEF Paths
      <4> QED
        BY <4>1, RequestIs
    <3> QED
      BY <2>1, <3>1
  <2>3. /\ IdsTracked' /\ Phase' /\ LinesMatch' /\ ~ shut
        /\ stats' \in [DOMAIN stats' -> Stat] /\ DOMAIN stats' = {}
    BY <1>1, <1>2, <1>4, <1>5, <1>10, <2>2, RootStep
  <2>4. Typed' /\ Ends'
    BY <1>1, <1>2, <1>7, <2>1, <2>2, <2>3, TypedAfter
  <2> QED
    BY <2>3, <2>4 DEF FlsInv
<1>11. CASE HandlePrint(f)
  <2>1. UNCHANGED <<result, sending, client>> /\ shut' = (shut \/ DOMAIN stats' = {})
    BY <1>11 DEF HandlePrint
  <2>2. /\ IdsTracked' /\ Phase' /\ LinesMatch' /\ output' \in Seq(Lines)
        /\ stats' \in [DOMAIN stats' -> Stat] /\ DOMAIN stats' \subseteq DOMAIN stats
    BY <1>1, <1>2, <1>5, <1>6, <1>11, <2>1, PrintStep
  <2>3. Typed' /\ Ends'
    BY <1>1, <1>2, <1>6, <1>7, <2>1, <2>2, TypedAfter
  <2> QED
    BY <2>2, <2>3 DEF FlsInv
<1>12. CASE HandleName(f)
  <2>1. f.type = "dentry" /\ f.id \notin DOMAIN stats /\ UNCHANGED <<result, shut, client>>
    BY <1>12 DEF HandleName
  <2>2. CASE NextId = 0
    <3>1. output' = Line("skipped", NewStat(f.of)) /\ UNCHANGED <<sending, stats>>
      BY <1>12, <2>2 DEF HandleName
    <3>2. IdsTracked' /\ Phase' /\ LinesMatch' /\ output' \in Seq(Lines)
      BY <1>1, <1>2, <1>5, <1>6, <2>1, <3>1, NameSkipped
    <3>3. Typed' /\ Ends'
      BY <1>1, <1>2, <1>6, <1>7, <2>1, <3>1, <3>2, TypedAfter
    <3> QED
      BY <3>2, <3>3 DEF FlsInv
  <2>3. CASE NextId # 0
    <3>1. PICK i \in 1 .. MaxId : i = NextId /\ i \notin DOMAIN stats
      BY <2>3, NextIdIs
    <3>2. PICK r : r = Request("stat", i, f.of) /\ sending' = <<r>>
      BY <1>12, <2>3, <3>1 DEF HandleName
    <3>3. Set(i, NewStat(f.of)) /\ UNCHANGED output
      BY <1>12, <2>3, <3>1 DEF HandleName
    <3>4. f.of \in Paths
      <4>1. Flow \in Seq(Frames)
        BY <1>1, FlowIs
      <4>2. f \in Frames
        BY <1>5, <4>1, TailIs
      <4> QED
        BY <4>2 DEF Frames
    <3>5. r \in Reqs
      <4>1. i \in 0 .. MaxId
        OBVIOUS
      <4> QED
        BY <3>2, <3>4, <4>1, RequestIs
    <3>6. sending' \in Seq(Reqs) /\ Len(sending') = 1
      BY <3>2, <3>5
    <3>7. Flow' = Tail(Flow) /\ Queue' = Queue \o <<r>>
      BY <1>4, <3>2, <3>6
    <3>8. /\ IdsTracked' /\ Phase' /\ LinesMatch'
          /\ stats' \in [DOMAIN stats' -> Stat] /\ DOMAIN stats' = DOMAIN stats \cup {i}
      BY <1>1, <1>2, <1>5, <2>1, <3>1, <3>2, <3>3, <3>7, NameGiven
    <3>9. ~ shut
      BY <1>1, <1>5, <2>1, ListComes DEF Listing
    <3>10. DOMAIN stats' \subseteq 0 .. MaxId
      BY <1>7, <3>8
    <3>11. Typed' /\ Ends'
      BY <1>1, <1>2, <1>7, <2>1, <3>3, <3>6, <3>8, <3>9, <3>10, TypedAfter
    <3> QED
      BY <3>8, <3>11 DEF FlsInv
  <2> QED
    BY <2>2, <2>3
<1>13. CASE HandleListed(f)
  <2>1. /\ UNCHANGED <<stats, output, sending, client>>
        /\ result' = (IF f.type = "error" THEN 1 ELSE result)
        /\ shut' = (shut \/ result' # 0 \/ stats = <<>>)
    BY <1>13 DEF HandleListed
  <2>2. IdsTracked' /\ Phase' /\ LinesMatch'
    BY <1>1, <1>2, <1>5, <1>6, <1>13, <2>1, ListedStep
  <2>3. Typed' /\ Ends'
    BY <1>1, <1>2, <1>6, <1>7, <2>1, TypedAfter
  <2> QED
    BY <2>2, <2>3 DEF FlsInv
<1>14. ~ HandleUnknown(f)
  <2>1. f.id \in DOMAIN stats => f.type # "dentry"
    BY <1>1, <1>5, HeadComes
  <2>2. f.id \notin DOMAIN stats => f.type \notin {"mode", "nlink", "size"}
    BY <1>1, <1>5, HeadComes
  <2> QED
    BY <2>1, <2>2 DEF HandleUnknown
<1> QED
  BY <1>3, <1>8, <1>9, <1>10, <1>11, <1>12, <1>13, <1>14

\* The session serves a request.
LEMMA ServeKeeps ==
  ASSUME FlsInv, Serve
  PROVE  FlsInv'
<1>1. Typed /\ Ends /\ IdsTracked /\ Phase /\ LinesMatch
  BY DEF FlsInv
<1>2. /\ server = "running" /\ reply = <<>> /\ requests # <<>> /\ requests' = Tail(requests)
      /\ UNCHANGED <<stats, result, output, sending, shut, client, pipe, server, files, dirs>>
  BY DEF Serve, flsVars, worldVars
<1>3. PICK r : r = Head(requests) /\ (ServeStat(r) \/ ServeList(r))
  BY DEF Serve
<1>4. Queue # <<>> /\ r = Queue[1] /\ requests' \in Seq(Reqs) /\ Len(requests') <= RequestCap
  <2>1. requests \in Seq(Reqs) /\ Len(requests) <= RequestCap
    BY <1>1 DEF Typed
  <2>2. Tail(requests) \in Seq(Reqs) /\ Len(Tail(requests)) = Len(requests) - 1 /\ Len(requests) \in Nat
    BY <1>2, <2>1, TailIs
  <2>3. Queue # <<>> /\ Head(requests) = Head(Queue)
    BY <1>1, <1>2, TailOfJoin DEF Queue, Typed
  <2>4. Queue \in Seq(Reqs) /\ Head(Queue) = Queue[1]
    BY <1>1, <2>3, FlowIs, TailIs
  <2> QED
    BY <1>2, <1>3, <2>1, <2>2, <2>3, <2>4, FlsAssumption
<1>5. ASSUME reply' \in Seq(Frames) PROVE Queue' = Tail(Queue) /\ Flow' = Flow \o reply'
  BY <1>1, <1>2, <1>5, QueueTaken
<1>6. CASE ServeStat(r)
  <2>1. r.type = "stat" /\ UNCHANGED listing
    BY <1>6 DEF ServeStat
  <2>2. PICK i \in DOMAIN stats : i = r.id /\ Asked(i) /\ r = Request("stat", i, stats[i].path)
    <3>1. r # Request("list", 0, Path)
      BY <2>1 DEF Request
    <3> QED
      BY <1>1, <1>4, <3>1, HeadAsked
  <2>3. i \in 0 .. MaxId /\ stats[i].path \in Paths /\ r.path = stats[i].path
    <3>1. i \in 0 .. MaxId /\ stats[i].path \in Paths
      BY <1>1 DEF Typed, Stat
    <3>2. r.path = stats[i].path
      BY <2>2 DEF Request
    <3> QED
      BY <3>1, <3>2
  <2>4. PICK s : s = reply' /\ s \in StatAnswers(i, stats[i].path)
    <3>1. reply' \in StatAnswers(r.id, r.path)
      BY <1>6 DEF ServeStat, StatAnswers
    <3> QED
      BY <2>2, <2>3, <3>1
  <2>5. s \in Seq(Frames)
    BY <2>3, <2>4, StatAnswersAre
  <2>6. Queue' = Tail(Queue) /\ Flow' = Flow \o s
    BY <1>5, <2>4, <2>5
  <2>7. Queue[1].id = i
    BY <1>4, <2>2
  <2>8. IdsTracked' /\ Phase' /\ LinesMatch'
    BY <1>1, <1>2, <1>4, <2>1, <2>2, <2>4, <2>6, <2>7, StatServed
  <2>9. Typed'
    BY <1>1, <1>2, <1>4, <2>1, <2>4, <2>5 DEF Typed
  <2>10. Ends'
    BY <1>1, <1>2 DEF Ends
  <2> QED
    BY <2>8, <2>9, <2>10 DEF FlsInv
<1>7. CASE ServeList(r)
  <2>1. r.type = "list"
    BY <1>7 DEF ServeList
  <2>2. ListAsked /\ r.id = 0
    <3>1. \A i : r # Request("stat", i, stats[i].path)
      BY <2>1 DEF Request
    <3>2. ListAsked /\ r = Request("list", 0, Path)
      BY <1>1, <1>4, <3>1, HeadAsked
    <3> QED
      BY <3>2 DEF Request
  <2>3. PICK l, s : l = listing' /\ s = reply'
    OBVIOUS
  <2>4. ListAnswer(l, s)
    <3>1. CASE listing' \in SetToSeqs(files \ {Path})
               /\ s = [k \in DOMAIN listing' |-> Frame("dentry", 0, listing'[k])] \o <<Frame("result", 0, Path)>>
      <4>1. /\ l \in SetToSeqs(files \ {Path})
            /\ s = [k \in DOMAIN l |-> Frame("dentry", 0, l[k])] \o <<Frame("result", 0, Path)>>
        BY <2>3, <3>1
      <4> QED
        BY <1>1, <4>1, ListAnswersAre, Zenon
    <3>2. CASE s = Failed(0) /\ UNCHANGED listing
      <4>1. l = <<>>
        BY <2>2, <2>3, <3>2 DEF ListAsked
      <4> QED
        BY <1>1, <3>2, <4>1, ListAnswersAre, Zenon
    <3> QED
      BY <1>7, <2>2, <2>3, <3>1, <3>2 DEF ServeList
  <2>5. s \in Seq(Frames) /\ l \in Seq(Names)
    BY <2>4 DEF ListAnswer
  <2>6. Queue' = Tail(Queue) /\ Flow' = Flow \o s
    BY <1>5, <2>3, <2>5
  <2>7. IdsTracked' /\ Phase' /\ LinesMatch'
    BY <1>1, <1>2, <2>2, <2>3, <2>4, <2>6, ListServed
  <2>8. Typed'
    BY <1>1, <1>2, <1>4, <2>3, <2>5 DEF Typed
  <2>9. Ends'
    BY <1>1, <1>2 DEF Ends
  <2> QED
    BY <2>7, <2>8, <2>9 DEF FlsInv
<1> QED
  BY <1>3, <1>6, <1>7

\* The steps that leave what is sent, and what is on its way, as it was.
LEMMA OthersKeep ==
  ASSUME FlsInv, WriteReply \/ ServerExits \/ Unlink \/ Send \/ Finish \/ UNCHANGED vars
  PROVE  FlsInv'
<1>1. Typed /\ Ends /\ IdsTracked /\ Phase /\ LinesMatch
  BY DEF FlsInv
<1>2. ASSUME Queue' = Queue, Flow' = Flow,
             UNCHANGED <<stats, result, shut, output, listing, dirs>>, sending = <<>> => sending' = <<>>
      PROVE  IdsTracked' /\ Phase' /\ LinesMatch'
  BY <1>1, <1>2, QuietStep
<1>3. CASE WriteReply
  <2>1. /\ reply # <<>> /\ Len(pipe) < ReplyCap /\ pipe' = Append(pipe, Head(reply)) /\ reply' = Tail(reply)
        /\ UNCHANGED <<stats, result, output, sending, shut, client, requests, server, listing, files, dirs>>
    BY <1>3 DEF WriteReply, flsVars, worldVars
  <2>2. Flow' = Flow /\ pipe' \in Seq(Frames) /\ reply' \in Seq(Frames) /\ Len(pipe') = Len(pipe) + 1
    BY <1>1, <2>1, ReplyMoves
  <2>3. Queue' = Queue
    BY <2>1 DEF Queue
  <2>4. Len(pipe') <= ReplyCap
    <3>1. Len(pipe) \in Nat
      BY <1>1, LenProperties DEF Typed
    <3> QED
      BY <2>1, <2>2, <3>1, FlsAssumption
  <2>5. IdsTracked' /\ Phase' /\ LinesMatch'
    BY <1>2, <2>1, <2>2, <2>3
  <2>6. Typed'
    BY <1>1, <2>1, <2>2, <2>4 DEF Typed
  <2>7. Ends'
    BY <1>1, <2>1 DEF Ends
  <2> QED
    BY <2>5, <2>6, <2>7 DEF FlsInv
<1>4. CASE ServerExits
  <2>1. /\ reply = <<>> /\ requests = <<>> /\ shut /\ server' = "exited"
        /\ UNCHANGED <<stats, result, output, sending, shut, client, requests, pipe, reply, listing, files, dirs>>
    BY <1>4 DEF ServerExits, flsVars, worldVars
  <2>2. Flow' = Flow /\ Queue' = Queue
    BY <2>1 DEF Flow, Queue
  <2>3. IdsTracked' /\ Phase' /\ LinesMatch'
    BY <1>2, <2>1, <2>2
  <2>4. Typed' /\ Ends'
    BY <1>1, <2>1 DEF Typed, Ends
  <2> QED
    BY <2>3, <2>4 DEF FlsInv
<1>5. CASE Unlink
  <2>1. /\ files' \subseteq files
        /\ UNCHANGED <<stats, result, output, sending, shut, client, requests, pipe, reply, server, listing, dirs>>
    BY <1>5 DEF Unlink, flsVars, serverVars
  <2>2. Flow' = Flow /\ Queue' = Queue
    BY <2>1 DEF Flow, Queue
  <2>3. IdsTracked' /\ Phase' /\ LinesMatch'
    BY <1>2, <2>1, <2>2
  <2>4. Typed' /\ Ends'
    BY <1>1, <2>1 DEF Typed, Ends
  <2> QED
    BY <2>3, <2>4 DEF FlsInv
<1>6. CASE Send
  <2>1. /\ client = "running" /\ sending # <<>>
        /\ UNCHANGED <<stats, result, output, shut, pipe, reply, server, listing, files, dirs>>
    BY <1>6 DEF Send, serverVars, worldVars
  <2>2. ~ shut
    BY <1>1, <2>1 DEF Ends
  <2>3. Len(requests) < RequestCap /\ requests' = requests \o sending /\ sending' = <<>> /\ client' = client
    BY <1>6, <2>2 DEF Send
  <2>4. Queue' = Queue /\ requests' \in Seq(Reqs) /\ Len(requests') = Len(requests) + Len(sending)
    BY <1>1, <2>3, RequestMoves
  <2>5. Flow' = Flow
    BY <2>1 DEF Flow
  <2>6. Len(requests') <= RequestCap
    <3>1. Len(requests) \in Nat /\ Len(sending) \in Nat /\ Len(sending) <= 1
      BY <1>1, LenProperties DEF Typed
    <3> QED
      BY <2>3, <2>4, <3>1, FlsAssumption
  <2>7. IdsTracked' /\ Phase' /\ LinesMatch'
    BY <1>2, <2>1, <2>3, <2>4, <2>5
  <2>8. sending' \in Seq(Reqs) /\ Len(sending') <= 1
    BY <2>3
  <2>9. Typed'
    BY <1>1, <2>1, <2>4, <2>6, <2>8 DEF Typed
  <2>10. Ends'
    BY <1>1, <2>1, <2>2, <2>3 DEF Ends
  <2> QED
    BY <2>7, <2>9, <2>10 DEF FlsInv
<1>7. CASE Finish
  <2>1. /\ pipe = <<>> /\ server = "exited" /\ client' = "done"
        /\ UNCHANGED <<stats, result, output, sending, shut, requests, pipe, reply, server, listing, files, dirs>>
    BY <1>7 DEF Finish, serverVars, worldVars
  <2>2. Flow' = Flow /\ Queue' = Queue
    BY <2>1 DEF Flow, Queue
  <2>3. IdsTracked' /\ Phase' /\ LinesMatch'
    BY <1>2, <2>1, <2>2
  <2>4. Typed' /\ Ends'
    BY <1>1, <2>1 DEF Typed, Ends
  <2> QED
    BY <2>3, <2>4 DEF FlsInv
<1>8. CASE UNCHANGED vars
  <2>1. UNCHANGED <<stats, result, output, sending, shut, client, requests, pipe, reply, server, listing, files, dirs>>
    BY <1>8 DEF vars, flsVars, serverVars, worldVars
  <2>2. Flow' = Flow /\ Queue' = Queue
    BY <2>1 DEF Flow, Queue
  <2>3. IdsTracked' /\ Phase' /\ LinesMatch'
    BY <1>2, <2>1, <2>2
  <2>4. Typed' /\ Ends'
    BY <1>1, <2>1 DEF Typed, Ends
  <2> QED
    BY <2>3, <2>4 DEF FlsInv
<1> QED
  BY <1>3, <1>4, <1>5, <1>6, <1>7, <1>8

LEMMA InvHolds == Spec => []FlsInv
<1>1. ASSUME Init PROVE FlsInv
  <2>1. PICK r \in Reqs : r = Request("stat", 0, Path) /\ r.id = 0
    <3>1. 0 \in 0 .. MaxId /\ Path \in Paths
      BY FlsAssumption DEF Paths
    <3> QED
      BY <3>1, RequestIs
  <2>2. NewStat(Path) \in Stat /\ NewStat(Path).path = Path
    BY DEF NewStat, Stat, Paths
  <2>3. /\ DOMAIN stats = {0} /\ stats[0] = NewStat(Path)
        /\ result = 0 /\ output = <<>> /\ shut = FALSE /\ client = "running"
        /\ sending = <<r>> /\ requests = <<>> /\ pipe = <<>>
        /\ reply = <<>> /\ server = "running" /\ listing = <<>>
        /\ files \in {S \cup {Path} : S \in SUBSET Names}
    BY <1>1, <2>1 DEF Init
  <2>4. files \subseteq Paths
    BY <2>3 DEF Paths
  <2>5. stats \in [DOMAIN stats -> Stat]
    BY <1>1, <2>2 DEF Init
  <2>6. sending \in Seq(Reqs) /\ Len(sending) = 1 /\ sending[1] = r
    BY <2>1, <2>3
  <2>7. Typed
    <3>1. DOMAIN stats \subseteq 0 .. MaxId
      BY <2>3, FlsAssumption
    <3>2. output \in Seq(Lines) /\ requests \in Seq(Reqs) /\ pipe \in Seq(Frames) /\ reply \in Seq(Frames)
          /\ listing \in Seq(Names) /\ Len(requests) = 0 /\ Len(pipe) = 0
      BY <2>3, EmptySeq
    <3> QED
      BY <2>3, <2>4, <2>5, <2>6, <3>1, <3>2, FlsAssumption DEF Typed
  <2>8. Flow = <<>> /\ Queue = sending
    BY <2>3, <2>6, ConcatEmptySeq DEF Flow, Queue
  <2>9. \A k \in 1 .. Len(Queue) : k = 1 /\ Queue[k] = r
    <3>1. Len(Queue) = 1 /\ Queue[1] = r
      BY <2>6, <2>8
    <3> QED
      BY <3>1
  <2>10. \A i : NoneIn(Flow, i)
    BY <2>8 DEF NoneIn
  <2>11. Tracked(0)
    <3>1. Fresh(0) /\ stats[0].path = Path
      BY <2>2, <2>3 DEF Fresh
    <3>2. OnlyIn(Queue, 0, r)
      BY <2>6, <2>8, <2>9 DEF OnlyIn
    <3> QED
      BY <2>1, <2>10, <3>1, <3>2 DEF Tracked, Asked
  <2>12. IdsTracked
    <3>1. \A i \in 1 .. MaxId : NoneIn(Queue, i)
      BY <2>1, <2>9 DEF NoneIn
    <3> QED
      BY <2>3, <2>10, <2>11, <3>1 DEF IdsTracked
  <2>13. Phase
    BY <2>2, <2>3 DEF Phase, Root
  <2>14. LinesMatch /\ Ends
    BY <2>3 DEF LinesMatch, Ends
  <2> QED
    BY <2>7, <2>12, <2>13, <2>14 DEF FlsInv
<1>2. ASSUME FlsInv, [Next]_vars PROVE FlsInv'
  <2>1. CASE Handle
    BY <1>2, <2>1, HandleKeeps
  <2>2. CASE Serve
    BY <1>2, <2>2, ServeKeeps
  <2>3. CASE WriteReply \/ ServerExits \/ Unlink \/ Send \/ Finish \/ UNCHANGED vars
    BY <1>2, <2>3, OthersKeep
  <2> QED
    BY <1>2, <2>1, <2>2, <2>3 DEF Next, Server, Client, Done
<1> QED
  BY <1>1, <1>2, PTL DEF Spec

----------------------------------------------------------------------------
(* What fls promises.                                                      *)

LEMMA DoneAccounts ==
  ASSUME FlsInv, client = "done"
  PROVE  /\ \A p \in IF Path \in dirs THEN Range(listing) ELSE {Path} :
              Cardinality(StatsOf(p)) + Cardinality(LinesOf(p)) = 1
         /\ result = 0 => stats = <<>>
<1>1. Typed /\ Ends /\ IdsTracked /\ Phase
  BY DEF FlsInv
<1>2. Queue = <<>> /\ Flow = <<>> /\ Len(Queue) = 0 /\ Len(Flow) = 0
  <2>1. pipe = <<>> /\ reply = <<>> /\ requests = <<>> /\ sending = <<>>
    BY <1>1 DEF Ends
  <2>2. Queue = <<>> /\ Flow = <<>>
    BY <1>1, <2>1, FlowIs
  <2> QED
    BY <2>2
<1>3. \A i \in DOMAIN stats : HasFailed(i)
  <2>1. \A i, x, p : ~ OnlyIn(Flow, i, x) /\ ~ OnlyIn(Queue, i, x) /\ ~ AnswerIn(Flow, i, p)
    BY <1>2 DEF OnlyIn, AnswerIn
  <2> QED
    BY <1>1, <2>1 DEF IdsTracked, Tracked, Asked, Failing, Answering
<1>4. result = 0 => stats = <<>>
  <2>1. ASSUME result = 0 PROVE DOMAIN stats = {}
    <3>1. ASSUME NEW i \in DOMAIN stats PROVE FALSE
      <4>1. result = 1
        BY <1>3, <3>1 DEF HasFailed
      <4> QED
        BY <2>1, <4>1
    <3> QED
      BY <3>1
  <2>2. ASSUME DOMAIN stats = {} PROVE stats = <<>>
    <3>1. stats \in [{} -> Stat]
      BY <1>1, <2>2 DEF Typed
    <3>2. stats \in Seq(Stat) /\ Len(stats) = 0
      BY <3>1
    <3> QED
      BY <3>2, EmptySeq
  <2> QED
    BY <2>1, <2>2
<1>5. \A x : Cardinality({x}) = 1 /\ Cardinality({}) = 0
  BY FS_EmptySet, FS_Singleton
<1>6. ASSUME NEW p, NEW i \in DOMAIN stats, StatsOf(p) = {i}, LinesOf(p) = {}
      PROVE  Cardinality(StatsOf(p)) + Cardinality(LinesOf(p)) = 1
  <2>1. Cardinality(StatsOf(p)) = 1 /\ Cardinality(LinesOf(p)) = 0
    BY <1>5, <1>6
  <2> QED
    BY <2>1
<1>7. ASSUME NEW p, NEW j, StatsOf(p) = {}, LinesOf(p) = {j}
      PROVE  Cardinality(StatsOf(p)) + Cardinality(LinesOf(p)) = 1
  <2>1. Cardinality(StatsOf(p)) = 0 /\ Cardinality(LinesOf(p)) = 1
    BY <1>5, <1>7
  <2> QED
    BY <2>1
<1>8. DOMAIN output = 1 .. Len(output) /\ DOMAIN listing = 1 .. Len(listing)
  BY <1>1, FlowIs
<1>9. CASE Root
  <2>1. StatsOf(Path) = {0} /\ LinesOf(Path) = {} /\ 0 \in DOMAIN stats
    <3>1. Len(output) = 0
      BY <1>9 DEF Root
    <3> QED
      BY <1>8, <1>9, <3>1 DEF Root, StatsOf, LinesOf
  <2>2. Range(listing) = {}
    <3>1. Len(listing) = 0
      BY <1>9 DEF Root
    <3> QED
      BY <1>8, <3>1 DEF Range
  <2> QED
    BY <1>4, <1>6, <2>1, <2>2
<1>10. CASE RootShown
  <2>1. StatsOf(Path) = {} /\ LinesOf(Path) = {1} /\ Path \notin dirs
    <3>1. DOMAIN output = {1}
      BY <1>8, <1>10 DEF RootShown
    <3> QED
      BY <1>10, <3>1 DEF RootShown, StatsOf, LinesOf
  <2> QED
    BY <1>4, <1>7, <2>1
<1>11. ~ ListAsked
  BY <1>2 DEF ListAsked
<1>12. ~ Listing
  <2>1. ASSUME NEW n, NEW d, n \in Nat, d \in Nat, Pending(n, d) PROVE FALSE
    <3>1. d + 1 <= 0
      BY <1>2, <2>1 DEF Pending
    <3> QED
      BY <2>1, <3>1
  <2> QED
    BY <1>1, <2>1, FlowIs DEF Listing
<1>13. CASE Listed
  <2>1. Path \in dirs /\ Once /\ Named(Len(listing))
    BY <1>13 DEF Listed
  <2>2. ASSUME NEW p \in Range(listing) PROVE Cardinality(StatsOf(p)) + Cardinality(LinesOf(p)) = 1
    <3>1. PICK k \in 1 .. Len(listing) : p = listing[k]
      BY <1>8 DEF Range
    <3>2. \/ \E i \in DOMAIN stats : stats[i].path = p
          \/ \E j \in 1 .. Len(output) : output[j].st.path = p
      BY <2>1, <3>1 DEF Named
    <3>3. CASE \E i \in DOMAIN stats : stats[i].path = p
      <4>1. PICK i \in DOMAIN stats : stats[i].path = p
        BY <3>3
      <4>2. StatsOf(p) = {i}
        BY <2>1, <4>1 DEF StatsOf, Once
      <4>3. LinesOf(p) = {}
        BY <1>8, <2>1, <4>1 DEF LinesOf, Once
      <4> QED
        BY <1>6, <4>2, <4>3
    <3>4. CASE \E j \in 1 .. Len(output) : output[j].st.path = p
      <4>1. PICK j \in 1 .. Len(output) : output[j].st.path = p
        BY <3>4
      <4>2. LinesOf(p) = {j}
        BY <1>8, <2>1, <4>1 DEF LinesOf, Once
      <4>3. StatsOf(p) = {}
        BY <2>1, <4>1 DEF StatsOf, Once
      <4> QED
        BY <1>7, <4>2, <4>3
    <3> QED
      BY <3>2, <3>3, <3>4
  <2> QED
    BY <1>4, <2>1, <2>2
<1> QED
  BY <1>1, <1>9, <1>10, <1>11, <1>12, <1>13 DEF Phase

\* The ids in use are among the 255 there are, and nothing outgrows its pipe:
\* fls hands out an id only when one is free, and waits when a pipe is full.
THEOREM FlsIdsBounded == Spec => []TypeOK
<1>1. ASSUME FlsInv PROVE TypeOK
  <2>1. Typed /\ Ends
    BY <1>1 DEF FlsInv
  <2>2. \A i \in DOMAIN stats : stats[i].path \in Paths
    BY <2>1 DEF Typed, Stat
  <2> QED
    BY <2>1, <2>2 DEF TypeOK, Typed, Ends
<1> QED
  BY <1>1, InvHolds, PTL

\* However requests, names and answers pass each other in the two pipes, an
\* entry gets its own attributes, and a line shows them, all that there are.
THEOREM AttributesAreTheirs == Spec => []AttributesMatch
<1>1. ASSUME FlsInv PROVE AttributesMatch
  <2>1. IdsTracked /\ LinesMatch /\ Typed
    BY <1>1 DEF FlsInv
  <2>2. ASSUME NEW i \in DOMAIN stats PROVE {stats[i].mode, stats[i].size} \subseteq {stats[i].path, Default}
    <3>1. Fresh(i) \/ Answering(i)
      BY <2>1 DEF IdsTracked, Tracked, Asked, Failing, HasFailed
    <3>2. CASE Fresh(i)
      <4>1. stats[i].mode = Default /\ stats[i].size = Default
        BY <3>2 DEF Fresh, NewStat
      <4> QED
        BY <4>1
    <3>3. CASE Answering(i)
      BY <3>3 DEF Answering
    <3> QED
      BY <3>1, <3>2, <3>3
  <2>3. DOMAIN output = 1 .. Len(output)
    BY <2>1, FlowIs
  <2> QED
    BY <2>1, <2>2, <2>3 DEF AttributesMatch, LinesMatch
<1> QED
  BY <1>1, InvHolds, PTL

\* fls never meets a frame it aborts on and never writes after it has shut
\* down; and when it ends, every entry was printed or skipped once, or has
\* failed, which the exit status tells.
THEOREM EntriesAllAccounted == Spec => []EntriesAccounted
<1>1. ASSUME FlsInv PROVE EntriesAccounted
  BY <1>1, DoneAccounts DEF EntriesAccounted, FlsInv, Ends
<1> QED
  BY <1>1, InvHolds, PTL
=============================================================================
