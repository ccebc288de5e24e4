------------------------- MODULE ReplicantSyncProofs -------------------------
(***************************************************************************)
(* Proofs about ReplicantSync, for any pages and any number of operations  *)
(* and lost connections, when packets are handed out one per turn.         *)
(*                                                                         *)
(* The server's values are kept in a log, by revision, that only the proof *)
(* knows: every message and every declared page is at some revision of it, *)
(* and the messages on their way to a page lead from the page's revision   *)
(* to the server's, one by one.                                            *)
(***************************************************************************)
EXTENDS Replicants, SequenceTheorems, TLAPS

\* Persistence by itself, whose value is a number
CONSTANT MaxChanges

VARIABLE current

Save == INSTANCE Persistence WITH value <- current

Value == Seq(Nat)

Request ==
  {Join, Declare} \cup [type : {"propose"}, operations : Value, revision : Nat]

Answer ==
  {Joined} \cup [type : {"declared", "ack"}, value : Value, revision : Nat]
           \cup [type : {"operations"}, operations : Value, revision : Nat]

Typed ==
  /\ sValue \in Value /\ sRev \in Nat /\ sQueue \in Value
  /\ turn = NoTurn
  /\ room \subseteq connected /\ connected \subseteq Clients
  /\ status \in [Clients -> {"undeclared", "declaring", "declared"}]
  /\ cValue \in [Clients -> Value] /\ cRev \in [Clients -> Nat]
  /\ cQueue \in [Clients -> Value]
  /\ toServer \in [Clients -> Seq(Request)] /\ toClient \in [Clients -> Seq(Answer)]
  /\ pendingFlush \in [Clients -> BOOLEAN]
  /\ flushTimer \in [Clients -> BOOLEAN] /\ flushQueued \in [Clients -> BOOLEAN]
  /\ ops \in Nat /\ drops \in Nat

-----------------------------------------------------------------------------
(* Where a page is in joining the room *)

Has(box, type) == \E i \in DOMAIN box : box[i].type = type

Once(box, type) ==
  \A i, j \in DOMAIN box : box[i].type = type /\ box[j].type = type => i = j

\* of a page c, with the pages of R in the room and those of L connected
Place(c, R, L, st, requests, answers) ==
  /\ c \notin L => /\ c \notin R /\ answers = <<>> /\ st = "undeclared"
                   /\ ~Has(requests, "join") /\ ~Has(requests, "declare")
  /\ Once(requests, "join") /\ Once(answers, "joined")
  /\ Has(requests, "join") => c \notin R
  /\ Has(answers, "joined") => c \in R
  /\ Has(requests, "declare") \/ Has(answers, "declared") \/ st = "declared"
       => c \in R /\ ~Has(answers, "joined")

-----------------------------------------------------------------------------
(* Revisions on their way *)

Leads(rev, m) == m.revision = IF m.type = "operations" THEN rev + 1 ELSE rev

NoOperations(box, i, j) == \A k \in i..j : box[k].type # "operations"

\* What came after the page had joined leads from one revision to the next, the
\* last of which is rev.
Follows(box, rev) ==
  \A i \in 1..Len(box) : ~(\E k \in i..Len(box) : box[k].type = "joined") =>
    /\ NoOperations(box, i + 1, Len(box)) => box[i].revision = rev
    /\ \A j \in i+1..Len(box) : NoOperations(box, i + 1, j - 1) => Leads(box[i].revision, box[j])

\* And leads there from the page's own revision.
Starts(box, own, rev) ==
  /\ NoOperations(box, 1, Len(box)) => own = rev
  /\ \A j \in 1..Len(box) : NoOperations(box, 1, j - 1) => Leads(own, box[j])

-----------------------------------------------------------------------------
(* The log *)

Begins(s, t) == Len(s) <= Len(t) /\ \A i \in 1..Len(s) : s[i] = t[i]

Log(h, rev) ==
  /\ h \in [0..rev -> Value]
  /\ \A p, q \in 0..rev : p <= q => Begins(h[p], h[q])

\* The message agrees with the log.
Kept(h, rev, m) ==
  /\ m.type \in {"declared", "ack"} => m.revision \in 0..rev /\ m.value = h[m.revision]
  /\ m.type = "operations" =>
       m.revision \in 1..rev /\ h[m.revision] = h[m.revision - 1] \o m.operations

\* All that is kept of a page, given the log h up to rev.
Good(h, rev, c, R, L, st, value, own, requests, answers) ==
  /\ Place(c, R, L, st, requests, answers)
  /\ c \in R => /\ Follows(answers, rev)
                /\ st = "declared" => Starts(answers, own, rev)
  /\ \A i \in 1..Len(answers) : Kept(h, rev, answers[i])
  /\ st = "declared" => own \in 0..rev /\ value = h[own]

GoodPage(h, c) ==
  Good(h, sRev, c, room, connected, status[c], cValue[c], cRev[c], toServer[c], toClient[c])

Logged(h) ==
  /\ Log(h, sRev) /\ sValue = h[sRev] \o sQueue
  /\ \A c \in Clients : GoodPage(h, c)

IInv == Typed /\ \E h : Logged(h)

-----------------------------------------------------------------------------
(* Boxes of messages *)

LEMMA AppendBox ==
  ASSUME NEW S, NEW box \in Seq(S), NEW m \in S
  PROVE  LET b == Append(box, m) IN
         /\ b \in Seq(S) /\ Len(b) = Len(box) + 1 /\ b[Len(b)] = m
         /\ \A i \in 1..Len(box) : b[i] = box[i]
         /\ DOMAIN b = 1..Len(b) /\ DOMAIN box = 1..Len(box) /\ Len(box) \in Nat
BY AppendProperties, LenProperties

LEMMA TailBox ==
  ASSUME NEW S, NEW box \in Seq(S), box # <<>>
  PROVE  LET b == Tail(box) IN
         /\ b \in Seq(S) /\ Len(b) = Len(box) - 1 /\ Head(box) = box[1] /\ Head(box) \in S
         /\ \A i \in 1..Len(b) : b[i] = box[i + 1]
         /\ DOMAIN b = 1..Len(b) /\ DOMAIN box = 1..Len(box) /\ Len(box) \in Nat \ {0}
BY HeadTailProperties, LenProperties, EmptySeq

LEMMA HasAppend ==
  ASSUME NEW S, NEW box \in Seq(S), NEW m \in S, NEW type
  PROVE  /\ Has(Append(box, m), type) <=> Has(box, type) \/ m.type = type
         /\ Once(box, type) /\ (m.type = type => ~Has(box, type)) => Once(Append(box, m), type)
BY AppendBox DEF Has, Once

LEMMA HasTail ==
  ASSUME NEW S, NEW box \in Seq(S), box # <<>>, NEW type
  PROVE  /\ Has(Tail(box), type) => Has(box, type)
         /\ Head(box).type = type => Has(box, type)
         /\ Once(box, type) => Once(Tail(box), type)
         /\ Once(box, type) /\ Head(box).type = type => ~Has(Tail(box), type)
<1>1. \A i \in DOMAIN Tail(box) : i + 1 \in DOMAIN box /\ Tail(box)[i] = box[i + 1] /\ i + 1 # 1 /\ i \in Nat
  BY TailBox
<1>2. 1 \in DOMAIN box /\ Head(box) = box[1]
  BY TailBox
<1> QED  BY <1>1, <1>2 DEF Has, Once

LEMMA HasNone == ASSUME NEW type PROVE ~Has(<<>>, type) /\ Once(<<>>, type)
BY DEF Has, Once

LEMMA FollowsAppend ==
  ASSUME NEW box \in Seq(Answer), NEW rev \in Nat, NEW m \in Answer,
         Follows(box, rev), Leads(rev, m)
  PROVE  Follows(Append(box, m), m.revision)
<1> DEFINE b == Append(box, m)
<1>1. /\ Len(b) = Len(box) + 1 /\ b[Len(b)] = m /\ Len(box) \in Nat
      /\ \A i \in 1..Len(box) : b[i] = box[i]
  BY AppendBox
<1> HIDE DEF b
<1>2. SUFFICES ASSUME NEW i \in 1..Len(b), ~(\E k \in i..Len(b) : b[k].type = "joined")
               PROVE  /\ NoOperations(b, i + 1, Len(b)) => b[i].revision = m.revision
                      /\ \A j \in i+1..Len(b) : NoOperations(b, i + 1, j - 1) => Leads(b[i].revision, b[j])
  BY DEF Follows, b
<1>3. CASE i = Len(b)
  BY <1>1, <1>3
<1>4. CASE i # Len(b)
  <2>1. i \in 1..Len(box) /\ ~(\E k \in i..Len(box) : box[k].type = "joined") /\ b[i] = box[i]
    BY <1>1, <1>2, <1>4
  <2>2. NoOperations(b, i + 1, Len(box)) => NoOperations(box, i + 1, Len(box))
    BY <1>1, <2>1 DEF NoOperations
  <2>3. NoOperations(b, i + 1, Len(box)) => box[i].revision = rev
    BY <2>1, <2>2 DEF Follows
  <2>4. ASSUME NEW j \in i+1..Len(b), NoOperations(b, i + 1, j - 1)
        PROVE  Leads(b[i].revision, b[j])
    <3>1. CASE j = Len(b)
      BY <1>1, <2>1, <2>3, <2>4, <3>1
    <3>2. CASE j # Len(b)
      <4>1. i \in 1..Len(box) /\ j \in i+1..Len(box) /\ b[j] = box[j]
        BY <1>1, <2>1, <3>2
      <4>2. \A k \in i+1..j-1 : box[k] = b[k]
        BY <1>1, <4>1
      <4>3. NoOperations(box, i + 1, j - 1)
        BY <2>4, <4>2 DEF NoOperations
      <4> QED  BY <2>1, <4>1, <4>3 DEF Follows
    <3> QED  BY <3>1, <3>2
  <2>5. ASSUME NoOperations(b, i + 1, Len(b))
        PROVE  b[i].revision = m.revision
    <3>1. NoOperations(b, i + 1, Len(box)) /\ m.type # "operations"
      BY <1>1, <2>1, <2>5 DEF NoOperations
    <3> QED  BY <2>1, <2>3, <3>1 DEF Leads
  <2> QED  BY <2>4, <2>5
<1> QED  BY <1>3, <1>4

LEMMA FollowsJoined ==
  ASSUME NEW box \in Seq(Answer), NEW rev
  PROVE  Follows(Append(box, Joined), rev)
<1>1. Joined \in Answer /\ Joined.type = "joined"
  BY DEF Answer, Joined
<1> QED  BY <1>1, AppendBox DEF Follows

LEMMA FollowsTail ==
  ASSUME NEW box \in Seq(Answer), NEW rev \in Nat, box # <<>>, Follows(box, rev)
  PROVE  /\ Follows(Tail(box), rev)
         /\ ~Has(box, "joined") => Starts(Tail(box), Head(box).revision, rev)
<1> DEFINE b == Tail(box)
<1>1. /\ Len(box) \in Nat \ {0} /\ Len(b) = Len(box) - 1 /\ Head(box) = box[1]
      /\ DOMAIN box = 1..Len(box)
      /\ \A i \in 1..Len(b) : b[i] = box[i + 1]
  BY TailBox
<1> HIDE DEF b
<1>2. ASSUME NEW i \in Nat, NEW j \in Int, j <= Len(b), NoOperations(b, i + 1, j)
      PROVE  NoOperations(box, i + 2, j + 1)
  <2>1. ASSUME NEW k \in i + 2..j + 1 PROVE box[k].type # "operations"
    <3>1. k - 1 \in i + 1..j /\ k - 1 \in 1..Len(b) /\ b[k - 1] = box[k]
      BY <1>1, <1>2
    <3> QED  BY <1>2, <3>1 DEF NoOperations
  <2> QED  BY <2>1 DEF NoOperations
<1>3. ASSUME NEW i \in 1..Len(b), ~(\E k \in i..Len(b) : b[k].type = "joined")
      PROVE  /\ NoOperations(b, i + 1, Len(b)) => b[i].revision = rev
             /\ \A j \in i+1..Len(b) : NoOperations(b, i + 1, j - 1) => Leads(b[i].revision, b[j])
  <2>1. i + 1 \in 1..Len(box) /\ b[i] = box[i + 1]
    BY <1>1
  <2>2. ~(\E k \in i+1..Len(box) : box[k].type = "joined")
    <3>1. ASSUME NEW k \in i+1..Len(box) PROVE k - 1 \in i..Len(b) /\ b[k - 1] = box[k]
      BY <1>1
    <3> QED  BY <1>3, <3>1
  <2>3. NoOperations(b, i + 1, Len(b)) => NoOperations(box, (i + 1) + 1, Len(box))
    BY <1>1, <1>2
  <2>4. ASSUME NEW j \in i+1..Len(b), NoOperations(b, i + 1, j - 1)
        PROVE  Leads(b[i].revision, b[j])
    <3>1. NoOperations(box, (i + 1) + 1, (j + 1) - 1)
      <4>1. NoOperations(box, i + 2, (j - 1) + 1)
        BY <1>2, <2>4, <1>1
      <4>2. (j - 1) + 1 = (j + 1) - 1 /\ i + 2 = (i + 1) + 1
        BY <1>1
      <4> QED  BY <4>1, <4>2
    <3>2. j + 1 \in (i + 1) + 1..Len(box) /\ b[j] = box[j + 1]
      BY <1>1
    <3> QED  BY <2>1, <2>2, <3>1, <3>2 DEF Follows
  <2> QED  BY <2>1, <2>2, <2>3, <2>4 DEF Follows
<1>4. ASSUME ~Has(box, "joined") PROVE Starts(b, Head(box).revision, rev)
  <2>1. 1 \in 1..Len(box) /\ ~(\E k \in 1..Len(box) : box[k].type = "joined")
    BY <1>1, <1>4 DEF Has
  <2>2. NoOperations(b, 1, Len(b)) => NoOperations(box, 1 + 1, Len(box))
    <3>1. NoOperations(b, 0 + 1, Len(b)) => NoOperations(box, 0 + 2, Len(b) + 1)
      <4>1. Len(b) \in Int /\ 0 \in Nat /\ Len(b) <= Len(b)
        BY <1>1
      <4> QED  BY <1>2, <4>1, Zenon
    <3>2. 0 + 1 = 1 /\ 0 + 2 = 1 + 1 /\ Len(b) + 1 = Len(box)
      BY <1>1
    <3> QED  BY <3>1, <3>2
  <2>3. ASSUME NEW j \in 1..Len(b), NoOperations(b, 1, j - 1)
        PROVE  Leads(Head(box).revision, b[j])
    <3>1. NoOperations(box, 1 + 1, (j + 1) - 1)
      <4>1. NoOperations(box, 0 + 2, (j - 1) + 1)
        BY <1>2, <2>3, <1>1
      <4>2. (j - 1) + 1 = (j + 1) - 1
        BY <1>1
      <4> QED  BY <4>1, <4>2
    <3>2. j + 1 \in 1 + 1..Len(box) /\ b[j] = box[j + 1]
      BY <1>1
    <3> QED  BY <1>1, <2>1, <3>1, <3>2 DEF Follows
  <2> QED  BY <1>1, <2>1, <2>2, <2>3 DEF Follows, Starts
<1> QED  BY <1>3, <1>4 DEF Follows, b

LEMMA StartsAppend ==
  ASSUME NEW box \in Seq(Answer), NEW own \in Nat, NEW rev \in Nat, NEW m \in Answer,
         Starts(box, own, rev), Leads(rev, m)
  PROVE  Starts(Append(box, m), own, m.revision)
<1> DEFINE b == Append(box, m)
<1>1. /\ Len(b) = Len(box) + 1 /\ b[Len(b)] = m /\ Len(box) \in Nat
      /\ \A i \in 1..Len(box) : b[i] = box[i]
  BY AppendBox
<1> HIDE DEF b
<1>2. NoOperations(b, 1, Len(box)) => NoOperations(box, 1, Len(box)) /\ own = rev
  BY <1>1 DEF NoOperations, Starts
<1>3. ASSUME NoOperations(b, 1, Len(b)) PROVE own = m.revision
  <2>1. NoOperations(b, 1, Len(box)) /\ m.type # "operations"
    BY <1>1, <1>3 DEF NoOperations
  <2> QED  BY <1>2, <2>1 DEF Leads
<1>4. ASSUME NEW j \in 1..Len(b), NoOperations(b, 1, j - 1) PROVE Leads(own, b[j])
  <2>1. CASE j = Len(b)
    BY <1>1, <1>2, <1>4, <2>1
  <2>2. CASE j # Len(b)
    <3>1. j \in 1..Len(box) /\ b[j] = box[j] /\ NoOperations(box, 1, j - 1)
      BY <1>1, <1>4, <2>2 DEF NoOperations
    <3> QED  BY <3>1 DEF Starts
  <2> QED  BY <2>1, <2>2
<1> QED  BY <1>3, <1>4 DEF Starts, b

-----------------------------------------------------------------------------
(* The log and its messages *)

LEMMA RequestKinds ==
  /\ Join \in Request /\ Join.type = "join" /\ Declare \in Request /\ Declare.type = "declare"
  /\ \A m \in Request : /\ m.type \in {"join", "declare", "propose"}
                        /\ m.type = "propose" => m.operations \in Value /\ m.revision \in Nat
  /\ \A q \in Value, r \in Nat : Propose(q, r) \in Request /\ Propose(q, r).type = "propose"
BY DEF Request, Join, Declare, Propose

LEMMA AnswerKinds ==
  /\ Joined \in Answer /\ Joined.type = "joined"
  /\ \A m \in Answer :
       /\ m.type \in {"joined", "declared", "ack", "operations"}
       /\ m.type \in {"declared", "ack"} => m.value \in Value /\ m.revision \in Nat
       /\ m.type = "operations" => m.operations \in Value /\ m.revision \in Nat
  /\ \A v \in Value, r \in Nat, t \in {"declared", "ack"} :
       /\ HeadRevision(t, v, r) \in Answer /\ HeadRevision(t, v, r).type = t
       /\ HeadRevision(t, v, r).value = v /\ HeadRevision(t, v, r).revision = r
  /\ \A q \in Value, r \in Nat :
       /\ Operations(q, r) \in Answer /\ Operations(q, r).type = "operations"
       /\ Operations(q, r).operations = q /\ Operations(q, r).revision = r
BY DEF Answer, Joined, HeadRevision, Operations

LEMMA BeginsIsPrefix ==
  ASSUME NEW s \in Value, NEW t \in Value, Begins(s, t)
  PROVE  IsPrefix(s, t)
<1>1. Len(s) \in Nat /\ Len(t) \in Nat /\ Len(s) <= Len(t)
  BY LenProperties DEF Begins, Value
<1>2. SubSeq(s, 1, Len(s)) = s
  BY SubSeqFull DEF Value
<1>3. \A i \in 1..Len(s) : t[i] \in Nat
  BY <1>1, ElementOfSeq DEF Value
<1> DEFINE u == SubSeq(t, 1, Len(s))
<1>4. /\ u \in Seq(Nat) /\ Len(u) = IF 1 <= Len(s) THEN Len(s) - 1 + 1 ELSE 0
      /\ \A i \in 1..Len(s) - 1 + 1 : u[i] = t[1 + i - 1]
  BY <1>1, <1>3, SubSeqProperties
<1> HIDE DEF u
<1>5. Len(u) = Len(s) /\ \A i \in 1..Len(s) : u[i] = s[i]
  BY <1>1, <1>4 DEF Begins
<1>6. u = s
  BY <1>1, <1>4, <1>5, SeqEqual DEF Value
<1> QED  BY <1>1, <1>2, <1>6 DEF IsPrefix, u

Extended(h, rev, q) == [r \in 0..rev + 1 |-> IF r <= rev THEN h[r] ELSE h[rev] \o q]

LEMMA LogExtends ==
  ASSUME NEW h, NEW rev \in Nat, Log(h, rev), NEW q \in Value
  PROVE  LET g == Extended(h, rev, q) IN
         /\ Log(g, rev + 1) /\ g[rev + 1] = h[rev] \o q
         /\ \A r \in 0..rev : g[r] = h[r]
<1> DEFINE g == Extended(h, rev, q)
<1>1. h[rev] \in Value
  BY DEF Log
<1>2. /\ h[rev] \o q \in Value /\ Len(h[rev] \o q) = Len(h[rev]) + Len(q)
      /\ \A i \in 1..Len(h[rev]) + Len(q) :
           (h[rev] \o q)[i] = IF i <= Len(h[rev]) THEN h[rev][i] ELSE q[i - Len(h[rev])]
      /\ Len(h[rev]) \in Nat /\ Len(q) \in Nat
  BY <1>1, ConcatProperties, LenProperties DEF Value
<1>3. Begins(h[rev], h[rev] \o q)
  BY <1>2 DEF Begins
<1>4. g[rev + 1] = h[rev] \o q /\ \A r \in 0..rev : g[r] = h[r]
  BY DEF Extended
<1>5. g \in [0..rev + 1 -> Value]
  BY <1>2 DEF Extended, Log
<1>6. ASSUME NEW a \in 0..rev + 1, NEW b \in 0..rev + 1, a <= b
      PROVE  Begins(g[a], g[b])
  <2>1. CASE b <= rev
    BY <1>4, <1>6, <2>1 DEF Log
  <2>2. CASE b = rev + 1 /\ a = rev + 1
    <3>1. Len(g[a]) \in Nat
      BY <1>5, LenProperties DEF Value
    <3> QED  BY <2>2, <3>1 DEF Begins
  <2>3. CASE b = rev + 1 /\ a <= rev
    <3>1. Begins(h[a], h[rev]) /\ h[a] \in Value
      BY <2>3 DEF Log
    <3>2. Len(h[a]) \in Nat
      BY <3>1, LenProperties DEF Value
    <3>3. Begins(h[a], h[rev] \o q)
      BY <1>2, <1>3, <3>1, <3>2 DEF Begins
    <3>4. g[a] = h[a]
      <4>1. a \in 0..rev
        BY <2>3
      <4> QED  BY <1>4, <4>1
    <3>5. g[b] = h[rev] \o q
      BY <1>4, <2>3
    <3> QED  BY <3>3, <3>4, <3>5, Zenon
  <2> QED  BY <1>6, <2>1, <2>2, <2>3
<1> HIDE DEF g
<1> QED  BY <1>4, <1>5, <1>6 DEF Log, g

LEMMA KeptExtends ==
  ASSUME NEW h, NEW rev \in Nat, Log(h, rev), NEW q \in Value, NEW m, Kept(h, rev, m)
  PROVE  Kept(Extended(h, rev, q), rev + 1, m)
<1> DEFINE g == Extended(h, rev, q)
<1>1. \A r \in 0..rev : g[r] = h[r]
  BY LogExtends
<1> HIDE DEF g
<1>2. m.type = "operations" => m.revision \in 1..rev /\ m.revision \in 0..rev /\ m.revision - 1 \in 0..rev
  BY DEF Kept
<1>3. ASSUME m.type \in {"declared", "ack"}
      PROVE  m.revision \in 0..rev + 1 /\ m.value = g[m.revision]
  <2>1. m.revision \in 0..rev /\ m.value = h[m.revision]
    BY <1>3 DEF Kept
  <2>2. g[m.revision] = h[m.revision]
    BY <1>1, <2>1, Zenon
  <2> QED  BY <2>1, <2>2
<1>4. ASSUME m.type = "operations"
      PROVE  m.revision \in 1..rev + 1 /\ g[m.revision] = g[m.revision - 1] \o m.operations
  <2>1. g[m.revision] = h[m.revision] /\ g[m.revision - 1] = h[m.revision - 1]
    BY <1>1, <1>2, <1>4, Zenon
  <2>2. h[m.revision] = h[m.revision - 1] \o m.operations
    BY <1>4 DEF Kept
  <2>3. m.revision \in 1..rev + 1
    BY <1>2, <1>4
  <2> QED  BY <2>1, <2>2, <2>3, Zenon
<1> QED  BY <1>3, <1>4 DEF Kept, g

-----------------------------------------------------------------------------
(* What happens to a page *)

LEMMA KeptAppend ==
  ASSUME NEW h, NEW rev \in Nat, NEW answers \in Seq(Answer), NEW m \in Answer,
         \A i \in 1..Len(answers) : Kept(h, rev, answers[i]), Kept(h, rev, m)
  PROVE  \A i \in 1..Len(Append(answers, m)) : Kept(h, rev, Append(answers, m)[i])
<1>1. ASSUME NEW i \in 1..Len(Append(answers, m))
      PROVE  Append(answers, m)[i] = m \/ (i \in 1..Len(answers) /\ Append(answers, m)[i] = answers[i])
  BY AppendBox
<1> QED  BY <1>1

LEMMA KeptTail ==
  ASSUME NEW h, NEW rev \in Nat, NEW answers \in Seq(Answer), answers # <<>>,
         \A i \in 1..Len(answers) : Kept(h, rev, answers[i])
  PROVE  /\ \A i \in 1..Len(Tail(answers)) : Kept(h, rev, Tail(answers)[i])
         /\ Kept(h, rev, Head(answers))
<1>1. \A i \in 1..Len(Tail(answers)) : i + 1 \in 1..Len(answers) /\ Tail(answers)[i] = answers[i + 1]
  BY TailBox
<1>2. 1 \in 1..Len(answers) /\ Head(answers) = answers[1]
  BY TailBox
<1> QED  BY <1>1, <1>2

\* It asks for something, or is heard.
LEMMA GoodAsks ==
  ASSUME NEW h, NEW rev \in Nat, NEW c, NEW R, NEW L, NEW st, NEW value, NEW own \in Nat,
         NEW requests \in Seq(Request), NEW answers \in Seq(Answer),
         Good(h, rev, c, R, L, st, value, own, requests, answers),
         NEW m \in Request, m.type = "propose"
  PROVE  Good(h, rev, c, R, L, st, value, own, Append(requests, m), answers)
<1>1. \A t \in {"join", "declare"} :
        /\ Has(Append(requests, m), t) <=> Has(requests, t)
        /\ Once(requests, t) => Once(Append(requests, m), t)
  BY HasAppend
<1> QED  BY <1>1 DEF Good, Place

LEMMA GoodHeard ==
  ASSUME NEW h, NEW rev \in Nat, NEW c, NEW R, NEW L, NEW st, NEW value, NEW own \in Nat,
         NEW requests \in Seq(Request), NEW answers \in Seq(Answer),
         Good(h, rev, c, R, L, st, value, own, requests, answers),
         requests # <<>>
  PROVE  Good(h, rev, c, R, L, st, value, own, Tail(requests), answers)
<1>1. \A t \in {"join", "declare"} :
        /\ Has(Tail(requests), t) => Has(requests, t)
        /\ Once(requests, t) => Once(Tail(requests), t)
  BY HasTail
<1> QED  BY <1>1 DEF Good, Place

\* It is answered with the head.
LEMMA GoodAnswered ==
  ASSUME NEW h, NEW rev \in Nat, NEW c, NEW R, NEW L, NEW st, NEW value, NEW own \in Nat,
         NEW requests \in Seq(Request), NEW answers \in Seq(Answer),
         Good(h, rev, c, R, L, st, value, own, requests, answers),
         c \in L, NEW v \in Value, v = h[rev], NEW t \in {"declared", "ack"},
         t = "declared" => c \in R /\ ~Has(answers, "joined")
  PROVE  Good(h, rev, c, R, L, st, value, own, requests, Append(answers, HeadRevision(t, v, rev)))
<1> DEFINE m == HeadRevision(t, v, rev)
<1>1. m \in Answer /\ m.type = t /\ m.value = v /\ m.revision = rev
  BY AnswerKinds
<1> HIDE DEF m
<1>2. Kept(h, rev, m) /\ Leads(rev, m)
  <2>1. m.type # "operations" /\ m.revision = rev /\ rev \in 0..rev
    BY <1>1
  <2>2. m.value = h[m.revision]
    BY <1>1, Zenon
  <2> QED  BY <2>1, <2>2 DEF Kept, Leads
<1>3. \A i \in 1..Len(Append(answers, m)) : Kept(h, rev, Append(answers, m)[i])
  BY <1>1, <1>2, KeptAppend DEF Good
<1>4. /\ Has(Append(answers, m), "joined") <=> Has(answers, "joined")
      /\ Once(answers, "joined") => Once(Append(answers, m), "joined")
      /\ Has(Append(answers, m), "declared") <=> Has(answers, "declared") \/ t = "declared"
  BY <1>1, HasAppend
<1>5. Follows(answers, rev) => Follows(Append(answers, m), rev)
  BY <1>1, <1>2, FollowsAppend
<1>6. Starts(answers, own, rev) => Starts(Append(answers, m), own, rev)
  BY <1>1, <1>2, StartsAppend
<1> QED  BY <1>3, <1>4, <1>5, <1>6 DEF Good, Place, m

\* Operations are sent to the room.
Sent(c, R, answers, m) == IF c \in R THEN Append(answers, m) ELSE answers

LEMMA GoodSent ==
  ASSUME NEW h, NEW rev \in Nat, NEW c, NEW R, NEW L, NEW st, NEW value, NEW own \in Nat,
         NEW requests \in Seq(Request), NEW answers \in Seq(Answer),
         Good(h, rev, c, R, L, st, value, own, requests, answers),
         Log(h, rev), NEW q \in Value
  PROVE  Good(Extended(h, rev, q), rev + 1, c, R, L, st, value, own, requests,
              Sent(c, R, answers, Operations(q, rev + 1)))
<1> DEFINE m == Operations(q, rev + 1)
           g == Extended(h, rev, q)
<1>1. m \in Answer /\ m.type = "operations" /\ m.operations = q /\ m.revision = rev + 1
  BY AnswerKinds
<1>2. g[rev + 1] = h[rev] \o q /\ \A r \in 0..rev : g[r] = h[r]
  BY LogExtends
<1>3. \A i \in 1..Len(answers) : Kept(g, rev + 1, answers[i])
  BY KeptExtends DEF Good
<1> HIDE DEF m, g
<1>4. st = "declared" => own \in 0..rev + 1 /\ value = g[own]
  BY <1>2 DEF Good
<1>5. CASE c \in R
  <2>1. Kept(g, rev + 1, m) /\ Leads(rev, m)
    <3>1. m.revision - 1 = rev /\ m.revision \in 1..rev + 1 /\ rev \in 0..rev
      BY <1>1
    <3>2. g[m.revision] = g[m.revision - 1] \o m.operations
      BY <1>1, <1>2, <3>1, Zenon
    <3> QED  BY <1>1, <3>1, <3>2 DEF Kept, Leads
  <2>2. \A i \in 1..Len(Append(answers, m)) : Kept(g, rev + 1, Append(answers, m)[i])
    BY <1>1, <1>3, <2>1, KeptAppend
  <2>3. /\ Has(Append(answers, m), "joined") <=> Has(answers, "joined")
        /\ Once(answers, "joined") => Once(Append(answers, m), "joined")
        /\ Has(Append(answers, m), "declared") <=> Has(answers, "declared")
    BY <1>1, HasAppend
  <2>4. Follows(Append(answers, m), rev + 1)
    BY <1>1, <1>5, <2>1, FollowsAppend DEF Good
  <2>5. Starts(answers, own, rev) => Starts(Append(answers, m), own, rev + 1)
    BY <1>1, <2>1, StartsAppend
  <2>6. Sent(c, R, answers, m) = Append(answers, m)
    BY <1>5 DEF Sent
  <2>7. Place(c, R, L, st, requests, Append(answers, m))
    BY <1>5, <2>3 DEF Good, Place
  <2> QED  BY <1>4, <1>5, <2>2, <2>4, <2>5, <2>6, <2>7 DEF Good, m, g
<1>6. CASE c \notin R
  <2>1. Sent(c, R, answers, m) = answers
    BY <1>6 DEF Sent
  <2> QED  BY <1>3, <1>4, <1>6, <2>1 DEF Good, m, g
<1> QED  BY <1>5, <1>6

\* It joins the room.
LEMMA GoodJoins ==
  ASSUME NEW h, NEW rev \in Nat, NEW c, NEW R, NEW L, NEW st, NEW value, NEW own \in Nat,
         NEW requests \in Seq(Request), NEW answers \in Seq(Answer),
         Good(h, rev, c, R, L, st, value, own, requests, answers),
         c \in L, requests # <<>>, Head(requests).type = "join", NEW S, c \in S
  PROVE  Good(h, rev, c, S, L, st, value, own, Tail(requests), Append(answers, Joined))
<1>1. /\ Has(requests, "join")
      /\ Has(Tail(requests), "declare") => Has(requests, "declare")
      /\ Once(requests, "join") => ~Has(Tail(requests), "join") /\ Once(Tail(requests), "join")
  BY HasTail
<1>2. /\ Has(Append(answers, Joined), "declared") <=> Has(answers, "declared")
      /\ ~Has(answers, "joined") /\ Once(answers, "joined") => Once(Append(answers, Joined), "joined")
  BY AnswerKinds, HasAppend
<1>3. c \notin R /\ ~Has(answers, "joined") /\ ~Has(answers, "declared") /\ st # "declared"
      /\ ~Has(requests, "declare")
  BY <1>1 DEF Good, Place
<1>4. Follows(Append(answers, Joined), rev)
  BY FollowsJoined
<1>5. Kept(h, rev, Joined)
  BY AnswerKinds DEF Kept
<1>6. \A i \in 1..Len(Append(answers, Joined)) : Kept(h, rev, Append(answers, Joined)[i])
  BY <1>5, AnswerKinds, KeptAppend DEF Good
<1>7. Place(c, S, L, st, Tail(requests), Append(answers, Joined))
  BY <1>1, <1>2, <1>3 DEF Good, Place
<1> QED  BY <1>3, <1>4, <1>6, <1>7 DEF Good

\* A message reaches it.
LEMMA GoodJoined ==
  ASSUME NEW h, NEW rev \in Nat, NEW c, NEW R, NEW L, NEW st, NEW value, NEW own \in Nat,
         NEW requests \in Seq(Request), NEW answers \in Seq(Answer),
         Good(h, rev, c, R, L, st, value, own, requests, answers),
         answers # <<>>, Head(answers).type = "joined"
  PROVE  Good(h, rev, c, R, L, st, value, own, Append(requests, Declare), Tail(answers))
<1>1. /\ Has(answers, "joined")
      /\ Has(Tail(answers), "declared") => Has(answers, "declared")
      /\ Once(answers, "joined") => ~Has(Tail(answers), "joined") /\ Once(Tail(answers), "joined")
  BY HasTail
<1>2. /\ Has(Append(requests, Declare), "join") <=> Has(requests, "join")
      /\ Once(requests, "join") => Once(Append(requests, Declare), "join")
  BY RequestKinds, HasAppend
<1>3. c \in R /\ st # "declared" /\ Follows(answers, rev)
  BY <1>1 DEF Good, Place
<1>4. Follows(Tail(answers), rev)
  BY <1>3, FollowsTail
<1>5. \A i \in 1..Len(Tail(answers)) : Kept(h, rev, Tail(answers)[i])
  BY KeptTail DEF Good
<1>6. c \in L
  BY <1>3 DEF Good, Place
<1>7. Place(c, R, L, st, Append(requests, Declare), Tail(answers))
  BY <1>1, <1>2, <1>3, <1>6 DEF Good, Place
<1> QED  BY <1>3, <1>4, <1>5, <1>7 DEF Good

LEMMA GoodDeclared ==
  ASSUME NEW h, NEW rev \in Nat, NEW c, NEW R, NEW L, NEW st, NEW value, NEW own \in Nat,
         NEW requests \in Seq(Request), NEW answers \in Seq(Answer),
         Good(h, rev, c, R, L, st, value, own, requests, answers),
         answers # <<>>, Head(answers).type = "declared"
  PROVE  Good(h, rev, c, R, L, "declared", Head(answers).value, Head(answers).revision,
              requests, Tail(answers))
<1>1. /\ Has(answers, "declared")
      /\ Has(Tail(answers), "joined") => Has(answers, "joined")
      /\ Once(answers, "joined") => Once(Tail(answers), "joined")
  BY HasTail
<1>2. c \in R /\ c \in L /\ ~Has(answers, "joined") /\ Follows(answers, rev)
  BY <1>1 DEF Good, Place
<1>3. Follows(Tail(answers), rev) /\ Starts(Tail(answers), Head(answers).revision, rev)
  BY <1>2, FollowsTail
<1>4. (\A i \in 1..Len(Tail(answers)) : Kept(h, rev, Tail(answers)[i])) /\ Kept(h, rev, Head(answers))
  BY KeptTail DEF Good
<1>5. Head(answers).revision \in 0..rev /\ Head(answers).value = h[Head(answers).revision]
  BY <1>4 DEF Kept
<1>6. Place(c, R, L, "declared", requests, Tail(answers))
  BY <1>1, <1>2 DEF Good, Place
<1> QED  BY <1>3, <1>4, <1>5, <1>6 DEF Good

\* Before it is declared, whatever it takes over does not matter.
LEMMA GoodIgnores ==
  ASSUME NEW h, NEW rev \in Nat, NEW c, NEW R, NEW L, NEW st, NEW value, NEW own \in Nat,
         NEW requests \in Seq(Request), NEW answers \in Seq(Answer),
         Good(h, rev, c, R, L, st, value, own, requests, answers),
         answers # <<>>, st # "declared", Head(answers).type # "joined", NEW other, NEW any
  PROVE  Good(h, rev, c, R, L, st, other, any, requests, Tail(answers))
<1>1. \A t \in {"joined", "declared"} :
        /\ Has(Tail(answers), t) => Has(answers, t)
        /\ Once(answers, t) => Once(Tail(answers), t)
  BY HasTail
<1>2. \A i \in 1..Len(Tail(answers)) : Kept(h, rev, Tail(answers)[i])
  BY KeptTail DEF Good
<1>3. Follows(answers, rev) => Follows(Tail(answers), rev)
  BY FollowsTail
<1>4. Place(c, R, L, st, requests, Tail(answers))
  <2>1. c \in L
    BY DEF Good, Place
  <2> QED  BY <1>1, <2>1 DEF Good, Place
<1> QED  BY <1>2, <1>3, <1>4 DEF Good

\* Once it is declared, what it is sent is the next revision, or its own.
LEMMA GoodFollows ==
  ASSUME NEW h, NEW rev \in Nat, NEW c, NEW R, NEW L, NEW st, NEW value, NEW own \in Nat,
         NEW requests \in Seq(Request), NEW answers \in Seq(Answer),
         Good(h, rev, c, R, L, st, value, own, requests, answers),
         answers # <<>>, st = "declared", Log(h, rev)
  PROVE  LET m == Head(answers) IN
         /\ m.type # "joined" /\ m \in Answer
         /\ m.type \in {"declared", "ack"} =>
              /\ m.revision = own
              /\ Good(h, rev, c, R, L, st, value, own, requests, Tail(answers))
         /\ m.type = "operations" =>
              /\ m.revision = own + 1
              /\ Good(h, rev, c, R, L, st, value \o m.operations, own + 1, requests, Tail(answers))
<1> DEFINE m == Head(answers)
<1>1. m \in Answer /\ m = answers[1] /\ Len(answers) \in Nat \ {0}
  BY TailBox
<1>2. \A t \in {"joined", "declared"} :
        /\ Has(Tail(answers), t) => Has(answers, t)
        /\ m.type = t => Has(answers, t)
        /\ Once(answers, t) => Once(Tail(answers), t)
  BY HasTail
<1>3. c \in R /\ c \in L /\ ~Has(answers, "joined") /\ Follows(answers, rev) /\ Starts(answers, own, rev)
  BY DEF Good, Place
<1>4. Follows(Tail(answers), rev) /\ Starts(Tail(answers), m.revision, rev)
  BY <1>3, FollowsTail
<1>5. (\A i \in 1..Len(Tail(answers)) : Kept(h, rev, Tail(answers)[i])) /\ Kept(h, rev, m)
  BY KeptTail DEF Good
<1> HIDE DEF m
<1>6. Leads(own, m)
  <2>1. 1 \in 1..Len(answers) /\ NoOperations(answers, 1, 1 - 1)
    BY <1>1 DEF NoOperations
  <2> QED  BY <1>1, <1>3, <2>1 DEF Starts
<1>7. Place(c, R, L, st, requests, Tail(answers))
  BY <1>2, <1>3 DEF Good, Place
<1>8. value = h[own] /\ own \in 0..rev
  BY DEF Good
<1>9. ASSUME m.type \in {"declared", "ack"}
      PROVE  /\ m.revision = own
             /\ Good(h, rev, c, R, L, st, value, own, requests, Tail(answers))
  <2>1. m.revision = own
    BY <1>6, <1>9 DEF Leads
  <2> QED  BY <1>4, <1>5, <1>7, <1>8, <2>1 DEF Good
<1>10. ASSUME m.type = "operations"
       PROVE  /\ m.revision = own + 1
              /\ Good(h, rev, c, R, L, st, value \o m.operations, own + 1, requests, Tail(answers))
  <2>1. m.revision = own + 1
    BY <1>6, <1>10 DEF Leads
  <2>2. own + 1 \in 0..rev /\ h[own + 1] = value \o m.operations
    <3>1. m.revision \in 1..rev /\ h[m.revision] = h[m.revision - 1] \o m.operations
      BY <1>5, <1>10 DEF Kept
    <3>2. m.revision - 1 = own
      BY <2>1
    <3> QED  BY <1>8, <2>1, <3>1, <3>2
  <2> QED  BY <1>4, <1>5, <1>7, <2>1, <2>2 DEF Good
<1> QED  BY <1>1, <1>2, <1>3, <1>9, <1>10 DEF m

\* It loses its connection, or comes back.
LEMMA GoodLost ==
  ASSUME NEW h, NEW rev, NEW c, NEW R, NEW L, c \notin R, c \notin L, NEW value, NEW own
  PROVE  Good(h, rev, c, R, L, "undeclared", value, own, <<>>, <<>>)
BY HasNone DEF Good, Place

\* Without a connection it does not depend on the server.
LEMMA GoodAway ==
  ASSUME NEW h, NEW rev, NEW c, NEW R, NEW L, NEW st, NEW value, NEW own, NEW requests, NEW answers,
         Good(h, rev, c, R, L, st, value, own, requests, answers), c \notin L,
         NEW g, NEW other, NEW S, NEW M, c \notin S, c \notin M
  PROVE  Good(g, other, c, S, M, st, value, own, requests, answers)
<1>1. answers = <<>> /\ st = "undeclared" /\ Place(c, S, M, st, requests, answers)
  BY DEF Good, Place
<1> QED  BY <1>1 DEF Good

LEMMA GoodReturns ==
  ASSUME NEW h, NEW rev \in Nat, NEW c, NEW R, NEW L, NEW st, NEW value, NEW own \in Nat,
         NEW requests \in Seq(Request), NEW answers \in Seq(Answer),
         Good(h, rev, c, R, L, st, value, own, requests, answers),
         c \notin L, NEW M, c \in M
  PROVE  Good(h, rev, c, R, M, "declaring", value, own, Append(requests, Join), answers)
<1>1. /\ Has(Append(requests, Join), "declare") <=> Has(requests, "declare")
      /\ ~Has(requests, "join") /\ Once(requests, "join") => Once(Append(requests, Join), "join")
  BY RequestKinds, HasAppend
<1>2. answers = <<>> /\ c \notin R
  BY DEF Good, Place
<1>3. Place(c, R, M, "declaring", Append(requests, Join), answers)
  BY <1>1, <1>2, HasNone DEF Good, Place
<1> QED  BY <1>2, <1>3 DEF Good

-----------------------------------------------------------------------------
(* The types *)

USE SyncAssumption

LEMMA BoxTypes ==
  ASSUME Typed, NEW c \in Clients
  PROVE  /\ toServer[c] \in Seq(Request) /\ toClient[c] \in Seq(Answer)
         /\ toServer[c] # <<>> => Head(toServer[c]) \in Request /\ Tail(toServer[c]) \in Seq(Request)
         /\ toClient[c] # <<>> => Head(toClient[c]) \in Answer /\ Tail(toClient[c]) \in Seq(Answer)
BY HeadTailProperties DEF Typed

\* With one packet per turn, a packet is handled when no flush is pending.
LEMMA PacketInItsTurn ==
  ASSUME Typed, NEW c \in Clients, NEW type, Packet(c, type)
  PROVE  /\ sQueue = <<>> /\ turn' = NoTurn /\ c \in connected /\ toServer[c] # <<>>
         /\ Head(toServer[c]).type = type /\ toServer' = [toServer EXCEPT ![c] = Tail(@)]
         /\ toServer' \in [Clients -> Seq(Request)] /\ toServer'[c] = Tail(toServer[c])
         /\ \A d \in Clients \ {c} : toServer'[d] = toServer[d]
<1>1. sQueue = <<>>
  <2>1. turn.page = NoClient
    BY DEF Typed, NoTurn
  <2> QED  BY <2>1 DEF Packet
<1>2. /\ c \in connected /\ toServer[c] # <<>> /\ Head(toServer[c]).type = type
      /\ toServer' = [toServer EXCEPT ![c] = Tail(@)] /\ turn' = turn
  BY <1>1 DEF Packet
<1>3. Tail(toServer[c]) \in Seq(Request)
  BY <1>2, BoxTypes
<1> QED  BY <1>1, <1>2, <1>3 DEF Typed

LEMMA BroadcastBoxes ==
  ASSUME NEW box \in [Clients -> Seq(Answer)], NEW m \in Answer
  PROVE  /\ Broadcast(box, m) \in [Clients -> Seq(Answer)]
         /\ \A c \in Clients : Broadcast(box, m)[c] = Sent(c, room, box[c], m)
<1>1. \A c \in Clients : Append(box[c], m) \in Seq(Answer)
  BY AppendProperties
<1> QED  BY <1>1 DEF Broadcast, Sent

LEMMA FlushTypes ==
  ASSUME Typed, NEW c \in Clients, NEW r \in Nat, Flush(c, r)
  PROVE  /\ pendingFlush' \in [Clients -> BOOLEAN] /\ cQueue' \in [Clients -> Value]
         /\ toServer' \in [Clients -> Seq(Request)]
         /\ \A d \in Clients \ {c} : toServer'[d] = toServer[d]
         /\ \/ toServer'[c] = toServer[c]
            \/ toServer'[c] = Append(toServer[c], Propose(cQueue[c], r))
<1>1. <<>> \in Value /\ cQueue[c] \in Value
  BY EmptySeq DEF Typed, Value
<1>2. Append(toServer[c], Propose(cQueue[c], r)) \in Seq(Request)
  BY <1>1, RequestKinds, AppendProperties DEF Typed
<1> QED  BY <1>1, <1>2 DEF Typed, Flush

LEMMA TypedInit == Init => Typed
<1> SUFFICES ASSUME Init PROVE Typed
  OBVIOUS
<1>1. <<>> \in Value /\ <<>> \in Seq(Answer)
  BY EmptySeq DEF Value
<1>2. <<Join>> \in Seq(Request)
  BY RequestKinds
<1> QED  BY <1>1, <1>2 DEF Init, Typed

LEMMA TypedServer ==
  ASSUME Typed, ~Batches,
         (\E w \in Clients \cup {NoClient} : ServerSet(w)) \/ ServerFlush \/ ServerRestart
  PROVE  Typed'
<1>1. ASSUME NEW w \in Clients \cup {NoClient}, ServerSet(w) PROVE Typed'
  <2>1. w = NoClient /\ turn' = NoTurn
    BY <1>1 DEF ServerSet, Typed
  <2>2. ops + 1 \in Nat /\ Append(sValue, ops + 1) \in Value /\ Append(sQueue, ops + 1) \in Value
    BY AppendProperties DEF Typed, Value
  <2> QED  BY <1>1, <2>1, <2>2 DEF ServerSet, Typed, page, net
<1>2. CASE ServerFlush
  <2>1. toClient' \in [Clients -> Seq(Answer)]
    <3>1. Operations(sQueue, sRev + 1) \in Answer
      BY AnswerKinds DEF Typed
    <3>2. /\ toClient' = Broadcast(toClient, Operations(sQueue, sRev + 1))
          /\ toClient \in [Clients -> Seq(Answer)]
      BY <1>2 DEF ServerFlush, Typed
    <3> QED  BY <3>1, <3>2, BroadcastBoxes
  <2>2. <<>> \in Value
    BY EmptySeq DEF Value
  <2> QED  BY <1>2, <2>1, <2>2 DEF ServerFlush, Typed, page
<1>3. CASE ServerRestart
  <2>1. sValue' \in Value
    <3>1. PICK n \in 0..Len(sValue) : sValue' = SubSeq(sValue, 1, n)
      BY <1>3 DEF ServerRestart
    <3>2. Len(sValue) \in Nat /\ sValue \in [1..Len(sValue) -> Nat]
      BY LenProperties DEF Typed, Value
    <3>3. \A i \in 1..n : sValue[i] \in Nat
      BY <3>1, <3>2
    <3> QED  BY <3>1, <3>3, SubSeqProperties DEF Value
  <2>2. <<>> \in Value /\ <<>> \in Seq(Request) /\ <<>> \in Seq(Answer)
    BY EmptySeq DEF Value
  <2> QED  BY <1>3, <2>1, <2>2 DEF ServerRestart, Disconnected, Typed
<1> QED  BY <1>1, <1>2, <1>3

LEMMA TypedPacket ==
  ASSUME Typed, NEW c \in Clients, HandlePacket(c)
  PROVE  Typed'
<1>1. CASE HandleJoin(c)
  <2>1. Append(toClient[c], Joined) \in Seq(Answer)
    BY BoxTypes, AnswerKinds, AppendProperties
  <2>2. Packet(c, "join")
    BY <1>1 DEF HandleJoin
  <2>3. turn' = NoTurn /\ c \in connected /\ toServer' \in [Clients -> Seq(Request)]
    BY <2>2, PacketInItsTurn
  <2> QED  BY <1>1, <2>1, <2>3 DEF HandleJoin, Typed, page
<1>2. CASE HandleDeclare(c)
  <2>1. Append(toClient[c], HeadRevision("declared", sValue, sRev)) \in Seq(Answer)
    BY BoxTypes, AnswerKinds, AppendProperties DEF Typed
  <2>2. Packet(c, "declare")
    BY <1>2 DEF HandleDeclare
  <2>3. turn' = NoTurn /\ c \in connected /\ toServer' \in [Clients -> Seq(Request)]
    BY <2>2, PacketInItsTurn
  <2> QED  BY <1>2, <2>1, <2>3 DEF HandleDeclare, Typed, page
<1>3. CASE HandlePropose(c)
  <2> DEFINE msg == Head(toServer[c])
             answered == IF msg.revision # sRev
                           THEN [toClient EXCEPT ![c] = Append(@, HeadRevision("ack", sValue, sRev))]
                           ELSE toClient
  <2>1. Packet(c, "propose")
    BY <1>3 DEF HandlePropose
  <2>2. /\ turn' = NoTurn /\ toServer' \in [Clients -> Seq(Request)]
        /\ toServer[c] # <<>> /\ msg.type = "propose"
    BY <2>1, PacketInItsTurn
  <2>3. msg.operations \in Value
    BY <2>2, BoxTypes, RequestKinds
  <2>4. answered \in [Clients -> Seq(Answer)]
    <3>1. Append(toClient[c], HeadRevision("ack", sValue, sRev)) \in Seq(Answer)
      BY BoxTypes, AnswerKinds, AppendProperties DEF Typed
    <3> QED  BY <3>1 DEF Typed
  <2> HIDE DEF msg, answered
  <2>5. sValue' = sValue \o msg.operations /\ sRev' = sRev + 1
        /\ toClient' = Broadcast(answered, Operations(msg.operations, sRev + 1))
    BY <1>3 DEF HandlePropose, msg, answered
  <2>6. sValue' \in Value
    BY <2>3, <2>5, ConcatProperties DEF Typed, Value
  <2>7. toClient' \in [Clients -> Seq(Answer)]
    <3>1. Operations(msg.operations, sRev + 1) \in Answer
      BY <2>3, AnswerKinds DEF Typed
    <3> QED  BY <2>4, <2>5, <3>1, BroadcastBoxes
  <2>8. UNCHANGED <<sQueue, room, page, connected, ops, drops>>
    BY <1>3 DEF HandlePropose
  <2> QED  BY <2>2, <2>5, <2>6, <2>7, <2>8 DEF Typed, page
<1> QED  BY <1>1, <1>2, <1>3 DEF HandlePacket

LEMMA TypedPage ==
  ASSUME Typed, NEW c \in Clients,
         PageSet(c) \/ FlushTimeout(c) \/ HandleMessage(c) \/ Disconnect(c) \/ Reconnect(c)
  PROVE  Typed'
<1>1. CASE PageSet(c)
  <2>1. ops + 1 \in Nat /\ Append(cQueue[c], ops + 1) \in Value
    BY AppendProperties DEF Typed, Value
  <2>2. flushTimer' \in [Clients -> BOOLEAN] /\ flushQueued' \in [Clients -> BOOLEAN]
    BY <1>1, Zenon DEF PageSet, Typed
  <2> QED  BY <1>1, <2>1, <2>2 DEF PageSet, Typed, server, net
<1>2. CASE FlushTimeout(c)
  <2>1. cRev[c] \in Nat /\ Flush(c, cRev[c])
    BY <1>2 DEF FlushTimeout, Typed
  <2>2. /\ pendingFlush' \in [Clients -> BOOLEAN] /\ cQueue' \in [Clients -> Value]
        /\ toServer' \in [Clients -> Seq(Request)]
    BY <2>1, FlushTypes
  <2> QED  BY <1>2, <2>2 DEF FlushTimeout, Typed, server
<1>3. CASE HandleJoined(c)
  <2>1. Append(toServer[c], Declare) \in Seq(Request)
    BY BoxTypes, RequestKinds, AppendProperties
  <2>2. Tail(toClient[c]) \in Seq(Answer)
    BY <1>3, BoxTypes DEF HandleJoined, Received
  <2> QED  BY <1>3, <2>1, <2>2 DEF HandleJoined, Received, Typed, server, page
<1>4. CASE HandleDeclared(c)
  <2>1. toClient[c] # <<>> /\ Head(toClient[c]).type = "declared"
        /\ toClient' = [toClient EXCEPT ![c] = Tail(@)]
    BY <1>4 DEF HandleDeclared, Received
  <2>2. /\ Tail(toClient[c]) \in Seq(Answer)
        /\ Head(toClient[c]).value \in Value /\ Head(toClient[c]).revision \in Nat
    BY <2>1, BoxTypes, AnswerKinds
  <2>3. /\ pendingFlush' \in [Clients -> BOOLEAN] /\ cQueue' \in [Clients -> Value]
        /\ toServer' \in [Clients -> Seq(Request)]
    BY <1>4, <2>2, FlushTypes DEF HandleDeclared, Typed
  <2> QED  BY <1>4, <2>1, <2>2, <2>3 DEF HandleDeclared, Typed, server
<1>5. CASE HandleOperations(c)
  <2>1. toClient[c] # <<>> /\ Head(toClient[c]).type = "operations"
        /\ toClient' = [toClient EXCEPT ![c] = Tail(@)]
    BY <1>5 DEF HandleOperations, Received
  <2>2. /\ Tail(toClient[c]) \in Seq(Answer)
        /\ Head(toClient[c]).operations \in Value /\ Head(toClient[c]).revision \in Nat
    BY <2>1, BoxTypes, AnswerKinds
  <2>3. cValue[c] \o Head(toClient[c]).operations \in Value
    BY <2>2, ConcatProperties DEF Typed, Value
  <2>4. \/ UNCHANGED <<cValue, cRev>>
        \/ /\ cValue' = [cValue EXCEPT ![c] = @ \o Head(toClient[c]).operations]
           /\ cRev' = [cRev EXCEPT ![c] = Head(toClient[c]).revision]
    BY <1>5 DEF HandleOperations
  <2>5. cValue' \in [Clients -> Value] /\ cRev' \in [Clients -> Nat]
    <3>1. cValue \in [Clients -> Value] /\ cRev \in [Clients -> Nat]
      BY DEF Typed
    <3> QED  BY <2>2, <2>3, <2>4, <3>1
  <2> QED  BY <1>5, <2>1, <2>2, <2>5 DEF HandleOperations, Typed, server
<1>6. CASE HandleAck(c)
  <2>1. toClient[c] # <<>> /\ Head(toClient[c]).type = "ack"
        /\ toClient' = [toClient EXCEPT ![c] = Tail(@)]
    BY <1>6 DEF HandleAck, Received
  <2>2. /\ Tail(toClient[c]) \in Seq(Answer)
        /\ Head(toClient[c]).value \in Value /\ Head(toClient[c]).revision \in Nat
    BY <2>1, BoxTypes, AnswerKinds
  <2>3. cValue' \in [Clients -> Value] /\ cRev' \in [Clients -> Nat]
    BY <1>6, <2>2 DEF HandleAck, Typed
  <2> QED  BY <1>6, <2>1, <2>2, <2>3 DEF HandleAck, Typed, server
<1>7. CASE Disconnect(c)
  <2>1. <<>> \in Value /\ <<>> \in Seq(Request) /\ <<>> \in Seq(Answer)
    BY EmptySeq DEF Value
  <2> QED  BY <1>7, <2>1 DEF Disconnect, Disconnected, Typed
<1>8. CASE Reconnect(c)
  <2>1. Append(toServer[c], Join) \in Seq(Request)
    BY BoxTypes, RequestKinds, AppendProperties
  <2> QED  BY <1>8, <2>1 DEF Reconnect, Typed, server
<1> QED  BY <1>1, <1>2, <1>3, <1>4, <1>5, <1>6, <1>7, <1>8 DEF HandleMessage

-----------------------------------------------------------------------------
(* The log and the pages, action by action *)

LEMMA SamePage ==
  ASSUME NEW h, NEW d \in Clients, GoodPage(h, d), sRev' = sRev,
         d \in room' <=> d \in room, d \in connected' <=> d \in connected,
         status'[d] = status[d], cValue'[d] = cValue[d], cRev'[d] = cRev[d],
         toServer'[d] = toServer[d], toClient'[d] = toClient[d]
  PROVE  GoodPage(h, d)'
BY DEF GoodPage, Good, Place

LEMMA PageTypes ==
  ASSUME Typed, NEW c \in Clients
  PROVE  /\ toServer[c] \in Seq(Request) /\ toClient[c] \in Seq(Answer) /\ cRev[c] \in Nat
         /\ sRev \in Nat /\ sValue \in Value /\ sQueue \in Value /\ cValue[c] \in Value
BY DEF Typed

\* With no flush pending the server's value is the last of the log.
LEMMA ValueIsLast ==
  ASSUME Typed, NEW h, Logged(h)
  PROVE  h[sRev] \in Value /\ (sQueue = <<>> => sValue = h[sRev])
<1>1. h[sRev] \in Value
  BY DEF Logged, Log, Typed
<1> QED  BY <1>1, ConcatEmptySeq DEF Logged, Value

LEMMA SetLogged ==
  ASSUME Typed, NEW h, Logged(h), NEW w, ServerSet(w)
  PROVE  Logged(h)'
<1>1. /\ sValue' = Append(sValue, ops + 1) /\ sQueue' = Append(sQueue, ops + 1) /\ sRev' = sRev
      /\ UNCHANGED <<room, page, net>>
  BY DEF ServerSet
<1>2. sValue' = h[sRev'] \o sQueue'
  <2>1. h[sRev] \in Seq(Nat) /\ sQueue \in Seq(Nat) /\ ops + 1 \in Nat /\ <<ops + 1>> \in Seq(Nat)
    BY ValueIsLast DEF Typed, Value
  <2>2. sValue = h[sRev] \o sQueue /\ sValue \in Seq(Nat)
    BY DEF Logged, Typed, Value
  <2>3. Append(sValue, ops + 1) = (h[sRev] \o sQueue) \o <<ops + 1>>
    BY <2>1, <2>2, AppendIsConcat
  <2>4. Append(sQueue, ops + 1) = sQueue \o <<ops + 1>>
    BY <2>1, AppendIsConcat
  <2>5. (h[sRev] \o sQueue) \o <<ops + 1>> = h[sRev] \o (sQueue \o <<ops + 1>>)
    <3>1. ASSUME NEW r \in Seq(Nat), NEW t \in Seq(Nat), NEW u \in Seq(Nat)
          PROVE  (r \o t) \o u = r \o (t \o u)
      BY SMTT(60)
    <3> QED  BY <2>1, <3>1, Zenon
  <2> QED  BY <1>1, <2>3, <2>4, <2>5
<1>3. \A d \in Clients : GoodPage(h, d)'
  BY <1>1, SamePage DEF Logged, page, net
<1>4. Log(h, sRev')
  BY <1>1 DEF Logged
<1> QED  BY <1>2, <1>3, <1>4 DEF Logged

LEMMA FlushLogged ==
  ASSUME Typed, NEW h, Logged(h), ServerFlush
  PROVE  \E g : Logged(g)'
<1> PICK g : g = Extended(h, sRev, sQueue)
  OBVIOUS
<1>1. /\ sRev' = sRev + 1 /\ sQueue' = <<>> /\ sValue' = sValue
      /\ toClient' = Broadcast(toClient, Operations(sQueue, sRev + 1))
      /\ UNCHANGED <<room, page, connected, toServer>>
  BY DEF ServerFlush
<1>2. sRev \in Nat /\ sQueue \in Value /\ Log(h, sRev)
  BY DEF Typed, Logged
<1>3. Log(g, sRev + 1) /\ g[sRev + 1] = h[sRev] \o sQueue
  BY <1>2, LogExtends
<1>4. sValue' = g[sRev'] \o sQueue'
  <2>1. sValue = g[sRev + 1] /\ sValue \in Seq(Nat)
    BY <1>3 DEF Logged, Typed, Value
  <2> QED  BY <1>1, <2>1, ConcatEmptySeq
<1>5. ASSUME NEW c \in Clients PROVE GoodPage(g, c)'
  <2>1. toClient'[c] = Sent(c, room, toClient[c], Operations(sQueue, sRev + 1))
    <3>1. Operations(sQueue, sRev + 1) \in Answer
      BY <1>2, AnswerKinds
    <3> QED  BY <1>1, <3>1, BroadcastBoxes DEF Typed
  <2>2. Good(h, sRev, c, room, connected, status[c], cValue[c], cRev[c], toServer[c], toClient[c])
    BY DEF Logged, GoodPage
  <2>3. Good(g, sRev + 1, c, room, connected, status[c], cValue[c], cRev[c], toServer[c],
             Sent(c, room, toClient[c], Operations(sQueue, sRev + 1)))
    BY <1>2, <2>2, PageTypes, GoodSent
  <2> QED  BY <1>1, <2>1, <2>3 DEF GoodPage, page
<1>6. Log(g, sRev')
  BY <1>1, <1>3
<1>7. Logged(g)'
  BY <1>4, <1>5, <1>6 DEF Logged
<1> QED  BY <1>7

LEMMA RestartLogged ==
  ASSUME Typed, Typed', NEW h, Logged(h), ServerRestart
  PROVE  \E g : Logged(g)'
<1> PICK v : v = sValue'
  OBVIOUS
<1> PICK g : g = [r \in 0..0 |-> v]
  OBVIOUS
<1>1. /\ sRev' = 0 /\ sQueue' = <<>> /\ room' = {} /\ Disconnected(connected)
  BY DEF ServerRestart
<1>2. v \in Value /\ v = v \o <<>>
  <2>1. v \in Seq(Nat)
    BY DEF Typed, Value
  <2> QED  BY <2>1, ConcatEmptySeq DEF Value
<1>3. Log(g, 0) /\ g[0] = v
  <2>1. g \in [0..0 -> Value] /\ g[0] = v
    BY <1>2
  <2>2. Begins(v, v)
    BY <1>2, LenProperties DEF Begins, Value
  <2>3. \A p, q \in 0..0 : g[p] = v /\ g[q] = v
    OBVIOUS
  <2> QED  BY <2>1, <2>2, <2>3 DEF Log
<1>4. ASSUME NEW c \in Clients PROVE GoodPage(g, c)'
  <2>1. connected' = {} /\ cValue'[c] = cValue[c] /\ cRev'[c] = cRev[c]
    BY <1>1 DEF Disconnected
  <2>2. CASE c \in connected
    <3>1. toServer'[c] = <<>> /\ toClient'[c] = <<>> /\ status'[c] = "undeclared"
      BY <1>1, <2>2 DEF Disconnected
    <3>2. Good(g, 0, c, {}, {}, "undeclared", cValue[c], cRev[c], <<>>, <<>>)
      BY GoodLost
    <3> QED  BY <1>1, <2>1, <3>1, <3>2 DEF GoodPage
  <2>3. CASE c \notin connected
    <3>1. toServer'[c] = toServer[c] /\ toClient'[c] = toClient[c] /\ status'[c] = status[c]
      BY <1>1, <2>3 DEF Disconnected
    <3>2. Good(h, sRev, c, room, connected, status[c], cValue[c], cRev[c], toServer[c], toClient[c])
      BY DEF Logged, GoodPage
    <3>3. Good(g, 0, c, {}, {}, status[c], cValue[c], cRev[c], toServer[c], toClient[c])
      BY <2>3, <3>2, GoodAway
    <3> QED  BY <1>1, <2>1, <3>1, <3>3 DEF GoodPage
  <2> QED  BY <2>2, <2>3
<1>5. Log(g, sRev') /\ sValue' = g[sRev'] \o sQueue'
  BY <1>1, <1>2, <1>3
<1>6. Logged(g)'
  BY <1>4, <1>5 DEF Logged
<1> QED  BY <1>6

LEMMA JoinLogged ==
  ASSUME Typed, NEW h, Logged(h), NEW c \in Clients, HandleJoin(c)
  PROVE  Logged(h)'
<1>1. /\ sQueue = <<>> /\ c \in connected /\ toServer[c] # <<>> /\ Head(toServer[c]).type = "join"
      /\ toServer'[c] = Tail(toServer[c]) /\ \A d \in Clients \ {c} : toServer'[d] = toServer[d]
  BY PacketInItsTurn DEF HandleJoin
<1>2. /\ room' = room \cup {c} /\ toClient' = [toClient EXCEPT ![c] = Append(@, Joined)]
      /\ UNCHANGED <<sValue, sRev, sQueue, page, connected>>
  BY DEF HandleJoin
<1>3. GoodPage(h, c)'
  <2>1. Good(h, sRev, c, room, connected, status[c], cValue[c], cRev[c], toServer[c], toClient[c])
    BY DEF Logged, GoodPage
  <2>2. Good(h, sRev, c, room \cup {c}, connected, status[c], cValue[c], cRev[c],
             Tail(toServer[c]), Append(toClient[c], Joined))
    BY <1>1, <2>1, PageTypes, GoodJoins
  <2>3. toClient'[c] = Append(toClient[c], Joined)
    BY <1>2 DEF Typed
  <2> QED  BY <1>1, <1>2, <2>2, <2>3 DEF GoodPage, page
<1>4. ASSUME NEW d \in Clients \ {c} PROVE GoodPage(h, d)'
  BY <1>1, <1>2, SamePage DEF Logged, page, Typed
<1> QED  BY <1>2, <1>3, <1>4 DEF Logged

LEMMA DeclareLogged ==
  ASSUME Typed, NEW h, Logged(h), NEW c \in Clients, HandleDeclare(c)
  PROVE  Logged(h)'
<1> DEFINE m == HeadRevision("declared", sValue, sRev)
<1>1. /\ sQueue = <<>> /\ c \in connected /\ toServer[c] # <<>> /\ Head(toServer[c]).type = "declare"
      /\ toServer'[c] = Tail(toServer[c]) /\ \A d \in Clients \ {c} : toServer'[d] = toServer[d]
  BY PacketInItsTurn DEF HandleDeclare
<1>2. /\ toClient' = [toClient EXCEPT ![c] = Append(@, m)]
      /\ UNCHANGED <<sValue, sRev, sQueue, room, page, connected>>
  BY DEF HandleDeclare
<1>3. GoodPage(h, c)'
  <2>1. Good(h, sRev, c, room, connected, status[c], cValue[c], cRev[c], toServer[c], toClient[c])
    BY DEF Logged, GoodPage
  <2>2. c \in room /\ ~Has(toClient[c], "joined")
    <3>1. Has(toServer[c], "declare")
      BY <1>1, PageTypes, HasTail
    <3> QED  BY <2>1, <3>1 DEF Good, Place
  <2>3. Good(h, sRev, c, room, connected, status[c], cValue[c], cRev[c], Tail(toServer[c]), toClient[c])
    BY <1>1, <2>1, PageTypes, GoodHeard
  <2>4. Good(h, sRev, c, room, connected, status[c], cValue[c], cRev[c],
             Tail(toServer[c]), Append(toClient[c], m))
    BY <1>1, <2>2, <2>3, PageTypes, BoxTypes, ValueIsLast, GoodAnswered
  <2>5. toClient'[c] = Append(toClient[c], m)
    BY <1>2 DEF Typed
  <2> QED  BY <1>1, <1>2, <2>4, <2>5 DEF GoodPage, page
<1>4. ASSUME NEW d \in Clients \ {c} PROVE GoodPage(h, d)'
  BY <1>1, <1>2, SamePage DEF Logged, page, Typed
<1> QED  BY <1>2, <1>3, <1>4 DEF Logged

LEMMA ProposeLogged ==
  ASSUME Typed, NEW h, Logged(h), NEW c \in Clients, HandlePropose(c)
  PROVE  \E g : Logged(g)'
<1> DEFINE msg == Head(toServer[c])
           head == HeadRevision("ack", sValue, sRev)
           answered == IF msg.revision # sRev THEN [toClient EXCEPT ![c] = Append(@, head)] ELSE toClient
           q == msg.operations
<1>1. /\ sQueue = <<>> /\ c \in connected /\ toServer[c] # <<>> /\ msg.type = "propose"
      /\ toServer'[c] = Tail(toServer[c]) /\ \A d \in Clients \ {c} : toServer'[d] = toServer[d]
  BY PacketInItsTurn DEF HandlePropose
<1>2. /\ sValue' = sValue \o q /\ sRev' = sRev + 1 /\ sQueue' = sQueue
      /\ toClient' = Broadcast(answered, Operations(q, sRev + 1))
      /\ UNCHANGED <<room, page, connected>>
  BY DEF HandlePropose
<1>3. q \in Value /\ sRev \in Nat /\ Log(h, sRev) /\ sValue \in Value
  BY <1>1, BoxTypes, RequestKinds DEF Typed, Logged
<1>4. answered \in [Clients -> Seq(Answer)]
      /\ (\A d \in Clients \ {c} : answered[d] = toClient[d])
      /\ answered[c] \in {toClient[c], Append(toClient[c], head)}
  <2>1. Append(toClient[c], head) \in Seq(Answer)
    BY <1>3, BoxTypes, AnswerKinds, AppendProperties
  <2> HIDE DEF head, msg
  <2> QED  BY <2>1 DEF Typed
<1> HIDE DEF msg, q, answered
<1> PICK g : g = Extended(h, sRev, q)
  OBVIOUS
<1>5. Log(g, sRev + 1) /\ g[sRev + 1] = h[sRev] \o q
  BY <1>3, LogExtends
<1>6. sValue = h[sRev] /\ h[sRev] \in Value
  BY <1>1, ValueIsLast
<1>7. sValue' = g[sRev'] \o sQueue'
  <2>1. h[sRev] \o q \in Seq(Nat)
    BY <1>3, <1>6, ConcatProperties DEF Value
  <2>2. (h[sRev] \o q) \o <<>> = h[sRev] \o q
    BY <2>1, ConcatEmptySeq
  <2> QED  BY <1>1, <1>2, <1>5, <1>6, <2>2
<1>8. ASSUME NEW d \in Clients,
             Good(h, sRev, d, room, connected, status[d], cValue[d], cRev[d], toServer'[d], answered[d]),
             toServer'[d] \in Seq(Request)
      PROVE  GoodPage(g, d)'
  <2>1. answered[d] \in Seq(Answer)
    BY <1>4
  <2>2. Good(g, sRev + 1, d, room, connected, status[d], cValue[d], cRev[d], toServer'[d],
             Sent(d, room, answered[d], Operations(q, sRev + 1)))
    BY <1>3, <1>8, <2>1, PageTypes, GoodSent
  <2>3. toClient'[d] = Sent(d, room, answered[d], Operations(q, sRev + 1))
    <3>1. Operations(q, sRev + 1) \in Answer
      BY <1>3, AnswerKinds
    <3> QED  BY <1>2, <1>4, <3>1, BroadcastBoxes
  <2> QED  BY <1>2, <2>2, <2>3 DEF GoodPage, page
<1>9. GoodPage(g, c)'
  <2>1. Good(h, sRev, c, room, connected, status[c], cValue[c], cRev[c], toServer[c], toClient[c])
    BY DEF Logged, GoodPage
  <2>2. Good(h, sRev, c, room, connected, status[c], cValue[c], cRev[c], Tail(toServer[c]), toClient[c])
    BY <1>1, <2>1, PageTypes, GoodHeard
  <2>3. Good(h, sRev, c, room, connected, status[c], cValue[c], cRev[c],
             Tail(toServer[c]), Append(toClient[c], head))
    BY <1>1, <1>3, <1>6, <2>2, PageTypes, BoxTypes, GoodAnswered
  <2>4. Tail(toServer[c]) \in Seq(Request)
    BY <1>1, BoxTypes
  <2> HIDE DEF head
  <2> QED  BY <1>1, <1>4, <1>8, <2>2, <2>3, <2>4
<1>10. ASSUME NEW d \in Clients \ {c} PROVE GoodPage(g, d)'
  <2>1. Good(h, sRev, d, room, connected, status[d], cValue[d], cRev[d], toServer[d], toClient[d])
    BY DEF Logged, GoodPage
  <2> QED  BY <1>1, <1>4, <1>8, <2>1, PageTypes
<1>11. Log(g, sRev')
  BY <1>2, <1>5
<1> QED  BY <1>7, <1>9, <1>10, <1>11 DEF Logged

\* The steps of a page leave the server and the other pages as they are.
PageStep(c) ==
  /\ UNCHANGED <<sValue, sRev, sQueue>>
  /\ \A d \in Clients \ {c} :
       /\ d \in room' <=> d \in room
       /\ d \in connected' <=> d \in connected
       /\ status'[d] = status[d] /\ cValue'[d] = cValue[d] /\ cRev'[d] = cRev[d]
       /\ toServer'[d] = toServer[d] /\ toClient'[d] = toClient[d]

LEMMA PageLogged ==
  ASSUME NEW h, Logged(h), NEW c \in Clients, PageStep(c), GoodPage(h, c)'
  PROVE  Logged(h)'
<1>1. ASSUME NEW d \in Clients \ {c} PROVE GoodPage(h, d)'
  BY SamePage DEF Logged, PageStep
<1> QED  BY <1>1 DEF Logged, PageStep

LEMMA FlushGood ==
  ASSUME Typed, NEW h, NEW c \in Clients, NEW r \in Nat, Flush(c, r),
         NEW st, NEW value, NEW own \in Nat, NEW answers \in Seq(Answer),
         Good(h, sRev, c, room, connected, st, value, own, toServer[c], answers)
  PROVE  /\ Good(h, sRev, c, room, connected, st, value, own, toServer'[c], answers)
         /\ \A d \in Clients \ {c} : toServer'[d] = toServer[d]
<1>1. /\ \A d \in Clients \ {c} : toServer'[d] = toServer[d]
      /\ \/ toServer'[c] = toServer[c]
         \/ toServer'[c] = Append(toServer[c], Propose(cQueue[c], r))
  BY FlushTypes
<1>2. Propose(cQueue[c], r) \in Request /\ Propose(cQueue[c], r).type = "propose"
  BY RequestKinds DEF Typed
<1>3. Good(h, sRev, c, room, connected, st, value, own, Append(toServer[c], Propose(cQueue[c], r)), answers)
  BY <1>2, PageTypes, GoodAsks
<1> QED  BY <1>1, <1>3

LEMMA TimeoutLogged ==
  ASSUME Typed, NEW h, Logged(h), NEW c \in Clients, FlushTimeout(c)
  PROVE  Logged(h)'
<1>1. Flush(c, cRev[c]) /\ UNCHANGED <<server, status, cValue, cRev, connected, toClient>>
  BY DEF FlushTimeout
<1>2. Good(h, sRev, c, room, connected, status[c], cValue[c], cRev[c], toServer[c], toClient[c])
  BY DEF Logged, GoodPage
<1>3. /\ Good(h, sRev, c, room, connected, status[c], cValue[c], cRev[c], toServer'[c], toClient[c])
      /\ \A d \in Clients \ {c} : toServer'[d] = toServer[d]
  BY <1>1, <1>2, PageTypes, FlushGood
<1>4. PageStep(c) /\ GoodPage(h, c)'
  BY <1>1, <1>3 DEF PageStep, GoodPage, server
<1> QED  BY <1>4, PageLogged

LEMMA MessageLogged ==
  ASSUME Typed, Typed', NEW h, Logged(h), NEW c \in Clients, HandleMessage(c)
  PROVE  Logged(h)'
<1> DEFINE m == Head(toClient[c])
<1>1. /\ toClient[c] # <<>> /\ toClient' = [toClient EXCEPT ![c] = Tail(@)]
      /\ UNCHANGED <<server, connected>> /\ m \in Answer /\ Tail(toClient[c]) \in Seq(Answer)
  <2>1. toClient[c] # <<>> /\ toClient' = [toClient EXCEPT ![c] = Tail(@)] /\ UNCHANGED <<server, connected>>
    BY DEF HandleMessage, HandleJoined, HandleDeclared, HandleOperations, HandleAck, Received
  <2> QED  BY <2>1, BoxTypes
<1>2. toClient'[c] = Tail(toClient[c]) /\ \A d \in Clients \ {c} : toClient'[d] = toClient[d]
  BY <1>1 DEF Typed
<1>3. Good(h, sRev, c, room, connected, status[c], cValue[c], cRev[c], toServer[c], toClient[c])
      /\ Log(h, sRev)
  BY DEF Logged, GoodPage
<1> HIDE DEF m
<1>4. CASE HandleJoined(c)
  <2>1. m.type = "joined" /\ toServer' = [toServer EXCEPT ![c] = Append(@, Declare)] /\ UNCHANGED page
    BY <1>4 DEF HandleJoined, Received, m
  <2>2. Good(h, sRev, c, room, connected, status[c], cValue[c], cRev[c],
             Append(toServer[c], Declare), Tail(toClient[c]))
    BY <1>1, <1>3, <2>1, PageTypes, GoodJoined DEF m
  <2>3. toServer'[c] = Append(toServer[c], Declare) /\ \A d \in Clients \ {c} : toServer'[d] = toServer[d]
    BY <2>1 DEF Typed
  <2>4. PageStep(c) /\ GoodPage(h, c)'
    BY <1>1, <1>2, <2>1, <2>2, <2>3 DEF PageStep, GoodPage, server, page
  <2> QED  BY <2>4, PageLogged
<1>5. CASE HandleDeclared(c)
  <2>1. /\ m.type = "declared"
        /\ status' = [status EXCEPT ![c] = "declared"]
        /\ cValue' = [cValue EXCEPT ![c] = m.value] /\ cRev' = [cRev EXCEPT ![c] = m.revision]
        /\ Flush(c, m.revision) \/ toServer' = toServer
    BY <1>5 DEF HandleDeclared, Received, m
  <2>2. m.revision \in Nat
    BY <1>1, <2>1, AnswerKinds
  <2>3. Good(h, sRev, c, room, connected, "declared", m.value, m.revision, toServer[c], Tail(toClient[c]))
    BY <1>1, <1>3, <2>1, PageTypes, GoodDeclared DEF m
  <2>4. /\ Good(h, sRev, c, room, connected, "declared", m.value, m.revision, toServer'[c], Tail(toClient[c]))
        /\ \A d \in Clients \ {c} : toServer'[d] = toServer[d]
    BY <1>1, <2>1, <2>2, <2>3, FlushGood
  <2>5. /\ status'[c] = "declared" /\ cValue'[c] = m.value /\ cRev'[c] = m.revision
        /\ \A d \in Clients \ {c} : status'[d] = status[d] /\ cValue'[d] = cValue[d] /\ cRev'[d] = cRev[d]
    BY <2>1 DEF Typed
  <2>6. PageStep(c) /\ GoodPage(h, c)'
    BY <1>1, <1>2, <2>4, <2>5 DEF PageStep, GoodPage, server
  <2> QED  BY <2>6, PageLogged
<1>6. CASE HandleOperations(c) \/ HandleAck(c)
  <2>1. UNCHANGED <<status, toServer>> /\ m.type \in {"operations", "ack"}
    BY <1>6 DEF HandleOperations, HandleAck, Received, m
  <2>2. \A d \in Clients \ {c} : cValue'[d] = cValue[d] /\ cRev'[d] = cRev[d]
    BY <1>6 DEF HandleOperations, HandleAck, Typed
  <2>3. CASE status[c] # "declared"
    <3>1. m.type # "joined"
      BY <2>1
    <3>2. Good(h, sRev, c, room, connected, status[c], cValue'[c], cRev'[c], toServer[c], Tail(toClient[c]))
      BY <1>1, <1>3, <2>3, <3>1, PageTypes, GoodIgnores DEF m
    <3>3. PageStep(c) /\ GoodPage(h, c)'
      BY <1>1, <1>2, <2>1, <2>2, <3>2 DEF PageStep, GoodPage, server
    <3> QED  BY <3>3, PageLogged
  <2>4. CASE status[c] = "declared"
    <3>1. /\ m.type = "ack" =>
               /\ m.revision = cRev[c]
               /\ Good(h, sRev, c, room, connected, status[c], cValue[c], cRev[c],
                       toServer[c], Tail(toClient[c]))
          /\ m.type = "operations" =>
               /\ m.revision = cRev[c] + 1
               /\ Good(h, sRev, c, room, connected, status[c], cValue[c] \o m.operations, cRev[c] + 1,
                       toServer[c], Tail(toClient[c]))
      BY <1>1, <1>3, <2>4, PageTypes, GoodFollows DEF m
    <3>2. Good(h, sRev, c, room, connected, status[c], cValue'[c], cRev'[c], toServer[c], Tail(toClient[c]))
      <4>1. CASE HandleAck(c)
        <5>1. m.type = "ack" /\ (m.revision = cRev[c] => cValue' = cValue /\ cRev' = cRev)
          BY <4>1 DEF HandleAck, Received, m
        <5> QED  BY <3>1, <5>1
      <4>2. CASE HandleOperations(c)
        <5>1. /\ m.type = "operations"
              /\ m.revision = cRev[c] + 1 =>
                   /\ cValue' = [cValue EXCEPT ![c] = @ \o m.operations]
                   /\ cRev' = [cRev EXCEPT ![c] = m.revision]
          BY <2>4, <4>2 DEF HandleOperations, Received, m
        <5>2. cValue'[c] = cValue[c] \o m.operations /\ cRev'[c] = cRev[c] + 1
          BY <3>1, <5>1 DEF Typed
        <5> QED  BY <3>1, <5>1, <5>2
      <4> QED  BY <1>6, <4>1, <4>2
    <3>3. PageStep(c) /\ GoodPage(h, c)'
      BY <1>1, <1>2, <2>1, <2>2, <3>2 DEF PageStep, GoodPage, server
    <3> QED  BY <3>3, PageLogged
  <2> QED  BY <2>3, <2>4
<1> QED  BY <1>4, <1>5, <1>6 DEF HandleMessage

LEMMA ConnectionLogged ==
  ASSUME Typed, NEW h, Logged(h), NEW c \in Clients, Disconnect(c) \/ Reconnect(c)
  PROVE  Logged(h)'
<1>1. CASE Disconnect(c)
  <2>1. /\ connected' = connected \ {c} /\ room' = room \ {c}
        /\ toServer'[c] = <<>> /\ toClient'[c] = <<>> /\ status'[c] = "undeclared"
        /\ UNCHANGED <<sValue, sRev, sQueue, cValue, cRev>>
        /\ \A d \in Clients \ {c} :
             toServer'[d] = toServer[d] /\ toClient'[d] = toClient[d] /\ status'[d] = status[d]
    BY <1>1 DEF Disconnect, Disconnected
  <2>2. Good(h, sRev, c, room \ {c}, connected \ {c}, "undeclared", cValue[c], cRev[c], <<>>, <<>>)
    BY GoodLost
  <2>3. PageStep(c) /\ GoodPage(h, c)'
    BY <2>1, <2>2 DEF PageStep, GoodPage
  <2> QED  BY <2>3, PageLogged
<1>2. CASE Reconnect(c)
  <2>1. /\ c \notin connected /\ connected' = connected \cup {c}
        /\ toServer'[c] = Append(toServer[c], Join) /\ status'[c] = "declaring"
        /\ UNCHANGED <<server, cValue, cRev, toClient>>
        /\ \A d \in Clients \ {c} : toServer'[d] = toServer[d] /\ status'[d] = status[d]
    BY <1>2 DEF Reconnect, Typed
  <2>2. Good(h, sRev, c, room, connected, status[c], cValue[c], cRev[c], toServer[c], toClient[c])
    BY DEF Logged, GoodPage
  <2>3. Good(h, sRev, c, room, connected \cup {c}, "declaring", cValue[c], cRev[c],
             Append(toServer[c], Join), toClient[c])
    BY <2>1, <2>2, PageTypes, GoodReturns
  <2>4. PageStep(c) /\ GoodPage(h, c)'
    BY <2>1, <2>3 DEF PageStep, GoodPage, server
  <2> QED  BY <2>4, PageLogged
<1> QED  BY <1>1, <1>2

LEMMA StutterLogged ==
  ASSUME NEW h, Logged(h), UNCHANGED <<server, net, status, cValue, cRev>>
  PROVE  Logged(h)'
<1>1. \A d \in Clients : GoodPage(h, d)'
  BY SamePage DEF Logged, server, net
<1> QED  BY <1>1 DEF Logged, server

-----------------------------------------------------------------------------

LEMMA InitInvariant == Init => IInv
<1> SUFFICES ASSUME Init PROVE IInv
  OBVIOUS
<1>1. Typed
  BY TypedInit
<1> PICK h : h = [r \in 0..0 |-> <<>>]
  OBVIOUS
<1>2. <<>> \in Seq(Nat) /\ <<>> \o <<>> = <<>>
  <2>1. <<>> \in Seq(Nat)
    BY EmptySeq
  <2> QED  BY <2>1, ConcatEmptySeq
<1>3. Log(h, 0) /\ h[0] = <<>>
  <2>1. \A p \in 0..0 : h[p] = <<>>
    OBVIOUS
  <2>2. h \in [0..0 -> Value]
    BY <1>2 DEF Value
  <2> QED  BY <2>1, <2>2, <1>2, EmptySeq DEF Log, Begins
<1>4. ASSUME NEW c \in Clients PROVE GoodPage(h, c)
  <2>1. /\ toServer[c] = <<Join>> /\ toClient[c] = <<>> /\ status[c] = "declaring"
        /\ c \in connected /\ c \notin room
    BY DEF Init
  <2>2. ~Has(<<Join>>, "declare") /\ Once(<<Join>>, "join")
    BY DEF Has, Once, Join
  <2>3. Place(c, room, connected, status[c], toServer[c], toClient[c])
    BY <2>1, <2>2, HasNone DEF Place
  <2> QED  BY <2>1, <2>3 DEF GoodPage, Good
<1>5. Logged(h)
  BY <1>2, <1>3, <1>4 DEF Logged, Init
<1> QED  BY <1>1, <1>5 DEF IInv

LEMMA StepInvariant ==
  ASSUME ~Batches, IInv, [Next]_vars
  PROVE  IInv'
<1>1. Typed /\ \E h : Logged(h)
  BY DEF IInv
<1>2. Typed'
  <2>1. CASE UNCHANGED vars
    BY <1>1, <2>1 DEF vars, server, page, net, Typed
  <2> QED  BY <1>1, <2>1, TypedServer, TypedPacket, TypedPage DEF Next
<1>3. PICK h : Logged(h)
  BY <1>1
<1>4. CASE \E w \in Clients \cup {NoClient} : ServerSet(w)
  BY <1>1, <1>2, <1>3, <1>4, SetLogged DEF IInv
<1>5. CASE ServerFlush
  BY <1>1, <1>2, <1>3, <1>5, FlushLogged DEF IInv
<1>6. CASE ServerRestart
  BY <1>1, <1>2, <1>3, <1>6, RestartLogged DEF IInv
<1>7. CASE \E c \in Clients : HandlePacket(c)
  BY <1>1, <1>2, <1>3, <1>7, JoinLogged, DeclareLogged, ProposeLogged DEF IInv, HandlePacket
<1>8. CASE \E c \in Clients : HandleMessage(c)
  BY <1>1, <1>2, <1>3, <1>8, MessageLogged DEF IInv
<1>9. CASE \E c \in Clients : Disconnect(c) \/ Reconnect(c)
  BY <1>1, <1>2, <1>3, <1>9, ConnectionLogged DEF IInv
<1>10. CASE \E c \in Clients : FlushTimeout(c)
  BY <1>1, <1>2, <1>3, <1>10, TimeoutLogged DEF IInv
<1>11. CASE (\E c \in Clients : PageSet(c)) \/ UNCHANGED vars
  <2>1. UNCHANGED <<server, net, status, cValue, cRev>>
    BY <1>11 DEF PageSet, vars, page
  <2>2. Logged(h)'
    BY <1>3, <2>1, StutterLogged
  <2> QED  BY <1>2, <2>2 DEF IInv
<1> QED  BY <1>4, <1>5, <1>6, <1>7, <1>8, <1>9, <1>10, <1>11 DEF Next

LEMMA Invariant == ASSUME ~Batches PROVE Spec => []IInv
<1>1. IInv /\ [Next]_vars => IInv'
  BY StepInvariant
<1> QED  BY <1>1, InitInvariant, PTL DEF Spec

\* A page's revision is in the server's log, so its value begins the server's.
LEMMA PrefixOfLog == IInv => PageIsPrefix
<1> SUFFICES ASSUME Typed, NEW h, Logged(h), NEW c \in Clients, status[c] = "declared"
             PROVE  IsPrefix(cValue[c], sValue)
  BY DEF IInv, PageIsPrefix
<1>1. /\ cRev[c] \in 0..sRev /\ cValue[c] = h[cRev[c]] /\ Log(h, sRev)
      /\ sValue = h[sRev] \o sQueue
  BY DEF Logged, GoodPage, Good
<1>2. sRev \in Nat /\ h[cRev[c]] \in Value /\ h[sRev] \in Value /\ sQueue \in Value /\ sValue \in Value
  BY <1>1 DEF Log, Typed
<1>3. Begins(h[cRev[c]], h[sRev])
  BY <1>1, <1>2 DEF Log
<1>4. /\ Len(sValue) = Len(h[sRev]) + Len(sQueue)
      /\ \A i \in 1..Len(h[sRev]) + Len(sQueue) : sValue[i] =
            IF i <= Len(h[sRev]) THEN h[sRev][i] ELSE sQueue[i - Len(h[sRev])]
      /\ Len(h[sRev]) \in Nat /\ Len(sQueue) \in Nat /\ Len(h[cRev[c]]) \in Nat
  BY <1>1, <1>2, ConcatProperties, LenProperties DEF Value
<1>5. Begins(h[cRev[c]], sValue)
  BY <1>3, <1>4 DEF Begins
<1> QED  BY <1>1, <1>2, <1>5, BeginsIsPrefix

\* A declared page holds a value of the server's, its operations in their
\* order, through proposals at once, lost connections and restarts
\* (replicator.ts:274-310, client/api/replicant.ts).
THEOREM PagesHoldPrefixes == ASSUME ~Batches PROVE Spec => []PageIsPrefix
BY PrefixOfLog, Invariant, PTL

\* A declared page is sent the operations of the revision after its own first:
\* it never has to fetch the value anew (client/api/replicant.ts:415-437).
THEOREM NoGaps == ASSUME ~Batches PROVE Spec => []NoRevisionGap
<1>1. IInv => NoRevisionGap
  <2> SUFFICES ASSUME Typed, NEW h, Logged(h), NEW c \in Clients, NEW i \in DOMAIN toClient[c],
                      status[c] = "declared", toClient[c][i].type = "operations",
                      \A j \in 1..i-1 : toClient[c][j].type # "operations"
               PROVE  toClient[c][i].revision = cRev[c] + 1
    BY DEF IInv, NoRevisionGap
  <2>1. Starts(toClient[c], cRev[c], sRev)
    BY DEF Logged, GoodPage, Good, Place
  <2>2. i \in 1..Len(toClient[c]) /\ NoOperations(toClient[c], 1, i - 1)
    BY PageTypes, LenProperties DEF NoOperations
  <2> QED  BY <2>1, <2>2 DEF Starts, Leads
<1> QED  BY <1>1, Invariant, PTL

\* A page with nothing on its way is at the end of the log.
LEMMA DrainedAtEnd == IInv => DrainedIsInSync
<1> SUFFICES ASSUME Typed, NEW h, Logged(h), NEW c \in Clients,
                    status[c] = "declared", toClient[c] = <<>>, sQueue = <<>>
             PROVE  cValue[c] = sValue /\ cRev[c] = sRev
  BY DEF IInv, DrainedIsInSync
<1>1. Starts(toClient[c], cRev[c], sRev) /\ cValue[c] = h[cRev[c]]
  BY DEF Logged, GoodPage, Good, Place
<1>2. NoOperations(toClient[c], 1, Len(toClient[c]))
  BY DEF NoOperations
<1>3. cRev[c] = sRev
  BY <1>1, <1>2 DEF Starts
<1> QED  BY <1>1, <1>3, ValueIsLast

\* A declared page with nothing left to receive holds the server's value at the
\* server's revision (scheduler.ts:12).
THEOREM DrainedPagesAgree == ASSUME ~Batches PROVE Spec => []DrainedIsInSync
BY DrainedAtEnd, Invariant, PTL

-----------------------------------------------------------------------------
(* The replicant with its row *)

\* Whatever the row does, the server and the pages do as in ReplicantSync, so all
\* that is proved of them holds of the whole.
THEOREM ReplicantsSynchronise == ReplicantsSpec => Init /\ [][Next]_vars
<1>1. ReplicantsInit => Init
  BY DEF ReplicantsInit
<1>2. [ReplicantsNext]_allVars => [Next]_vars
  BY DEF ReplicantsNext, Elsewhere, Next, HandlePacket, allVars
<1> QED  BY <1>1, <1>2, PTL DEF ReplicantsSpec

\* Every declared page holds the server's operations in their order, and all of them
\* when nothing is on its way, though the server restarts on a row that may be old.
THEOREM WholePagesAgree == ASSUME ~Batches PROVE ReplicantsSpec => []PagesAgree
<1>1. IInv /\ [Next]_vars => IInv'
  BY StepInvariant
<1>2. IInv => PagesAgree
  BY PrefixOfLog, DrainedAtEnd DEF PagesAgree
<1> QED  BY <1>1, <1>2, InitInvariant, ReplicantsSynchronise, PTL

\* What a save writes is the value, unless it has noted a change, or missed one, or
\* a change is still to be asked for.
UnchangedIsCaptured ==
  sQueue = <<>> /\ save = "writing" /\ captured # Len(sValue) => changed \/ missed \/ throttle = "queued"

LEMMA RowStep ==
  ASSUME UnchangedIsCaptured, QuietRowIsValue, [ReplicantsNext]_allVars
  PROVE  UnchangedIsCaptured' /\ QuietRowIsValue'
<1> USE DEF UnchangedIsCaptured, QuietRowIsValue, Row!UnsavedWasMissed
<1>1. CASE RowChanged
  <2>1. PICK noted \in BOOLEAN : Row!Changed(noted)
    BY <1>1 DEF RowChanged
  <2>2. CASE throttle = "open"
    <3>1. /\ save' = IF save = "none" THEN "opening" ELSE save
          /\ missed' = (missed \/ (save = "writing" /\ captured # Len(sValue)' /\ ~changed'))
          /\ captured' = captured
      BY <2>1, <2>2 DEF Row!Changed, Row!SaveReplicant
    <3>2. save' # "none"
      BY <3>1
    <3>3. save' = "writing" /\ captured' # Len(sValue)' => changed' \/ missed'
      BY <3>1
    <3> QED  BY <3>2, <3>3
  <2>3. CASE throttle # "open"
    <3>1. throttle' = "queued"
      BY <2>1, <2>3 DEF Row!Changed
    <3> QED  BY <3>1
  <2> QED  BY <2>2, <2>3
<1>2. CASE \E w \in Clients \cup {NoClient} : ServerSet(w)
  <2>1. sQueue' # <<>>
    BY <1>2 DEF ServerSet
  <2> QED  BY <2>1
<1>3. CASE Row!Crash
  BY <1>3 DEF Row!Crash
<1>4. CASE \E c \in Clients : Elsewhere(c) /\ UNCHANGED row
  <2>1. UNCHANGED <<sValue, sQueue>> /\ UNCHANGED row
    BY <1>4 DEF Elsewhere, PageSet, FlushTimeout, HandleJoin, HandleDeclare, HandleMessage, HandleJoined,
                HandleDeclared, HandleOperations, HandleAck, Disconnect, Reconnect, server
  <2> QED  BY <2>1 DEF row
<1>5. CASE UNCHANGED vars /\ Row!ThrottleTimeout
  <2>1. UNCHANGED <<sValue, sQueue>>
    BY <1>5 DEF vars, server
  <2> QED  BY <1>5, <2>1 DEF Row!ThrottleTimeout, Row!SaveReplicant
<1>6. CASE UNCHANGED vars /\ (Row!Capture \/ Row!Written \/ Row!WriteFails)
  BY <1>6 DEF vars, server, Row!Capture, Row!Written, Row!WriteFails
<1>7. CASE UNCHANGED allVars
  BY <1>7 DEF allVars, vars, server, row
<1> QED  BY <1>1, <1>2, <1>3, <1>4, <1>5, <1>6, <1>7 DEF ReplicantsNext

\* With nothing to flush and no save under way the row is the value, for any pages,
\* changes, crashes and values, unless the database refused it or a save that was
\* writing an older value missed the change (database-adapter.ts:192).
THEOREM QuietRow == ReplicantsSpec => []QuietRowIsValue
<1>1. ReplicantsInit => UnchangedIsCaptured /\ QuietRowIsValue
  BY DEF ReplicantsInit, Init, Row!Init, UnchangedIsCaptured, QuietRowIsValue, Row!UnsavedWasMissed
<1>2. (UnchangedIsCaptured /\ QuietRowIsValue) /\ [ReplicantsNext]_allVars
        => (UnchangedIsCaptured /\ QuietRowIsValue)'
  BY RowStep
<1> QED  BY <1>1, <1>2, PTL DEF ReplicantsSpec

-----------------------------------------------------------------------------
(* The saves of a replicant, for any number of changes *)

\* The row is never ahead of the value, nor of the value being written.
InOrder ==
  /\ db <= current
  /\ save = "writing" => db <= captured /\ captured <= current

\* A save writes the value, unless it has noted a change, or missed one, or a change
\* is still to be asked for.
NoChangeSince == save = "writing" /\ captured # current => changed \/ missed \/ throttle = "queued"

SaveNumbers == current \in 0..MaxChanges /\ db \in 0..MaxChanges /\ captured \in 0..MaxChanges
SaveSteps == throttle \in {"open", "closed", "queued"} /\ save \in {"none", "opening", "writing"}
SaveFlags == changed \in BOOLEAN /\ failed \in BOOLEAN /\ missed \in BOOLEAN

LEMMA NumbersStep == ASSUME MaxChanges \in Nat PROVE SaveNumbers /\ [Save!Next]_(Save!vars) => SaveNumbers'
BY DEF SaveNumbers, Save!Next, Save!vars, Save!Change, Save!Changed, Save!ThrottleTimeout,
      Save!Capture, Save!Written, Save!WriteFails, Save!Crash

LEMMA StatesStep == SaveSteps /\ [Save!Next]_(Save!vars) => SaveSteps'
BY DEF SaveSteps, Save!Next, Save!vars, Save!Change, Save!Changed, Save!SaveReplicant, Save!ThrottleTimeout,
      Save!Capture, Save!Written, Save!WriteFails, Save!Crash

LEMMA RequestFlags ==
  ASSUME SaveFlags, changed' \in BOOLEAN, failed' = failed, Save!SaveReplicant \/ missed' = missed
  PROVE  SaveFlags'
BY Zenon DEF SaveFlags, Save!SaveReplicant

LEMMA FlagsStep == SaveFlags /\ [Save!Next]_(Save!vars) => SaveFlags'
<1> SUFFICES ASSUME SaveFlags, [Save!Next]_(Save!vars) PROVE SaveFlags'
  OBVIOUS
<1>1. CASE Save!Change
  <2>1. PICK noted \in BOOLEAN : Save!Changed(noted)
    BY <1>1, Zenon DEF Save!Change
  <2>2. changed' = (changed \/ (save = "writing" /\ noted)) /\ failed' = failed
    BY <2>1, Zenon DEF Save!Changed
  <2>3. changed' \in BOOLEAN
    BY <2>2, Zenon DEF SaveFlags
  <2>4. Save!SaveReplicant \/ missed' = missed
    BY <2>1, Zenon DEF Save!Changed
  <2> QED  BY <2>2, <2>3, <2>4, RequestFlags, Zenon
<1>2. CASE Save!ThrottleTimeout
  <2>1. changed' = changed /\ failed' = failed
    BY <1>2, Zenon DEF Save!ThrottleTimeout
  <2>2. Save!SaveReplicant \/ missed' = missed
    BY <1>2, Zenon DEF Save!ThrottleTimeout
  <2>3. changed' \in BOOLEAN
    BY <2>1, Zenon DEF SaveFlags
  <2> QED  BY <2>1, <2>2, <2>3, RequestFlags, Zenon
<1>3. CASE Save!Capture \/ Save!Written \/ Save!WriteFails \/ Save!Crash
  BY <1>3, Zenon DEF SaveFlags, Save!Capture, Save!Written, Save!WriteFails, Save!Crash
<1>4. CASE UNCHANGED Save!vars
  BY <1>4 DEF SaveFlags, Save!vars
<1> QED  BY <1>1, <1>2, <1>3, <1>4, Zenon DEF Save!Next

\* The steps of a save stay steps of a save.
THEOREM SaveTypeCorrect == ASSUME MaxChanges \in Nat PROVE Save!Spec => []Save!TypeOK
<1>1. Save!Init => SaveNumbers /\ SaveSteps
  BY DEF Save!Init, SaveNumbers, SaveSteps
<1>2. Save!Init => SaveFlags
  BY Zenon DEF Save!Init, SaveFlags
<1>3. Save!TypeOK <=> SaveNumbers /\ SaveSteps /\ SaveFlags
  BY Zenon DEF Save!TypeOK, SaveNumbers, SaveSteps, SaveFlags
<1> QED  BY <1>1, <1>2, <1>3, NumbersStep, StatesStep, FlagsStep, PTL DEF Save!Spec

LEMMA OrderStep == Save!TypeOK /\ InOrder /\ [Save!Next]_(Save!vars) => InOrder'
<1> SUFFICES ASSUME Save!TypeOK, InOrder, [Save!Next]_(Save!vars) PROVE InOrder'
  OBVIOUS
<1> USE DEF Save!TypeOK, InOrder
<1>1. CASE Save!Change
  BY <1>1 DEF Save!Change, Save!Changed, Save!SaveReplicant
<1>2. CASE Save!ThrottleTimeout
  BY <1>2 DEF Save!ThrottleTimeout, Save!SaveReplicant
<1>3. CASE Save!Capture
  BY <1>3 DEF Save!Capture
<1>4. CASE Save!Written \/ Save!WriteFails \/ Save!Crash \/ UNCHANGED Save!vars
  BY <1>4 DEF Save!Written, Save!WriteFails, Save!Crash, Save!vars
<1> QED  BY <1>1, <1>2, <1>3, <1>4 DEF Save!Next

\* Through refused saves, changes during a save and crashes, the row is only
\* ever replaced by a younger value, whatever kind of value it is.
THEOREM RowNeverGoesBack == ASSUME MaxChanges \in Nat PROVE Save!Spec => Save!NeverBackwards
<1>1. Save!Init => InOrder
  BY DEF Save!Init, InOrder
<1>2. Save!TypeOK /\ InOrder /\ [Save!Next]_(Save!vars) => [db' >= db]_(Save!vars)
  BY DEF Save!TypeOK, InOrder, Save!Next, Save!Change, Save!Changed, Save!ThrottleTimeout,
      Save!Capture, Save!Written, Save!WriteFails, Save!Crash
<1> QED  BY <1>1, <1>2, OrderStep, SaveTypeCorrect, PTL DEF Save!Spec, Save!NeverBackwards

LEMMA QuietStep ==
  ASSUME Save!TypeOK, NoChangeSince, Save!UnsavedWasMissed, [Save!Next]_(Save!vars)
  PROVE  NoChangeSince' /\ Save!UnsavedWasMissed'
<1> USE DEF Save!TypeOK, NoChangeSince, Save!UnsavedWasMissed
<1>1. CASE Save!Change
  <2>1. PICK noted \in BOOLEAN : Save!Changed(noted)
    BY <1>1 DEF Save!Change
  <2>2. CASE throttle = "open"
    <3>1. /\ save' = IF save = "none" THEN "opening" ELSE save
          /\ missed' = (missed \/ (save = "writing" /\ captured # current' /\ ~changed'))
          /\ captured' = captured
      BY <2>1, <2>2 DEF Save!Changed, Save!SaveReplicant
    <3> QED  BY <3>1
  <2>3. CASE throttle # "open"
    <3>1. throttle' = "queued"
      BY <2>1, <2>3 DEF Save!Changed
    <3> QED  BY <3>1
  <2> QED  BY <2>2, <2>3
<1>2. CASE Save!ThrottleTimeout
  BY <1>2 DEF Save!ThrottleTimeout, Save!SaveReplicant
<1>3. CASE Save!Capture
  BY <1>3 DEF Save!Capture
<1>4. CASE Save!Written
  BY <1>4 DEF Save!Written
<1>5. CASE Save!WriteFails \/ Save!Crash \/ UNCHANGED Save!vars
  BY <1>5 DEF Save!WriteFails, Save!Crash, Save!vars
<1> QED  BY <1>1, <1>2, <1>3, <1>4, <1>5 DEF Save!Next

\* Of any value, when nothing is under way and the row is not the value, the database
\* refused it or a save that was writing an older value missed the change.
THEOREM UnsavedValueWasMissed == ASSUME MaxChanges \in Nat PROVE Save!Spec => []Save!UnsavedWasMissed
<1>1. Save!Init => NoChangeSince /\ Save!UnsavedWasMissed
  BY DEF Save!Init, NoChangeSince, Save!UnsavedWasMissed
<1>2. Save!TypeOK /\ (NoChangeSince /\ Save!UnsavedWasMissed) /\ [Save!Next]_(Save!vars)
        => (NoChangeSince /\ Save!UnsavedWasMissed)'
  BY QuietStep
<1> QED  BY <1>1, <1>2, SaveTypeCorrect, PTL DEF Save!Spec
=============================================================================
