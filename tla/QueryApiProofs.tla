--------------------------- MODULE QueryApiProofs ---------------------------
(***************************************************************************)
(* Paging, totals and the stop of the front ends, for any number of        *)
(* clients, rows, page sizes and inserts.                                  *)
(***************************************************************************)
EXTENDS QueryApi, FiniteSetTheorems, TLAPS

-----------------------------------------------------------------------------
(* What one page can be.                                                   *)

\* The rows in front of x, in either order.
InFront(l, M, x) == {r \in M : IF l = "klines" THEN r.at < x.at ELSE r.at > x.at}
Ahead(M, x) == InFront(list, M, x)

\* No other row has the time of x.
Alone(M, x) == \A s \in M : s.at = x.at => s = x

Least(m, n) == IF m < n THEN m ELSE n

LEMMA HeadFacts ==
  ASSUME NEW M, IsFiniteSet(M), NEW n \in Nat, NEW H \in Heads(M, n)
  PROVE  /\ H \subseteq M /\ IsFiniteSet(H)
         /\ Cardinality(H) \in Nat /\ Cardinality(M) \in Nat
         /\ Cardinality(H) = Least(n, Cardinality(M))
         /\ \A h \in H, r \in M : Precedes(r, h) => r \in H
<1>1. H \subseteq M /\ Cardinality(H) = Least(n, Cardinality(M))
      /\ \A h \in H, r \in M : Precedes(r, h) => r \in H
  BY DEF Heads, Least
<1>2. IsFiniteSet(H)
  BY <1>1, FS_Subset
<1> QED BY <1>1, <1>2, FS_CardinalityType

\* A page has no more rows than were asked for, and fewer only when it is the
\* end of the list.
LEMMA PageFacts ==
  ASSUME NEW M, IsFiniteSet(M), NEW page \in Nat \ {0}, NEW size \in Nat \ {0},
         NEW P \in PageOf(M, page, size)
  PROVE  /\ P \subseteq M /\ Cardinality(P) \in Nat /\ Cardinality(M) \in Nat
         /\ Cardinality(P) <= size
         /\ Cardinality(P) >= Least(Cardinality(M) - (page - 1) * size, size)
<1> DEFINE a == (page - 1) * size
           b == page * size
           m == Cardinality(M)
<1>1. a \in Nat /\ b \in Nat /\ b = a + size
  <2>1. page - 1 \in Nat
    OBVIOUS
  <2>2. (page - 1 + 1) * size = (page - 1) * size + size
    BY <2>1
  <2> QED BY <2>1, <2>2
<1>2. PICK H \in Heads(M, a), L \in Heads(M, b) : H \subseteq L /\ P = L \ H
  BY DEF PageOf
<1>3. Cardinality(H) = Least(a, m) /\ H \subseteq M
  BY <1>1, HeadFacts
<1>4. Cardinality(L) = Least(b, m) /\ IsFiniteSet(L) /\ L \subseteq M /\ m \in Nat
  BY <1>1, HeadFacts
<1>5. L \cap H = H
  BY <1>2
<1>6. Cardinality(P) = Least(b, m) - Least(a, m)
  <2>1. Cardinality(L \ H) = Cardinality(L) - Cardinality(L \cap H)
    BY <1>4, FS_Difference
  <2>2. Cardinality(P) = Cardinality(L) - Cardinality(H)
    BY <1>2, <1>5, <2>1
  <2> QED BY <1>3, <1>4, <2>2
<1>7. P \subseteq M
  BY <1>2, <1>4
<1> HIDE DEF a, b, m
<1>8. Cardinality(P) \in Nat /\ Cardinality(P) <= size /\ Cardinality(P) >= Least(m - a, size)
  BY <1>1, <1>4, <1>6 DEF Least
<1> QED BY <1>4, <1>7, <1>8 DEF a, m

\* A row with no other of its time that is not in front of the page is in it,
\* or behind it and the page is full.
LEMMA PageAhead ==
  ASSUME NEW M, IsFiniteSet(M), M \subseteq Row,
         NEW page \in Nat \ {0}, NEW size \in Nat \ {0},
         NEW P \in PageOf(M, page, size),
         NEW x \in M, Alone(M, x), x \notin P,
         Cardinality(Ahead(M, x)) >= (page - 1) * size
  PROVE  Cardinality(Ahead(M, x)) >= page * size /\ Cardinality(P) = size
<1> DEFINE a == (page - 1) * size
           b == page * size
           m == Cardinality(M)
           A == Ahead(M, x)
<1>1. a \in Nat /\ b \in Nat /\ b = a + size
  <2>1. page - 1 \in Nat
    OBVIOUS
  <2>2. (page - 1 + 1) * size = (page - 1) * size + size
    BY <2>1
  <2> QED BY <2>1, <2>2
<1>2. PICK H \in Heads(M, a), L \in Heads(M, b) : H \subseteq L /\ P = L \ H
  BY DEF PageOf
<1>3. /\ Cardinality(H) = Least(a, m) /\ H \subseteq M /\ IsFiniteSet(H)
      /\ \A h \in H, r \in M : Precedes(r, h) => r \in H
  BY <1>1, HeadFacts
<1>4. /\ Cardinality(L) = Least(b, m) /\ IsFiniteSet(L) /\ L \subseteq M /\ m \in Nat
      /\ \A h \in L, r \in M : Precedes(r, h) => r \in L
  BY <1>1, HeadFacts
<1>5. A \subseteq M /\ IsFiniteSet(A) /\ Cardinality(A) \in Nat
  <2>1. A \subseteq M
    BY DEF Ahead, InFront
  <2> QED BY <2>1, FS_Subset, FS_CardinalityType
<1>6. x \notin A
  <2>1. x.at \in Nat
    BY QueryAssumption DEF Row
  <2> QED BY <2>1 DEF Ahead, InFront, Precedes
<1>7. x \notin H
  <2> SUFFICES ASSUME x \in H PROVE FALSE
    OBVIOUS
  <2>1. A \cup {x} \subseteq H
    BY <1>3 DEF Ahead, InFront, Precedes
  <2>2. Cardinality(A \cup {x}) = Cardinality(A) + 1
    BY <1>5, <1>6, FS_AddElement
  <2>3. Cardinality(A \cup {x}) <= Cardinality(H)
    BY <1>3, <2>1, FS_Subset
  <2>4. Cardinality(A) >= a
    OBVIOUS
  <2> HIDE DEF a, A, m
  <2> QED BY <1>1, <1>3, <1>4, <1>5, <2>2, <2>3, <2>4 DEF Least
<1>8. x \notin L
  BY <1>2, <1>7
<1>9. L \subseteq A
  <2> SUFFICES ASSUME NEW l \in L PROVE Precedes(l, x)
    BY <1>4 DEF Ahead, InFront, Precedes
  <2>1. l \in M /\ l # x /\ l.at # x.at /\ l.at \in Nat /\ x.at \in Nat
    BY <1>4, <1>8, QueryAssumption DEF Alone, Row
  <2>2. Precedes(l, x) \/ Precedes(x, l)
    BY <2>1 DEF Precedes
  <2> QED BY <1>4, <1>8, <2>2
<1>10. Cardinality(L) <= Cardinality(A)
  BY <1>5, <1>9, FS_Subset
<1>11. L # M
  BY <1>8
<1>12. Cardinality(L) # m
  BY <1>4, <1>11, FS_Subset
<1>13. Cardinality(P) >= Least(m - a, size) /\ Cardinality(P) \in Nat /\ Cardinality(P) <= size
  BY PageFacts
<1> HIDE DEF a, b, m, A
<1>14. Cardinality(L) = b /\ b < m
  BY <1>1, <1>4, <1>12 DEF Least
<1>15. Cardinality(P) = size
  BY <1>1, <1>4, <1>13, <1>14 DEF Least
<1> QED BY <1>5, <1>10, <1>14, <1>15 DEF A, b

-----------------------------------------------------------------------------
(* Types.                                                                  *)

FiniteRows == IsFiniteSet(rows)

LEMMA MatchingFacts ==
  ASSUME FiniteRows, NEW q
  PROVE  Matching(q) \subseteq rows /\ IsFiniteSet(Matching(q)) /\ Cardinality(Matching(q)) \in Nat
<1>1. Matching(q) \subseteq rows
  BY DEF Matching
<1> QED BY <1>1, FS_Subset, FS_CardinalityType DEF FiniteRows

Stages == {"new", "idle", "count", "page", "done", "cut"}

\* The two halves of a session's change, and their fields.
Got(s, an) == [s EXCEPT !.stage = "idle", !.total = 0, !.answer = an]
Shown(t, st, P) == [t EXCEPT !.stage = st, !.seen = t.seen \cup P]

LEMMA GotFacts ==
  ASSUME NEW s \in Session, NEW an \in Answer
  PROVE  LET t == Got(s, an) IN
         /\ t \in Session
         /\ t.stage = "idle" /\ t.answer = an
         /\ t.req = s.req /\ t.page = s.page /\ t.size = s.size
         /\ t.seen = s.seen /\ t.owed = s.owed
<1>1. /\ s.req \in AnyRequest /\ s.page \in 1 .. MaxPage /\ s.size \in Nat \ {0}
      /\ s.seen \in SUBSET Row /\ s.owed \in SUBSET Row
      /\ s = [stage |-> s.stage, req |-> s.req, page |-> s.page, size |-> s.size,
              total |-> s.total, answer |-> s.answer, seen |-> s.seen, owed |-> s.owed]
  BY DEF Session
<1> SUFFICES ASSUME NEW t, t = [s EXCEPT !.stage = "idle", !.total = 0, !.answer = an]
             PROVE  /\ t \in Session
                    /\ t.stage = "idle" /\ t.answer = an
                    /\ t.req = s.req /\ t.page = s.page /\ t.size = s.size
                    /\ t.seen = s.seen /\ t.owed = s.owed
  BY DEF Got
<1>2. t = [stage |-> "idle", req |-> s.req, page |-> s.page, size |-> s.size,
           total |-> 0, answer |-> an, seen |-> s.seen, owed |-> s.owed]
  BY <1>1
<1> QED BY <1>1, <1>2 DEF Session

LEMMA ShownFacts ==
  ASSUME NEW t \in Session, NEW P \in SUBSET Row, NEW st \in Stages
  PROVE  LET u == Shown(t, st, P) IN
         /\ u \in Session
         /\ u.stage = st /\ u.seen = t.seen \cup P
         /\ u.req = t.req /\ u.page = t.page /\ u.size = t.size
         /\ u.answer = t.answer /\ u.owed = t.owed
<1>1. /\ t.req \in AnyRequest /\ t.page \in 1 .. MaxPage /\ t.size \in Nat \ {0}
      /\ t.total \in Nat /\ t.answer \in Answer
      /\ t.seen \in SUBSET Row /\ t.owed \in SUBSET Row
      /\ t = [stage |-> t.stage, req |-> t.req, page |-> t.page, size |-> t.size,
              total |-> t.total, answer |-> t.answer, seen |-> t.seen, owed |-> t.owed]
  BY DEF Session
<1> SUFFICES ASSUME NEW u, u = [t EXCEPT !.stage = st, !.seen = t.seen \cup P]
             PROVE  /\ u \in Session
                    /\ u.stage = st /\ u.seen = t.seen \cup P
                    /\ u.req = t.req /\ u.page = t.page /\ u.size = t.size
                    /\ u.answer = t.answer /\ u.owed = t.owed
  BY DEF Shown
<1>2. u = [stage |-> st, req |-> t.req, page |-> t.page, size |-> t.size,
           total |-> t.total, answer |-> t.answer, seen |-> t.seen \cup P, owed |-> t.owed]
  BY <1>1
<1>3. t.seen \cup P \in SUBSET Row
  BY <1>1
<1> QED BY <1>1, <1>2, <1>3 DEF Session, Stages

\* What fetching a page leaves of a session.
LEMMA FetchFacts ==
  ASSUME TypeOK, FiniteRows, NEW c \in Clients, FetchPage(c)
  PROVE  \E P \in PageOf(Matching(session[c].req), session[c].page, session[c].size) :
            /\ session' = [session EXCEPT ![c] = session'[c]]
            /\ session'[c] \in Session
            /\ session'[c].stage = IF Cardinality(P) < session[c].size THEN "done" ELSE "idle"
            /\ session'[c].req = session[c].req /\ session'[c].page = session[c].page
            /\ session'[c].size = session[c].size /\ session'[c].owed = session[c].owed
            /\ session'[c].answer = [code |-> 200, total |-> session[c].total, items |-> P]
            /\ session'[c].seen = session[c].seen \cup P
            /\ P \subseteq rows
            /\ Cardinality(P) <= session[c].size
<1> DEFINE s == session[c]
           M == Matching(s.req)
<1>1. s \in Session
  BY DEF TypeOK
<1>2. PICK P \in PageOf(M, s.page, s.size) :
         session' = [session EXCEPT ![c] =
              [Answered(c, 200, s.total, P) EXCEPT
                  !.stage = IF Cardinality(P) < s.size THEN "done" ELSE "idle",
                  !.seen = @ \cup P]]
  BY DEF FetchPage
<1>3. s.page \in Nat \ {0} /\ s.size \in Nat \ {0}
  BY <1>1 DEF Session
<1>4. P \subseteq M /\ Cardinality(P) <= s.size
  BY <1>3, MatchingFacts, PageFacts
<1>5. P \subseteq rows /\ rows \subseteq Row
  BY <1>4, MatchingFacts DEF TypeOK
<1> DEFINE an == [code |-> 200, total |-> s.total, items |-> P]
           st == IF Cardinality(P) < s.size THEN "done" ELSE "idle"
           A == Got(s, an)
<1>6. session'[c] = Shown(A, st, P)
  BY <1>2 DEF TypeOK, Answered, Got, Shown
<1>7. session' = [session EXCEPT ![c] = session'[c]]
  BY <1>2 DEF TypeOK
<1>8. an \in Answer
  <2>1. s.total \in Nat /\ P \in SUBSET Row
    BY <1>1, <1>5 DEF Session
  <2> QED BY <2>1 DEF Answer
<1>9. st \in Stages
  BY DEF Stages
<1> HIDE DEF s, M, an, st
<1>10. /\ A \in Session
       /\ A.stage = "idle" /\ A.answer = an
       /\ A.req = s.req /\ A.page = s.page /\ A.size = s.size
       /\ A.seen = s.seen /\ A.owed = s.owed
  BY <1>1, <1>8, GotFacts
<1> HIDE DEF A
<1>11. /\ session'[c] \in Session
       /\ session'[c].stage = st /\ session'[c].seen = A.seen \cup P
       /\ session'[c].req = A.req /\ session'[c].page = A.page /\ session'[c].size = A.size
       /\ session'[c].answer = A.answer /\ session'[c].owed = A.owed
  <2>1. P \in SUBSET Row
    BY <1>5
  <2> QED BY <1>6, <1>9, <1>10, <2>1, ShownFacts
<1> QED BY <1>4, <1>5, <1>7, <1>10, <1>11 DEF s, M, an, st

\* What the other steps of a client leave of its session.
Changes(c) == session' = [session EXCEPT ![c] = session'[c]]

LEMMA DefaultFacts ==
  /\ NoAnswer \in Answer /\ NoAnswer.code = 0 /\ Cardinality(NoAnswer.items) = 0
  /\ PlainRequest \in AnyRequest /\ DefaultPageSize \in Nat \ {0}
<1>1. NoAnswer \in Answer /\ NoAnswer.code = 0 /\ NoAnswer.items = {}
  BY DEF NoAnswer, Empty, Answer
<1> QED BY <1>1, FS_EmptySet, QueryAssumption DEF PlainRequest, AnyRequest

LEMMA AskFacts ==
  ASSUME TypeOK, FiniteRows, NEW c \in Clients, NEW q \in Request, NEW size \in Sizes,
         Ask(c, q, size)
  PROVE  /\ Changes(c)
         /\ session'[c] \in Session
         /\ session'[c].seen = {} /\ Cardinality(session'[c].answer.items) = 0
         /\ \/ /\ session'[c].stage = "count" /\ session'[c].page = 1
               /\ session'[c].req = q /\ session'[c].owed = Matching(q)
            \/ /\ session'[c].stage = "done" /\ session'[c].owed = {}
               /\ session'[c].answer.code = 400
<1> DEFINE n == Normalised(size, DefaultPageSize)
           good == Opened("count", q, n, NoAnswer, Matching(q))
           bad == Opened("done", PlainRequest, DefaultPageSize, Empty(400), {})
<1>1. n \in Nat \ {0}
  BY QueryAssumption DEF Normalised
<1>2. q \in AnyRequest
  BY DefaultFacts DEF Request
<1>3. Matching(q) \in SUBSET Row
  BY MatchingFacts DEF TypeOK
<1>4. 1 \in 1 .. MaxPage
  BY QueryAssumption
<1>5. Changes(c)
  BY DEF Ask, Changes, TypeOK
<1>6. session'[c] = good \/ session'[c] = bad
  BY DEF Ask, TypeOK
<1>7. good \in Session
  <2> HIDE DEF n
  <2> QED BY <1>1, <1>2, <1>3, <1>4, DefaultFacts DEF Opened, Session
<1>8. bad \in Session
  <2>1. Empty(400) \in Answer
    BY DEF Answer, Empty
  <2> QED BY <2>1, <1>4, DefaultFacts DEF Opened, Session
<1>9. /\ good.seen = {} /\ Cardinality(good.answer.items) = 0
      /\ good.stage = "count" /\ good.page = 1 /\ good.req = q /\ good.owed = Matching(q)
  BY DefaultFacts DEF Opened
<1>10. /\ bad.seen = {} /\ Cardinality(bad.answer.items) = 0
       /\ bad.stage = "done" /\ bad.owed = {} /\ bad.answer.code = 400
  BY FS_EmptySet DEF Opened, Empty
<1> HIDE DEF good, bad
<1> QED BY <1>5, <1>6, <1>7, <1>8, <1>9, <1>10

AskedMore(s) ==
  [s EXCEPT !.stage = "count", !.answer = NoAnswer,
            !.page = IF s.answer.code = 200 THEN s.page + 1 ELSE s.page]

LEMMA AskMoreFacts ==
  ASSUME TypeOK, NEW c \in Clients, AskMore(c)
  PROVE  LET s == session[c]
             t == session'[c]
         IN  /\ Changes(c)
             /\ t \in Session
             /\ Cardinality(t.answer.items) = 0
             /\ t.stage = "count" /\ t.req = s.req /\ t.size = s.size
             /\ t.page = IF s.answer.code = 200 THEN s.page + 1 ELSE s.page
             /\ t.seen = s.seen /\ t.owed = s.owed
<1>1. session[c] \in Session
  BY DEF TypeOK
<1>2. Changes(c)
  BY DEF AskMore, Changes, TypeOK
<1>3. ASSUME NEW s \in Session, s.answer.code = 200 => s.page < MaxPage, NEW t,
             t = AskedMore(s)
      PROVE  /\ t \in Session
             /\ Cardinality(t.answer.items) = 0
             /\ t.stage = "count" /\ t.req = s.req /\ t.size = s.size
             /\ t.page = IF s.answer.code = 200 THEN s.page + 1 ELSE s.page
             /\ t.seen = s.seen /\ t.owed = s.owed
  <2> DEFINE next == IF s.answer.code = 200 THEN s.page + 1 ELSE s.page
  <2>1. /\ s.req \in AnyRequest /\ s.page \in 1 .. MaxPage /\ s.size \in Nat \ {0}
        /\ s.total \in Nat /\ s.seen \in SUBSET Row /\ s.owed \in SUBSET Row
        /\ s = [stage |-> s.stage, req |-> s.req, page |-> s.page, size |-> s.size,
                total |-> s.total, answer |-> s.answer, seen |-> s.seen, owed |-> s.owed]
    BY DEF Session
  <2>2. next \in 1 .. MaxPage
    BY <2>1, <1>3, QueryAssumption
  <2>3. t = [stage |-> "count", req |-> s.req, page |-> next, size |-> s.size,
             total |-> s.total, answer |-> NoAnswer, seen |-> s.seen, owed |-> s.owed]
    BY <2>1, <1>3 DEF AskedMore
  <2> HIDE DEF next
  <2>4. /\ t \in Session /\ t.answer = NoAnswer
        /\ t.stage = "count" /\ t.req = s.req /\ t.size = s.size
        /\ t.page = next /\ t.seen = s.seen /\ t.owed = s.owed
    BY <2>1, <2>2, <2>3, DefaultFacts DEF Session
  <2> QED BY <2>4, DefaultFacts DEF next
<1>4. session'[c] = AskedMore(session[c])
  BY DEF AskMore, AskedMore, TypeOK
<1>5. session[c].answer.code = 200 => session[c].page < MaxPage
  BY DEF AskMore
<1> QED BY <1>1, <1>2, <1>3, <1>4, <1>5

Moved(s, st, n) == [s EXCEPT !.stage = st, !.total = n]

LEMMA MovedFacts ==
  ASSUME NEW s \in Session, NEW st \in Stages, NEW n \in Nat
  PROVE  /\ Moved(s, st, n) \in Session
         /\ Moved(s, st, n).stage = st /\ Moved(s, st, n).total = n
         /\ Moved(s, st, n).answer = s.answer
         /\ Moved(s, st, n).req = s.req /\ Moved(s, st, n).page = s.page
         /\ Moved(s, st, n).size = s.size
         /\ Moved(s, st, n).seen = s.seen /\ Moved(s, st, n).owed = s.owed
<1> SUFFICES ASSUME NEW t, t = [s EXCEPT !.stage = st, !.total = n]
             PROVE  /\ t \in Session
                    /\ t.stage = st /\ t.total = n /\ t.answer = s.answer
                    /\ t.req = s.req /\ t.page = s.page /\ t.size = s.size
                    /\ t.seen = s.seen /\ t.owed = s.owed
  BY DEF Moved
<1>1. /\ s.req \in AnyRequest /\ s.page \in 1 .. MaxPage /\ s.size \in Nat \ {0}
      /\ s.answer \in Answer /\ s.seen \in SUBSET Row /\ s.owed \in SUBSET Row
      /\ s = [stage |-> s.stage, req |-> s.req, page |-> s.page, size |-> s.size,
              total |-> s.total, answer |-> s.answer, seen |-> s.seen, owed |-> s.owed]
  BY DEF Session
<1>2. t = [stage |-> st, req |-> s.req, page |-> s.page, size |-> s.size,
           total |-> n, answer |-> s.answer, seen |-> s.seen, owed |-> s.owed]
  BY <1>1
<1> QED BY <1>1, <1>2 DEF Session, Stages

LEMMA CountFacts ==
  ASSUME TypeOK, FiniteRows, NEW c \in Clients, CountRows(c)
  PROVE  /\ Changes(c)
         /\ session'[c] = Moved(session[c], "page", Cardinality(Matching(session[c].req)))
BY DEF CountRows, Changes, Moved, TypeOK

LEMMA FailFacts ==
  ASSUME TypeOK, NEW c \in Clients, QueryFails(c)
  PROVE  /\ Changes(c)
         /\ session'[c] = Got(session[c], Empty(4000))
BY DEF QueryFails, Changes, Answered, Got, Empty, TypeOK

LEMMA CutFacts ==
  ASSUME TypeOK, Cut
  PROVE  /\ DOMAIN session' = Clients /\ session' = [c \in Clients |-> session'[c]]
         /\ \A c \in Clients :
               IF InFlight(c) THEN session'[c] = Moved(session[c], "cut", session[c].total)
                              ELSE session'[c] = session[c]
<1> SUFFICES ASSUME NEW c \in Clients, InFlight(c)
             PROVE  [session[c] EXCEPT !.stage = "cut"] = Moved(session[c], "cut", session[c].total)
  BY DEF Cut
<1>1. session[c] \in Session
  BY DEF TypeOK
<1>2. ASSUME NEW s \in Session
      PROVE  [s EXCEPT !.stage = "cut"] = Moved(s, "cut", s.total)
  BY DEF Moved, Session
<1> QED BY <1>1, <1>2

\* What the types say of one client.
Sound(s, R) ==
  /\ s \in Session
  /\ s.seen \cup s.owed \subseteq R
  /\ Cardinality(s.answer.items) <= s.size

LEMMA SoundMeaning ==
  TypeOK <=> /\ front \in Fronts /\ list \in {"klines", "markets"}
             /\ rows \subseteq Row /\ \A r, s \in rows : r.id = s.id => r = s
             /\ server \in {"up", "stopping", "closed", "gone"} /\ forced \in BOOLEAN
             /\ session = [c \in Clients |-> session[c]]
             /\ \A c \in Clients : Sound(session[c], rows)
<1>1. session \in [Clients -> Session] <=>
        session = [c \in Clients |-> session[c]] /\ \A c \in Clients : session[c] \in Session
  OBVIOUS
<1> QED BY <1>1 DEF TypeOK, Sound

-----------------------------------------------------------------------------
(* The invariant.                                                          *)

Picked(R, l, q) ==
  {r \in R : l = "klines" => /\ q.from = 0 \/ q.from <= r.at
                             /\ q.to = 0 \/ r.at <= q.to}

\* How many rows at the head of the list the client has been given.
Passed(s) == IF s.stage = "idle" /\ s.answer.code = 200 THEN s.page * s.size
                                                        ELSE (s.page - 1) * s.size

\* A total announces no more rows than there are.
Told(s, l, R) ==
  /\ s.stage = "page" => s.total <= Cardinality(Picked(R, l, s.req))
  /\ s.answer.code = 200 /\ s.stage \in {"idle", "done"} =>
        Cardinality(s.answer.items) >= Least(s.answer.total - (s.page - 1) * s.size, s.size)

\* A row that is owed is shown, or still behind what the client was given:
\* rows come in, in front of it, and none goes.
Paged(s, l, R) ==
  /\ s.owed \subseteq Picked(R, l, s.req)
  /\ s.stage \in {"idle", "count", "page"} =>
        \A x \in s.owed : Alone(R, x) =>
            x \in s.seen \/ Cardinality(InFront(l, Picked(R, l, s.req), x)) >= Passed(s)
  /\ s.stage = "done" /\ s.answer.code = 200 =>
        \A x \in s.owed : Alone(R, x) => x \in s.seen

Inv == /\ TypeOK /\ FiniteRows
       /\ \A c \in Clients : Told(session[c], list, rows) /\ Paged(session[c], list, rows)

LEMMA PickedFacts ==
  ASSUME NEW R, IsFiniteSet(R), NEW l, NEW q, NEW x
  PROVE  /\ Picked(R, l, q) \subseteq R /\ IsFiniteSet(Picked(R, l, q))
         /\ Cardinality(Picked(R, l, q)) \in Nat
         /\ IsFiniteSet(InFront(l, Picked(R, l, q), x))
         /\ Cardinality(InFront(l, Picked(R, l, q), x)) \in Nat
<1>1. Picked(R, l, q) \subseteq R
  BY DEF Picked
<1>2. IsFiniteSet(Picked(R, l, q)) /\ Cardinality(Picked(R, l, q)) \in Nat
  BY <1>1, FS_Subset, FS_CardinalityType
<1>3. InFront(l, Picked(R, l, q), x) \subseteq Picked(R, l, q)
  BY DEF InFront
<1> QED BY <1>1, <1>2, <1>3, FS_Subset, FS_CardinalityType

\* One insert takes nothing from a session.
LEMMA InsertKeeps ==
  ASSUME NEW R, IsFiniteSet(R), NEW r, NEW l, NEW s,
         Sound(s, R), Told(s, l, R), Paged(s, l, R)
  PROVE  LET T == R \cup {r} IN Sound(s, T) /\ Told(s, l, T) /\ Paged(s, l, T)
<1> DEFINE T == R \cup {r}
           M == Picked(R, l, s.req)
           N == Picked(T, l, s.req)
<1>1. M \subseteq N
  BY DEF Picked
<1>2. IsFiniteSet(T)
  BY FS_AddElement
<1>3. /\ IsFiniteSet(N) /\ Cardinality(N) \in Nat /\ Cardinality(M) \in Nat
      /\ Cardinality(M) <= Cardinality(N)
  BY <1>1, <1>2, PickedFacts, FS_Subset
<1>4. Sound(s, T)
  BY DEF Sound
<1>5. Told(s, l, T)
  <2>1. s.total \in Nat
    BY DEF Sound, Session
  <2> QED BY <1>3, <2>1 DEF Told
<1>6. Paged(s, l, T)
  <2>1. s.owed \subseteq N
    BY <1>1 DEF Paged
  <2>2. \A x \in s.owed : Alone(T, x) => Alone(R, x)
    BY DEF Alone
  <2>3. Passed(s) \in Int
    BY DEF Passed, Sound, Session
  <2>4. ASSUME NEW x
        PROVE  Cardinality(InFront(l, M, x)) <= Cardinality(InFront(l, N, x))
    <3>1. InFront(l, M, x) \subseteq InFront(l, N, x)
      BY <1>1 DEF InFront
    <3> QED BY <1>2, <3>1, PickedFacts, FS_Subset
  <2>5. ASSUME NEW x
        PROVE  Cardinality(InFront(l, M, x)) \in Nat /\ Cardinality(InFront(l, N, x)) \in Nat
    BY <1>2, PickedFacts
  <2>6. s.stage \in {"idle", "count", "page"} =>
          \A x \in s.owed : Alone(T, x) =>
             x \in s.seen \/ Cardinality(InFront(l, N, x)) >= Passed(s)
    <3> SUFFICES ASSUME s.stage \in {"idle", "count", "page"},
                        NEW x \in s.owed, Alone(T, x), x \notin s.seen
                 PROVE  Cardinality(InFront(l, N, x)) >= Passed(s)
      OBVIOUS
    <3>1. Cardinality(InFront(l, M, x)) >= Passed(s)
      BY <2>2 DEF Paged
    <3> QED BY <2>3, <2>4, <2>5, <3>1
  <2> QED BY <2>1, <2>2, <2>6 DEF Paged
<1> QED BY <1>4, <1>5, <1>6

LEMMA FetchKeeps ==
  ASSUME Inv, NEW c \in Clients, FetchPage(c)
  PROVE  Changes(c) /\ Sound(session'[c], rows)
         /\ Told(session'[c], list, rows) /\ Paged(session'[c], list, rows)
<1> DEFINE s == session[c]
           t == session'[c]
           M == Picked(rows, list, s.req)
<1>1. /\ TypeOK /\ FiniteRows /\ s \in Session /\ s.stage = "page"
      /\ Sound(s, rows) /\ Told(s, list, rows) /\ Paged(s, list, rows)
  BY SoundMeaning DEF Inv, TypeOK, FetchPage
<1>2. Matching(s.req) = M
  BY DEF Matching, Picked
<1>3. PICK P \in PageOf(M, s.page, s.size) :
         /\ Changes(c) /\ t \in Session
         /\ t.stage = IF Cardinality(P) < s.size THEN "done" ELSE "idle"
         /\ t.req = s.req /\ t.page = s.page /\ t.size = s.size /\ t.owed = s.owed
         /\ t.answer = [code |-> 200, total |-> s.total, items |-> P]
         /\ t.seen = s.seen \cup P
         /\ P \subseteq rows /\ Cardinality(P) <= s.size
  BY <1>1, <1>2, FetchFacts DEF Changes
<1>4. /\ t.answer.code = 200 /\ t.answer.total = s.total /\ t.answer.items = P
  BY <1>3
<1>5. /\ s.page \in Nat \ {0} /\ s.size \in Nat \ {0} /\ s.total \in Nat
  BY <1>1 DEF Session
<1> HIDE DEF s, t
<1>6. /\ M \subseteq Row /\ IsFiniteSet(M) /\ M \subseteq rows
  BY <1>1, PickedFacts DEF TypeOK, FiniteRows
<1>7. /\ Cardinality(P) \in Nat /\ Cardinality(M) \in Nat
      /\ Cardinality(P) >= Least(Cardinality(M) - (s.page - 1) * s.size, s.size)
  BY <1>5, <1>6, PageFacts
<1>8. Sound(t, rows)
  BY <1>1, <1>3, <1>4 DEF Sound
<1>9. Told(t, list, rows)
  <2>1. s.total <= Cardinality(M)
    BY <1>1 DEF Told
  <2>2. t.stage # "page"
    BY <1>3
  <2>3. (s.page - 1) * s.size \in Nat
    BY <1>5
  <2>4. Cardinality(P) >= Least(s.total - (s.page - 1) * s.size, s.size)
    BY <1>5, <1>7, <2>1, <2>3 DEF Least
  <2> QED BY <1>3, <1>4, <2>2, <2>4 DEF Told
<1>10. Paged(t, list, rows)
  <2>1. t.owed \subseteq M
    BY <1>1, <1>3 DEF Paged
  <2>2. Passed(s) = (s.page - 1) * s.size
    BY <1>1 DEF Passed
  <2>3. ASSUME NEW x \in s.owed, Alone(rows, x), x \notin t.seen
        PROVE  /\ Cardinality(InFront(list, M, x)) >= s.page * s.size
               /\ Cardinality(P) = s.size
    <3>1. x \notin s.seen /\ x \notin P
      BY <1>3, <2>3
    <3>2. Cardinality(InFront(list, M, x)) >= (s.page - 1) * s.size
      BY <1>1, <2>2, <2>3, <3>1 DEF Paged
    <3>3. x \in M /\ Alone(M, x)
      BY <1>3, <1>6, <2>1, <2>3 DEF Alone
    <3> HIDE DEF M
    <3> QED BY <1>3, <1>5, <1>6, <3>1, <3>2, <3>3, PageAhead DEF Ahead
  <2>4. t.stage = "idle" => Passed(t) = s.page * s.size
    BY <1>3, <1>4 DEF Passed
  <2>5. t.stage \notin {"count", "page"} /\ (Cardinality(P) = s.size => t.stage = "idle")
    BY <1>3, <1>5
  <2> QED BY <1>3, <2>1, <2>3, <2>4, <2>5 DEF Paged
<1> QED BY <1>3, <1>8, <1>9, <1>10 DEF t

LEMMA AskKeeps ==
  ASSUME Inv, NEW c \in Clients, NEW q \in Request, NEW size \in Sizes, Ask(c, q, size)
  PROVE  Changes(c) /\ Sound(session'[c], rows)
         /\ Told(session'[c], list, rows) /\ Paged(session'[c], list, rows)
<1> DEFINE t == session'[c]
<1>1. TypeOK /\ FiniteRows
  BY DEF Inv
<1>2. /\ Changes(c) /\ t \in Session
      /\ t.seen = {} /\ Cardinality(t.answer.items) = 0
      /\ \/ t.stage = "count" /\ t.page = 1 /\ t.req = q /\ t.owed = Matching(q)
         \/ t.stage = "done" /\ t.owed = {} /\ t.answer.code = 400
  BY <1>1, AskFacts
<1>3. t.size \in Nat
  BY <1>2 DEF Session
<1> HIDE DEF t
<1>4. t.owed \subseteq rows
  BY <1>1, <1>2, MatchingFacts
<1>5. Sound(t, rows)
  BY <1>2, <1>3, <1>4 DEF Sound
<1>6. Told(t, list, rows)
  BY <1>2 DEF Told
<1>7. t.owed \subseteq Picked(rows, list, t.req)
  BY <1>2 DEF Matching, Picked
<1>8. ASSUME NEW x, t.stage = "count"
      PROVE  Cardinality(InFront(list, Picked(rows, list, t.req), x)) >= Passed(t)
  <2>1. Passed(t) = 0
    BY <1>2, <1>3, <1>8 DEF Passed
  <2>2. Cardinality(InFront(list, Picked(rows, list, t.req), x)) \in Nat
    BY <1>1, PickedFacts DEF FiniteRows
  <2> QED BY <2>1, <2>2
<1>9. Paged(t, list, rows)
  BY <1>2, <1>7, <1>8 DEF Paged
<1> QED BY <1>2, <1>5, <1>6, <1>9 DEF t

LEMMA AskMoreKeeps ==
  ASSUME Inv, NEW c \in Clients, AskMore(c)
  PROVE  Changes(c) /\ Sound(session'[c], rows)
         /\ Told(session'[c], list, rows) /\ Paged(session'[c], list, rows)
<1> DEFINE s == session[c]
           t == session'[c]
<1>1. /\ TypeOK /\ s \in Session /\ s.stage = "idle"
      /\ Sound(s, rows) /\ Paged(s, list, rows)
  BY SoundMeaning DEF Inv, TypeOK, AskMore
<1>2. /\ Changes(c) /\ t \in Session /\ Cardinality(t.answer.items) = 0
      /\ t.stage = "count" /\ t.req = s.req /\ t.size = s.size
      /\ t.page = IF s.answer.code = 200 THEN s.page + 1 ELSE s.page
      /\ t.seen = s.seen /\ t.owed = s.owed
  BY <1>1, AskMoreFacts
<1>3. s.size \in Nat /\ s.page \in Nat
  BY <1>1 DEF Session
<1> HIDE DEF s, t
<1>4. Sound(t, rows)
  BY <1>1, <1>2, <1>3 DEF Sound
<1>5. Told(t, list, rows)
  BY <1>2 DEF Told
<1>6. Passed(t) = Passed(s)
  <2>1. Passed(t) = (t.page - 1) * s.size
    BY <1>2 DEF Passed
  <2>2. t.page - 1 = IF s.answer.code = 200 THEN s.page ELSE s.page - 1
    BY <1>2, <1>3
  <2>3. Passed(s) = (IF s.answer.code = 200 THEN s.page ELSE s.page - 1) * s.size
    BY <1>1 DEF Passed
  <2> QED BY <2>1, <2>2, <2>3
<1>7. Paged(t, list, rows)
  BY <1>1, <1>2, <1>6 DEF Paged
<1> QED BY <1>2, <1>4, <1>5, <1>7 DEF t

LEMMA CountKeeps ==
  ASSUME Inv, NEW c \in Clients, CountRows(c)
  PROVE  Changes(c) /\ Sound(session'[c], rows)
         /\ Told(session'[c], list, rows) /\ Paged(session'[c], list, rows)
<1> DEFINE s == session[c]
           t == session'[c]
           n == Cardinality(Matching(s.req))
<1>1. /\ TypeOK /\ FiniteRows /\ s \in Session /\ s.stage = "count"
      /\ Sound(s, rows) /\ Paged(s, list, rows)
  BY SoundMeaning DEF Inv, TypeOK, CountRows
<1>2. Changes(c) /\ t = Moved(s, "page", n)
  BY <1>1, CountFacts
<1>3. n \in Nat /\ n = Cardinality(Picked(rows, list, s.req))
  BY <1>1, MatchingFacts DEF Matching, Picked
<1> HIDE DEF s, t, n
<1>4. /\ t \in Session /\ t.stage = "page" /\ t.total = n
      /\ t.answer = s.answer /\ t.req = s.req /\ t.page = s.page /\ t.size = s.size
      /\ t.seen = s.seen /\ t.owed = s.owed
  <2>1. "page" \in Stages
    BY DEF Stages
  <2> QED BY <1>1, <1>2, <1>3, <2>1, MovedFacts
<1>5. Sound(t, rows)
  BY <1>1, <1>4 DEF Sound
<1>6. Told(t, list, rows)
  BY <1>3, <1>4 DEF Told
<1>7. Paged(t, list, rows)
  <2>1. Passed(t) = Passed(s)
    BY <1>1, <1>4 DEF Passed
  <2> QED BY <1>1, <1>4, <2>1 DEF Paged
<1> QED BY <1>2, <1>5, <1>6, <1>7 DEF t

LEMMA FailKeeps ==
  ASSUME Inv, NEW c \in Clients, QueryFails(c)
  PROVE  Changes(c) /\ Sound(session'[c], rows)
         /\ Told(session'[c], list, rows) /\ Paged(session'[c], list, rows)
<1> DEFINE s == session[c]
           t == session'[c]
<1>1. /\ TypeOK /\ s \in Session /\ s.stage \in {"count", "page"}
      /\ Sound(s, rows) /\ Paged(s, list, rows)
  BY SoundMeaning DEF Inv, TypeOK, QueryFails, InFlight
<1>2. Changes(c) /\ t = Got(s, Empty(4000))
  BY <1>1, FailFacts
<1>3. Empty(4000) \in Answer /\ Empty(4000).code = 4000 /\ Cardinality(Empty(4000).items) = 0
  BY FS_EmptySet DEF Empty, Answer
<1>4. s.size \in Nat
  BY <1>1 DEF Session
<1> HIDE DEF s, t
<1>5. /\ t \in Session /\ t.stage = "idle" /\ t.answer = Empty(4000)
      /\ t.req = s.req /\ t.page = s.page /\ t.size = s.size
      /\ t.seen = s.seen /\ t.owed = s.owed
  BY <1>1, <1>2, <1>3, GotFacts
<1>6. t.answer.code # 200 /\ Cardinality(t.answer.items) = 0
  BY <1>3, <1>5
<1>7. Sound(t, rows)
  BY <1>1, <1>4, <1>5, <1>6 DEF Sound
<1>8. Told(t, list, rows)
  BY <1>5, <1>6 DEF Told
<1>9. Paged(t, list, rows)
  <2>1. Passed(t) = Passed(s)
    BY <1>1, <1>5, <1>6 DEF Passed
  <2> QED BY <1>1, <1>5, <1>6, <2>1 DEF Paged
<1> QED BY <1>2, <1>7, <1>8, <1>9 DEF t

LEMMA CutKeeps ==
  ASSUME Inv, Cut, NEW c \in Clients
  PROVE  Sound(session'[c], rows)
         /\ Told(session'[c], list, rows) /\ Paged(session'[c], list, rows)
<1> DEFINE s == session[c]
           t == session'[c]
<1>1. /\ TypeOK /\ s \in Session
      /\ Sound(s, rows) /\ Told(s, list, rows) /\ Paged(s, list, rows)
  BY SoundMeaning DEF Inv, TypeOK
<1>2. t = Moved(s, "cut", s.total) \/ t = s
  BY <1>1, CutFacts
<1> HIDE DEF s, t
<1>3. CASE t = Moved(s, "cut", s.total)
  <2>1. s.total \in Nat
    BY <1>1 DEF Session
  <2>2. /\ t \in Session /\ t.stage = "cut"
        /\ t.answer = s.answer /\ t.req = s.req /\ t.page = s.page /\ t.size = s.size
        /\ t.seen = s.seen /\ t.owed = s.owed
    <3>1. "cut" \in Stages
      BY DEF Stages
    <3> QED BY <1>1, <1>3, <2>1, <3>1, MovedFacts
  <2> QED BY <1>1, <2>2 DEF t, Sound, Told, Paged
<1> QED BY <1>1, <1>2, <1>3 DEF t

\* A step of one client: the others keep what they have.
LEMMA ClientKeeps ==
  ASSUME Inv, NEW c \in Clients, Changes(c),
         Sound(session'[c], rows), Told(session'[c], list, rows), Paged(session'[c], list, rows),
         UNCHANGED <<front, list, rows, server, forced>>
  PROVE  Inv'
<1>1. TypeOK /\ FiniteRows
  BY DEF Inv
<1>2. session' = [d \in Clients |-> session'[d]]
  BY <1>1 DEF Changes, TypeOK
<1>3. ASSUME NEW d \in Clients
      PROVE  Sound(session'[d], rows) /\ Told(session'[d], list, rows) /\ Paged(session'[d], list, rows)
  <2>1. CASE d = c
    BY <2>1
  <2>2. CASE d # c
    <3>1. session'[d] = session[d]
      BY <1>1, <2>2 DEF Changes, TypeOK
    <3>2. Sound(session[d], rows) /\ Told(session[d], list, rows) /\ Paged(session[d], list, rows)
      BY <1>1, SoundMeaning DEF Inv
    <3> QED BY <3>1, <3>2
  <2> QED BY <2>1, <2>2
<1>4. TypeOK'
  <2>1. session' \in [Clients -> Session]
    BY <1>2, <1>3 DEF Sound
  <2> QED BY <1>1, <1>3, <2>1 DEF TypeOK, Sound
<1> QED BY <1>1, <1>3, <1>4 DEF Inv, FiniteRows

LEMMA InsertStep ==
  ASSUME Inv, NEW r \in Row, Insert(r)
  PROVE  Inv'
<1>1. TypeOK /\ FiniteRows
  BY DEF Inv
<1>2. rows' = rows \cup {r} /\ UNCHANGED <<front, list, server, forced, session>>
  BY DEF Insert
<1>3. FiniteRows'
  <2>1. IsFiniteSet(rows \cup {r})
    BY <1>1, FS_AddElement DEF FiniteRows
  <2> QED BY <1>2, <2>1 DEF FiniteRows
<1>4. ASSUME NEW d \in Clients
      PROVE  /\ Sound(session[d], rows \cup {r}) /\ Told(session[d], list, rows \cup {r})
             /\ Paged(session[d], list, rows \cup {r})
  <2>1. Sound(session[d], rows) /\ Told(session[d], list, rows) /\ Paged(session[d], list, rows)
    BY <1>1, SoundMeaning DEF Inv
  <2> QED BY <1>1, <2>1, InsertKeeps DEF FiniteRows
<1>5. TypeOK'
  <2>1. /\ front' \in Fronts /\ list' \in {"klines", "markets"}
        /\ rows' \subseteq Row /\ \A u, v \in rows' : u.id = v.id => u = v
        /\ server' \in {"up", "stopping", "closed", "gone"} /\ forced' \in BOOLEAN
        /\ session' \in [Clients -> Session]
    BY <1>1, <1>2 DEF TypeOK, Insert
  <2>2. \A d \in Clients : /\ session'[d].seen \cup session'[d].owed \subseteq rows'
                           /\ Cardinality(session'[d].answer.items) <= session'[d].size
    BY <1>2, <1>4 DEF Sound
  <2> QED BY <2>1, <2>2 DEF TypeOK
<1> QED BY <1>2, <1>3, <1>4, <1>5 DEF Inv

LEMMA CutStep ==
  ASSUME Inv, Cut, UNCHANGED <<front, list, rows, forced>>,
         server' \in {"up", "stopping", "closed", "gone"}
  PROVE  Inv'
<1>1. TypeOK /\ FiniteRows
  BY DEF Inv
<1>2. session' = [d \in Clients |-> session'[d]]
  BY <1>1, CutFacts
<1>3. ASSUME NEW d \in Clients
      PROVE  Sound(session'[d], rows) /\ Told(session'[d], list, rows) /\ Paged(session'[d], list, rows)
  BY CutKeeps
<1>4. TypeOK'
  <2>1. session' \in [Clients -> Session]
    BY <1>2, <1>3 DEF Sound
  <2> QED BY <1>1, <1>3, <2>1 DEF TypeOK, Sound
<1> QED BY <1>1, <1>3, <1>4 DEF Inv, FiniteRows

LEMMA InitInv == Init => Inv
<1> SUFFICES ASSUME Init PROVE Inv
  OBVIOUS
<1>1. FiniteRows
  BY FS_EmptySet DEF Init, FiniteRows
<1>2. /\ Fresh \in Session /\ Fresh.seen = {} /\ Fresh.owed = {}
      /\ Cardinality(Fresh.answer.items) <= Fresh.size
      /\ Fresh.stage = "new" /\ Fresh.answer.code = 0
  <2>1. 1 \in 1 .. MaxPage
    BY QueryAssumption
  <2>2. Fresh.answer = NoAnswer /\ Fresh.size = DefaultPageSize
    BY DEF Fresh, Opened
  <2>3. Fresh \in Session
    BY <2>1, DefaultFacts DEF Fresh, Opened, Session
  <2> QED BY <2>2, <2>3, DefaultFacts DEF Fresh, Opened
<1>3. TypeOK
  BY <1>2 DEF Init, TypeOK
<1>4. ASSUME NEW c \in Clients
      PROVE  Told(Fresh, list, rows) /\ Paged(Fresh, list, rows)
  BY <1>2 DEF Told, Paged
<1> QED BY <1>1, <1>3, <1>4 DEF Inv, Init

LEMMA NextInv == Inv /\ [Next]_vars => Inv'
<1> SUFFICES ASSUME Inv, [Next]_vars PROVE Inv'
  OBVIOUS
<1>1. CASE ShutdownHttp
  BY <1>1, CutStep DEF ShutdownHttp
<1>2. CASE Exit
  BY <1>2, CutStep DEF Exit
<1>3. CASE Interrupt \/ InterruptAgain
  BY <1>3 DEF Interrupt, InterruptAgain, Inv, TypeOK, FiniteRows
<1>4. ASSUME NEW r \in Row, Insert(r) PROVE Inv'
  BY <1>4, InsertStep
<1>5. ASSUME NEW c \in Clients, NEW q \in Request, NEW size \in Sizes, Ask(c, q, size)
      PROVE  Inv'
  <2>1. UNCHANGED <<front, list, rows, server, forced>>
    BY <1>5 DEF Ask
  <2> QED BY <1>5, <2>1, AskKeeps, ClientKeeps
<1>6. ASSUME NEW c \in Clients, AskMore(c) PROVE Inv'
  <2>1. UNCHANGED <<front, list, rows, server, forced>>
    BY <1>6 DEF AskMore
  <2> QED BY <1>6, <2>1, AskMoreKeeps, ClientKeeps
<1>7. ASSUME NEW c \in Clients, CountRows(c) PROVE Inv'
  <2>1. UNCHANGED <<front, list, rows, server, forced>>
    BY <1>7 DEF CountRows
  <2> QED BY <1>7, <2>1, CountKeeps, ClientKeeps
<1>8. ASSUME NEW c \in Clients, FetchPage(c) PROVE Inv'
  <2>1. UNCHANGED <<front, list, rows, server, forced>>
    BY <1>8 DEF FetchPage
  <2> QED BY <1>8, <2>1, FetchKeeps, ClientKeeps
<1>9. ASSUME NEW c \in Clients, QueryFails(c) PROVE Inv'
  <2>1. UNCHANGED <<front, list, rows, server, forced>>
    BY <1>9 DEF QueryFails
  <2> QED BY <1>9, <2>1, FailKeeps, ClientKeeps
<1>10. CASE UNCHANGED vars
  BY <1>10 DEF vars, Inv, TypeOK, FiniteRows
<1> QED BY <1>1, <1>2, <1>3, <1>4, <1>5, <1>6, <1>7, <1>8, <1>9, <1>10 DEF Next, ServerNext

LEMMA Invariance == Spec => []Inv
<1>1. Init => Inv
  BY InitInv
<1>2. Inv /\ [Next]_vars => Inv'
  BY NextInv
<1> QED BY <1>1, <1>2, PTL DEF Spec

\* Whatever is inserted, asked, cut or failed: only rows of the table are
\* shown and owed, and no answer holds more than a page (symbol_kline.go:54-94).
THEOREM TypeCorrect == Spec => []TypeOK
BY Invariance, PTL DEF Inv

\* For any number of clients, rows and page sizes, and any inserts between the
\* pages, a reader that follows the pages to a short one has seen every row it
\* was owed whose time no other row has (symbol_kline.go:54-94).
THEOREM PagesCorrect == Spec => []PagesCoverTheList
<1>1. Inv => PagesCoverTheList
  <2> SUFFICES ASSUME Inv, NEW c \in Clients,
                      session[c].stage = "done", session[c].answer.code = 200,
                      NEW x \in session[c].owed,
                      \A s \in rows : s.at = x.at => s = x
               PROVE  x \in session[c].seen
    BY DEF PagesCoverTheList
  <2>1. Alone(rows, x)
    BY DEF Alone
  <2>2. Paged(session[c], list, rows)
    BY DEF Inv
  <2> QED BY <2>1, <2>2 DEF Paged
<1> QED BY <1>1, Invariance, PTL

\* No page falls short of the total that comes with it: the count is taken
\* first and no row is deleted (symbol_kline.go:76-92).
THEOREM TotalCorrect == Spec => []TotalIsReachable
<1>1. Inv => TotalIsReachable
  <2> SUFFICES ASSUME Inv, NEW c \in Clients PROVE
               session[c].answer.code = 200 /\ session[c].stage \in {"idle", "done"} =>
                  LET left == session[c].answer.total - (session[c].page - 1) * session[c].size
                  IN  Cardinality(session[c].answer.items) >=
                         IF left < session[c].size THEN left ELSE session[c].size
    BY DEF TotalIsReachable
  <2>1. Told(session[c], list, rows)
    BY DEF Inv
  <2> QED BY <2>1 DEF Told, Least
<1> QED BY <1>1, Invariance, PTL

-----------------------------------------------------------------------------
(* The stop.                                                               *)

\* Once the listener is closed no request is in flight, and none was cut
\* unless the stop was forced.
StopInv ==
  /\ TypeOK
  /\ server \in {"closed", "gone"} => \A c \in Clients : ~InFlight(c)
  /\ GracefulStopAnswers

\* The step of one client does not cut it, and starts nothing after the stop.
LEMMA ClientStop ==
  ASSUME StopInv, NEW c \in Clients, Changes(c),
         UNCHANGED <<front, list, rows, server, forced>>, TypeOK',
         session'[c].stage # "cut",
         server \in {"closed", "gone"} => session'[c].stage \notin {"count", "page"}
  PROVE  StopInv'
<1>1. TypeOK
  BY DEF StopInv
<1>2. \A d \in Clients : d # c => session'[d] = session[d]
  BY <1>1 DEF Changes, TypeOK
<1> QED BY <1>2 DEF StopInv, GracefulStopAnswers, InFlight

LEMMA CutStop ==
  ASSUME StopInv, Cut, UNCHANGED <<front, list, rows, forced>>, TypeOK',
         front = "grpc" \/ forced \/ \A c \in Clients : ~InFlight(c)
  PROVE  StopInv'
<1>1. TypeOK
  BY DEF StopInv
<1>2. ASSUME NEW c \in Clients
      PROVE  /\ session'[c].stage \notin {"count", "page"}
             /\ session'[c].stage = "cut" => session[c].stage = "cut" \/ InFlight(c)
  <2>1. session[c] \in Session
    BY <1>1 DEF TypeOK
  <2>2. CASE InFlight(c)
    <3>1. session'[c] = Moved(session[c], "cut", session[c].total)
      BY <1>1, <2>2, CutFacts
    <3>2. "cut" \in Stages /\ session[c].total \in Nat
      BY <2>1 DEF Stages, Session
    <3>3. session'[c].stage = "cut"
      BY <2>1, <3>1, <3>2, MovedFacts
    <3> QED BY <2>2, <3>3
  <2>3. CASE ~InFlight(c)
    <3>1. session'[c] = session[c]
      BY <1>1, <2>3, CutFacts
    <3> QED BY <2>3, <3>1 DEF InFlight
  <2> QED BY <2>2, <2>3
<1> QED BY <1>2 DEF StopInv, GracefulStopAnswers, InFlight

LEMMA NextStop == StopInv /\ Inv /\ Inv' /\ [Next]_vars => StopInv'
<1> SUFFICES ASSUME StopInv, Inv, Inv', [Next]_vars PROVE StopInv'
  OBVIOUS
<1>1. TypeOK /\ FiniteRows /\ TypeOK'
  BY DEF Inv
<1>2. CASE ShutdownHttp
  BY <1>1, <1>2, CutStop DEF ShutdownHttp
<1>3. CASE Exit
  <2>1. front = "grpc" \/ \A c \in Clients : ~InFlight(c)
    BY <1>1, <1>3, QueryAssumption DEF Exit, StopInv, TypeOK
  <2> QED BY <1>1, <1>3, <2>1, CutStop DEF Exit
<1>4. CASE Interrupt \/ InterruptAgain
  BY <1>1, <1>4 DEF Interrupt, InterruptAgain, StopInv, GracefulStopAnswers, InFlight
<1>5. CASE (\E r \in Row : Insert(r)) \/ UNCHANGED vars
  BY <1>1, <1>5 DEF Insert, vars, StopInv, GracefulStopAnswers, InFlight
<1>6. ASSUME NEW c \in Clients, NEW q \in Request, NEW size \in Sizes, Ask(c, q, size)
      PROVE  StopInv'
  <2>1. /\ UNCHANGED <<front, list, rows, server, forced>>
        /\ server \notin {"closed", "gone"}
    BY <1>6 DEF Ask, Accepting
  <2>2. Changes(c) /\ session'[c].stage \in {"count", "done"}
    BY <1>1, <1>6, AskFacts
  <2> QED BY <1>1, <2>1, <2>2, ClientStop
<1>7. ASSUME NEW c \in Clients, AskMore(c) PROVE StopInv'
  <2>1. /\ UNCHANGED <<front, list, rows, server, forced>>
        /\ server \notin {"closed", "gone"}
    BY <1>7 DEF AskMore, Accepting
  <2>2. Changes(c) /\ session'[c].stage = "count"
    BY <1>1, <1>7, AskMoreFacts
  <2> QED BY <1>1, <2>1, <2>2, ClientStop
<1>8. ASSUME NEW c \in Clients, CountRows(c) PROVE StopInv'
  <2>1. /\ UNCHANGED <<front, list, rows, server, forced>>
        /\ server \notin {"closed", "gone"}
    BY <1>8 DEF CountRows
  <2>2. Changes(c) /\ session'[c] = Moved(session[c], "page", Cardinality(Matching(session[c].req)))
    BY <1>1, <1>8, CountFacts
  <2>3. "page" \in Stages /\ session[c] \in Session
    BY <1>1 DEF Stages, TypeOK
  <2>4. session'[c].stage = "page"
    BY <1>1, <2>2, <2>3, MovedFacts, MatchingFacts
  <2> QED BY <1>1, <2>1, <2>2, <2>4, ClientStop
<1>9. ASSUME NEW c \in Clients, FetchPage(c) PROVE StopInv'
  <2>1. UNCHANGED <<front, list, rows, server, forced>>
    BY <1>9 DEF FetchPage
  <2>2. Changes(c) /\ session'[c].stage \in {"done", "idle"}
    BY <1>1, <1>9, FetchFacts DEF Changes
  <2> QED BY <1>1, <2>1, <2>2, ClientStop
<1>10. ASSUME NEW c \in Clients, QueryFails(c) PROVE StopInv'
  <2>1. UNCHANGED <<front, list, rows, server, forced>>
    BY <1>10 DEF QueryFails
  <2>2. Changes(c) /\ session'[c] = Got(session[c], Empty(4000))
    BY <1>1, <1>10, FailFacts
  <2>3. Empty(4000) \in Answer /\ session[c] \in Session
    BY <1>1 DEF Empty, Answer, TypeOK
  <2>4. session'[c].stage = "idle"
    BY <2>2, <2>3, GotFacts
  <2> QED BY <1>1, <2>1, <2>2, <2>4, ClientStop
<1> QED BY <1>2, <1>3, <1>4, <1>5, <1>6, <1>7, <1>8, <1>9, <1>10 DEF Next, ServerNext

\* An interrupt alone costs no client of the HTTP API its answer, however many
\* requests are in flight (api.go:145-170, server.go:117-127).
THEOREM StopCorrect == Spec => []GracefulStopAnswers
<1>1. Init => StopInv
  <2> SUFFICES ASSUME Init PROVE StopInv
    OBVIOUS
  <2>1. TypeOK
    BY InitInv DEF Inv
  <2>2. \A c \in Clients : session[c].stage = "new"
    BY DEF Init, Fresh, Opened
  <2>3. server = "up"
    BY DEF Init
  <2> QED BY <2>1, <2>2, <2>3 DEF StopInv, GracefulStopAnswers
<1>2. StopInv => GracefulStopAnswers
  BY DEF StopInv
<1> QED BY <1>1, <1>2, NextStop, Invariance, PTL DEF Spec
=============================================================================
