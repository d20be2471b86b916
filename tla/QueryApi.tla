------------------------------ MODULE QueryApi ------------------------------
(***************************************************************************)
(* The two read-only front ends: the HTTP API and the gRPC service answer  *)
(* the same requests from the same tables.  A client reads a list page by  *)
(* page, in the numbering the answers echo, until a page comes back short. *)
(* Each answer takes two queries, a count and a page, while the loops keep *)
(* inserting rows; and the process may be told to stop at any moment.      *)
(*                                                                         *)
(* Two lists stand for all: klines (ascending time, with a time range and  *)
(* arguments that are checked) and markets (descending, without).          *)
(***************************************************************************)
EXTENDS Integers, FiniteSets

CONSTANTS
    Clients,
    Ids,              \* rows the loops may insert for the symbol asked for
    Times,            \* created_at of a row
    Sizes,            \* page_size in a request; not positive: the default
    DefaultPageSize,
    Fronts,           \* which of "http" and "grpc" are explored
    MaxPage           \* bound: pages a client asks for

ASSUME QueryAssumption ==
    /\ Times \subseteq Nat \ {0} /\ Sizes \subseteq Int
    /\ DefaultPageSize \in Nat \ {0} /\ MaxPage \in Nat \ {0}
    /\ Fronts \subseteq {"http", "grpc"}

VARIABLES
    front,    \* the front end of this process
    list,     \* the list the clients read
    rows,     \* the table
    server,   \* "up", "stopping", "closed" (listener and database), "gone"
    forced,   \* a second interrupt arrived
    session   \* per client: the request in flight, the last answer, what it saw

vars == <<front, list, rows, server, forced, session>>

Row == [id : Ids, at : Times]

\* 0: the field is absent; requests for markets have none of the three.
AnyRequest == [named : BOOLEAN, from : Times \cup {0}, to : Times \cup {0}]
PlainRequest == [named |-> TRUE, from |-> 0, to |-> 0]
Request == IF list = "klines" THEN AnyRequest ELSE {PlainRequest}

Empty(code) == [code |-> code, total |-> 0, items |-> {}]
NoAnswer == Empty(0)

Opened(stage, q, size, answer, owed) ==
    [stage |-> stage, req |-> q, page |-> 1, size |-> size, total |-> 0,
     answer |-> answer, seen |-> {}, owed |-> owed]

Fresh == Opened("new", PlainRequest, DefaultPageSize, NoAnswer, {})

InFlight(c) == session[c].stage \in {"count", "page"}

Init ==
    /\ front \in Fronts /\ list \in {"klines", "markets"}
    /\ rows = {}
    /\ server = "up" /\ forced = FALSE
    /\ session = [c \in Clients |-> Fresh]

-----------------------------------------------------------------------------
(* Queries                                                                 *)

\* The WHERE clause.
Matching(q) ==
    {r \in rows : list = "klines" =>
        /\ q.from = 0 \/ q.from <= r.at
        /\ q.to = 0 \/ r.at <= q.to}

\* ORDER BY created_at: rows of the same instant come in any order, and in
\* another one in the next query.
Precedes(r, s) == IF list = "klines" THEN r.at < s.at ELSE r.at > s.at

\* What the first n rows can be.
Heads(M, n) ==
    {H \in SUBSET M :
        /\ Cardinality(H) = IF n < Cardinality(M) THEN n ELSE Cardinality(M)
        /\ \A h \in H, r \in M : Precedes(r, h) => r \in H}

\* Faulty variant: the page is cut out before the rows are ordered.
PageOfUnordered(M, page, size) ==
    {S \in SUBSET M :
        LET rest == Cardinality(M) - (page - 1) * size
        IN  Cardinality(S) = IF rest > size THEN size ELSE IF rest > 0 THEN rest ELSE 0}

\* LIMIT and OFFSET.
PageOf(M, page, size) ==
    {P \in SUBSET M : \E H \in Heads(M, (page - 1) * size), L \in Heads(M, page * size) :
                         H \subseteq L /\ P = L \ H}

-----------------------------------------------------------------------------
(* Requests                                                                *)

\* normalizePagination.
Normalised(n, default) == IF n <= 0 THEN default ELSE n

\* symbol_guid is required and the range must not be empty.
Valid(q) == list = "klines" => q.named /\ (q.from > 0 /\ q.to > 0 => q.from <= q.to)

\* Connections are accepted until the listener closes; Stop of the gRPC
\* service leaves it open.
Accepting == server = "up" \/ (front = "grpc" /\ server = "stopping")

Answered(c, code, total, items) ==
    [session[c] EXCEPT !.stage = "idle", !.total = 0,
                       !.answer = [code |-> code, total |-> total, items |-> items]]

\* A client begins to read a list.
Ask(c, q, size) ==
    /\ Accepting /\ session[c].stage = "new"
    /\ session' = [session EXCEPT ![c] =
          IF Valid(q)
          THEN Opened("count", q, Normalised(size, DefaultPageSize), NoAnswer, Matching(q))
          ELSE Opened("done", PlainRequest, DefaultPageSize, Empty(400), {})]
    /\ UNCHANGED <<front, list, rows, server, forced>>

\* It asks for the page after the one it got, or again for one it did not get.
AskMore(c) ==
    /\ Accepting /\ session[c].stage = "idle"
    /\ session[c].answer.code = 200 => session[c].page < MaxPage
    /\ session' = [session EXCEPT
          ![c].stage = "count", ![c].answer = NoAnswer,
          ![c].page = IF session[c].answer.code = 200 THEN @ + 1 ELSE @]
    /\ UNCHANGED <<front, list, rows, server, forced>>

\* Faulty variant: the count ignores the WHERE clause.
CountRowsAll(c) ==
    /\ session[c].stage = "count" /\ server \in {"up", "stopping"}
    /\ session' = [session EXCEPT ![c].stage = "page", ![c].total = Cardinality(rows)]
    /\ UNCHANGED <<front, list, rows, server, forced>>

CountRows(c) ==
    /\ session[c].stage = "count" /\ server \in {"up", "stopping"}
    /\ session' = [session EXCEPT
          ![c].stage = "page", ![c].total = Cardinality(Matching(session[c].req))]
    /\ UNCHANGED <<front, list, rows, server, forced>>

\* The page is answered with the total counted before it.  The client is done
\* when it is short.
FetchPage(c) ==
    /\ session[c].stage = "page" /\ server \in {"up", "stopping"}
    /\ \E items \in PageOf(Matching(session[c].req), session[c].page, session[c].size) :
          session' = [session EXCEPT ![c] =
              [Answered(c, 200, session[c].total, items) EXCEPT
                  !.stage = IF Cardinality(items) < session[c].size THEN "done" ELSE "idle",
                  !.seen = @ \cup items]]
    /\ UNCHANGED <<front, list, rows, server, forced>>

\* One of the two queries fails: code 4000 and a total of 0.
QueryFails(c) ==
    /\ InFlight(c)
    /\ session' = [session EXCEPT ![c] = Answered(c, 4000, 0, {})]
    /\ UNCHANGED <<front, list, rows, server, forced>>

\* The loops of the other processes: rows are inserted, at any time in the
\* past, and never deleted.
Insert(r) ==
    /\ \A s \in rows : s.id # r.id
    /\ rows' = rows \cup {r}
    /\ UNCHANGED <<front, list, server, forced, session>>

-----------------------------------------------------------------------------
(* Stop                                                                    *)

Interrupt ==
    /\ server = "up" /\ server' = "stopping"
    /\ UNCHANGED <<front, list, rows, forced, session>>

InterruptAgain ==
    /\ server = "stopping" /\ ~forced /\ forced' = TRUE
    /\ UNCHANGED <<front, list, rows, server, session>>

\* Requests whose connections are closed get no answer.
Cut == session' = [c \in Clients |->
                      IF InFlight(c) THEN [session[c] EXCEPT !.stage = "cut"] ELSE session[c]]

\* Faulty variant: the server is closed without waiting.
ShutdownAtOnce ==
    /\ front = "http" /\ server = "stopping"
    /\ server' = "closed" /\ Cut
    /\ UNCHANGED <<front, list, rows, forced>>

\* Faulty variant: Shutdown with a context that is never cancelled.
ShutdownPatient ==
    /\ front = "http" /\ server = "stopping"
    /\ \A c \in Clients : ~InFlight(c)
    /\ server' = "closed" /\ Cut
    /\ UNCHANGED <<front, list, rows, forced>>

\* Shutdown waits for the requests in flight; when the stop context is
\* cancelled first, Close cuts them.  Then the database is closed.
ShutdownHttp ==
    /\ front = "http" /\ server = "stopping"
    /\ forced \/ \A c \in Clients : ~InFlight(c)
    /\ server' = "closed" /\ Cut
    /\ UNCHANGED <<front, list, rows, forced>>

\* The process ends; Stop of the gRPC service has only set a flag.
Exit ==
    /\ server = IF front = "http" THEN "closed" ELSE "stopping"
    /\ server' = "gone" /\ Cut
    /\ UNCHANGED <<front, list, rows, forced>>

ServerNext == ShutdownHttp \/ Exit

Next ==
    \/ ServerNext \/ Interrupt \/ InterruptAgain
    \/ \E r \in Row : Insert(r)
    \/ \E c \in Clients :
          \/ \E q \in Request, size \in Sizes : Ask(c, q, size)
          \/ AskMore(c) \/ CountRows(c) \/ FetchPage(c) \/ QueryFails(c)

Spec == Init /\ [][Next]_vars

\* main runs on; a query may take for ever.
FairSpec == Spec /\ WF_vars(ServerNext)

-----------------------------------------------------------------------------
(* Properties                                                              *)

Answer == [code : {0, 200, 400, 4000}, total : Nat, items : SUBSET Row]

Session == [stage : {"new", "idle", "count", "page", "done", "cut"},
            req : AnyRequest,
            page : 1 .. MaxPage, size : Nat \ {0}, total : Nat,
            answer : Answer,
            seen : SUBSET Row, owed : SUBSET Row]

\* Types; only rows of the table are shown and owed, and no more than a page
\* of them at once.
TypeOK ==
    /\ front \in Fronts /\ list \in {"klines", "markets"}
    /\ rows \subseteq Row
    /\ \A r, s \in rows : r.id = s.id => r = s
    /\ server \in {"up", "stopping", "closed", "gone"} /\ forced \in BOOLEAN
    /\ session \in [Clients -> Session]
    /\ \A c \in Clients :
          /\ session[c].seen \cup session[c].owed \subseteq rows
          /\ Cardinality(session[c].answer.items) <= session[c].size

\* A client that reads pages until one is short has seen every row that was
\* there when it began, whatever was inserted between its pages, in front of
\* or behind them, and whatever failed; but for rows that share their instant
\* with another one, which two pages may order differently
\* (symbol_kline.go:54-94, symbol_market.go:55-89).
PagesCoverTheList ==
    \A c \in Clients :
        session[c].stage = "done" /\ session[c].answer.code = 200 =>
            \A r \in session[c].owed :
                (\A s \in rows : s.at = r.at => s = r) => r \in session[c].seen

\* The rows a total announces can be fetched: it is counted before the page
\* and nothing is deleted, so that a page is never shorter than it says.
TotalIsReachable ==
    \A c \in Clients :
        session[c].answer.code = 200 /\ session[c].stage \in {"idle", "done"} =>
            LET left == session[c].answer.total - (session[c].page - 1) * session[c].size
            IN  Cardinality(session[c].answer.items) >=
                    IF left < session[c].size THEN left ELSE session[c].size

\* After a single interrupt the HTTP API answers every request it has accepted
\* before it closes the database (api.go:145-170, server.go:117-127).
GracefulStopAnswers ==
    \A c \in Clients : session[c].stage = "cut" => front = "grpc" \/ forced

\* A second interrupt ends the process, even while a query hangs
\* (server.go:121-123).
ForcedStopEnds == (server = "stopping" /\ forced) ~> server = "gone"
=============================================================================
