--------------------------- MODULE UsersApiProofs ---------------------------
(***************************************************************************)
(* Proofs about UsersApi, for any requests, users, tokens and inputs.      *)
(***************************************************************************)
EXTENDS UsersApi, TLAPS

-----------------------------------------------------------------------------
(* Type correctness *)

(* What an update writes is a record of the table.                         *)
LEMMA UpdateTyped ==
  ASSUME NEW r \in Requests, NEW item \in [Attributes -> Requests \cup {Absent}]
  PROVE  UpdatedItem(r, item) \in [Attributes -> Requests \cup {Absent}]
  BY DEF UpdatedItem

(* A request that has been received carries an input.                      *)
LEMMA Received ==
  ASSUME TypeOK, NEW r \in Requests, phase[r] # "new"
  PROVE  input[r] \in Inputs /\ input[r].user \in Usernames
  BY InputsAssumption DEF TypeOK

LEMMA BodyErrorIsStatus ==
  ASSUME NEW i
  PROVE  BodyError(i) \in {400, 500, Absent}
  BY DEF BodyError

(* A request that advances or is answered leaves the others where they are. *)
LEMMA AnswerTyped ==
  ASSUME TypeOK, NEW r \in Requests, phase[r] # "new",
         NEW status \in Statuses, Answer(r, status)
  PROVE  /\ answer' \in [Requests -> Statuses \cup {Absent}]
         /\ phase' \in [Requests -> {"new", "received", "allowed", "checked", "answered"}]
         /\ \A q \in Requests : phase[q] = "new" <=> phase'[q] = "new"
  BY DEF TypeOK, Answer

LEMMA AdvanceTyped ==
  ASSUME TypeOK, NEW r \in Requests, phase[r] # "new",
         NEW p \in {"allowed", "checked"}, Advance(r, p)
  PROVE  /\ answer' \in [Requests -> Statuses \cup {Absent}]
         /\ phase' \in [Requests -> {"new", "received", "allowed", "checked", "answered"}]
         /\ \A q \in Requests : phase[q] = "new" <=> phase'[q] = "new"
  BY DEF TypeOK, Advance

(* A write leaves the table and the histories well typed.                  *)
LEMMA WriteTyped ==
  ASSUME TypeOK, NEW r \in Requests, phase[r] # "new", NEW status \in Statuses,
         NEW item \in [Attributes -> Requests \cup {Absent}], Write(r, item, status)
  PROVE  TypeOK'
<1>1. input[r].user \in Usernames
  BY Received
<1>2. table' \in [Usernames -> [Attributes -> Requests \cup {Absent}]]
  BY <1>1 DEF TypeOK, Write
<1>3. history' \in [Usernames -> Seq(Requests)]
  <2>1. Append(history[input[r].user], r) \in Seq(Requests)
    BY <1>1 DEF TypeOK
  <2> QED
    BY <1>1, <2>1 DEF TypeOK, Write
<1>4. PICK given \in Statuses : Answer(r, given)
  BY DEF Write, Statuses
<1> QED
  BY <1>2, <1>3, <1>4, AnswerTyped DEF TypeOK, Write, authorizer

LEMMA TypeStep == TypeOK /\ [Next]_vars => TypeOK'
<1> SUFFICES ASSUME TypeOK, [Next]_vars PROVE TypeOK'
  OBVIOUS
<1>1. ASSUME NEW r \in Requests, Receive(r) PROVE TypeOK'
  BY <1>1, AbsentAssumption DEF TypeOK, Receive, Advance, unwritten, authorizer
<1>2. ASSUME NEW r \in Requests, NEW e \in Environments, Authorize(r, e) PROVE TypeOK'
  <2>1. Advance(r, "allowed") \/ Answer(r, 401)
    BY <1>2 DEF Authorize, generate_policy
  <2>2. phase[r] # "new" /\ jwks' \subseteq Environments
    BY <1>2 DEF TypeOK, Authorize
  <2> QED
    BY <1>2, <2>1, <2>2, AnswerTyped, AdvanceTyped DEF TypeOK, Authorize, unwritten, Statuses
<1>3. ASSUME NEW r \in Requests, Refuse(r) PROVE TypeOK'
  <2>1. PICK given \in Statuses : Answer(r, given)
    BY <1>3, BodyErrorIsStatus DEF Refuse, Statuses
  <2> QED
    BY <1>3, <2>1, AnswerTyped DEF TypeOK, Refuse, At, unwritten, authorizer
<1>4. ASSUME NEW r \in Requests, Check(r) PROVE TypeOK'
  <2>1. input[r].user \in Usernames
    BY <1>4, Received DEF Check, At
  <2>2. seenAt' \in [Requests -> Nat]
    BY <1>4, <2>1 DEF TypeOK, Check
  <2>3. Advance(r, "checked") \/ \E given \in Statuses : Answer(r, given)
    BY <1>4 DEF Check, Statuses
  <2> QED
    BY <1>4, <2>2, <2>3, AnswerTyped, AdvanceTyped DEF TypeOK, Check, At, authorizer
<1>5. ASSUME NEW r \in Requests, Put(r) PROVE TypeOK'
  <2>1. NewItem(r) \in [Attributes -> Requests \cup {Absent}]
    BY DEF NewItem
  <2> QED
    BY <1>5, <2>1, WriteTyped DEF Put, At, Statuses
<1>6. ASSUME NEW r \in Requests, Update(r) PROVE TypeOK'
  <2>1. table[input[r].user] \in [Attributes -> Requests \cup {Absent}]
    BY <1>6, Received DEF TypeOK, Update, At
  <2>2. PICK status \in Statuses : Write(r, UpdatedItem(r, table[input[r].user]), status)
    BY <1>6 DEF Update, Statuses
  <2> QED
    BY <1>6, <2>1, <2>2, UpdateTyped, WriteTyped DEF Update, At
<1>7. ASSUME NEW r \in Requests, Delete(r) PROVE TypeOK'
  <2>1. NoItem \in [Attributes -> Requests \cup {Absent}]
    BY DEF NoItem
  <2> QED
    BY <1>7, <2>1, WriteTyped DEF Delete, At, Statuses
<1>8. ASSUME NEW r \in Requests, Read(r) PROVE TypeOK'
  <2>1. PICK given \in Statuses : Answer(r, given)
    BY <1>8 DEF Read, Statuses
  <2> QED
    BY <1>8, <2>1, AnswerTyped DEF TypeOK, Read, At, unwritten, authorizer
<1>9. ASSUME NEW r \in Requests, LambdaTimesOut(r) PROVE TypeOK'
  BY <1>9, AnswerTyped DEF TypeOK, LambdaTimesOut, unwritten, authorizer, Statuses
<1>10. CASE KeycloakChanges
  BY <1>10 DEF TypeOK, KeycloakChanges
<1>11. CASE UNCHANGED vars
  BY <1>11 DEF TypeOK, vars
<1> QED
  BY <1>1, <1>2, <1>3, <1>4, <1>5, <1>6, <1>7, <1>8, <1>9, <1>10, <1>11 DEF Next

(* The table, the requests and the caches keep their shape.                *)
THEOREM UsersApiTypeCorrect == Spec => []TypeOK
<1>1. Init => TypeOK
  BY DEF Init, TypeOK, NoItem
<1> QED
  BY <1>1, TypeStep, PTL DEF Spec

-----------------------------------------------------------------------------
(* What a step does to the requests and the table *)

(* The record with which a request's write replaces the user's.            *)
Written(r) ==
    CASE input[r].op = "create" -> NewItem(r)
      [] input[r].op = "update" -> UpdatedItem(r, table[input[r].user])
      [] OTHER                  -> NoItem

(* One request changes the table, and is answered.                         *)
Changes(r, status) ==
    LET u == input[r].user IN
    /\ phase[r] = "checked"
    /\ input[r].op \in Writes
    /\ table' = [table EXCEPT ![u] = Written(r)]
    /\ history' = [history EXCEPT ![u] = Append(@, r)]
    /\ phase' = [phase EXCEPT ![r] = "answered"]
    /\ answer' = [answer EXCEPT ![r] = status]
    /\ UNCHANGED <<input, seenAt>>

(* The table stays, a request that was answered or checked keeps what it    *)
(* has, and one may be checked or answered.                                 *)
Keeps ==
    /\ UNCHANGED <<table, history>>
    /\ \A r \in Requests :
          /\ phase[r] # "new" => input'[r] = input[r] /\ phase'[r] # "new"
          /\ phase[r] \in {"checked", "answered"} => seenAt'[r] = seenAt[r]
          /\ phase[r] = "answered" => phase'[r] = "answered" /\ answer'[r] = answer[r]
          /\ phase'[r] = "answered" \/ answer'[r] = answer[r]
          /\ phase[r] # "answered" /\ phase'[r] = "answered" /\ answer'[r] \in {200, 201} =>
                input'[r].op \notin Writes
          /\ phase'[r] = "checked" /\ phase[r] # "checked" =>
                /\ phase[r] = "allowed"
                /\ is_admin(r)
                /\ ~Conflict(input[r].op, Exists(input[r].user))
                /\ seenAt'[r] = Len(history[input[r].user])

LEMMA WriteIsEither ==
  ASSUME TypeOK, NEW r \in Requests, phase[r] = "checked", input[r].op \in Writes,
         NEW status \in {200, 201, 500}, Write(r, Written(r), status)
  PROVE  Keeps \/ \E given \in {200, 201, 500, 502} : Changes(r, given)
<1>1. CASE Answer(r, 503) /\ UNCHANGED <<table, history>>
  BY <1>1 DEF TypeOK, Write, Answer, Keeps
<1>2. CASE ~(Answer(r, 503) /\ UNCHANGED <<table, history>>)
  BY <1>2 DEF Write, Answer, Changes
<1> QED
  BY <1>1, <1>2

LEMMA StepIsEither ==
  ASSUME TypeOK, [Next]_vars
  PROVE  Keeps \/ \E r \in Requests, given \in {200, 201, 500, 502} : Changes(r, given)
<1>1. ASSUME NEW r \in Requests, Receive(r) PROVE Keeps
  BY <1>1 DEF TypeOK, Receive, Advance, unwritten, Keeps
<1>2. ASSUME NEW r \in Requests, NEW e \in Environments, Authorize(r, e) PROVE Keeps
  <2>1. CASE Answer(r, 401)
    BY <1>2, <2>1 DEF TypeOK, Authorize, Answer, unwritten, Keeps
  <2>2. CASE Advance(r, "allowed")
    BY <1>2, <2>2 DEF TypeOK, Authorize, Advance, unwritten, Keeps
  <2> QED
    BY <1>2, <2>1, <2>2 DEF Authorize, generate_policy
<1>3. ASSUME NEW r \in Requests, Refuse(r) PROVE Keeps
  <2>1. PICK given \in {403, 400, 500} : Answer(r, given)
    BY <1>3, BodyErrorIsStatus DEF Refuse
  <2> QED
    BY <1>3, <2>1 DEF TypeOK, Refuse, At, Answer, unwritten, Keeps
<1>4. ASSUME NEW r \in Requests, Check(r) PROVE Keeps
  <2>1. CASE \E given \in {503, 409, 404, 500} : Answer(r, given)
    BY <1>4, <2>1 DEF TypeOK, Check, At, Answer, Keeps
  <2>2. CASE Advance(r, "checked") /\ ~Conflict(input[r].op, Exists(input[r].user))
    BY <1>4, <2>2 DEF TypeOK, Check, At, Advance, Keeps
  <2> QED
    BY <1>4, <2>1, <2>2 DEF Check
<1>5. ASSUME NEW r \in Requests, Put(r)
      PROVE  Keeps \/ \E given \in {200, 201, 500, 502} : Changes(r, given)
  <2>1. Write(r, Written(r), 201)
    BY <1>5 DEF Put, At, Written
  <2> QED
    BY <1>5, <2>1, WriteIsEither DEF Put, At, Writes
<1>6. ASSUME NEW r \in Requests, Update(r)
      PROVE  Keeps \/ \E given \in {200, 201, 500, 502} : Changes(r, given)
  <2>1. PICK status \in {200, 500} : Write(r, Written(r), status)
    BY <1>6 DEF Update, At, Written
  <2> QED
    BY <1>6, <2>1, WriteIsEither DEF Update, At, Writes
<1>7. ASSUME NEW r \in Requests, Delete(r)
      PROVE  Keeps \/ \E given \in {200, 201, 500, 502} : Changes(r, given)
  <2>1. Write(r, Written(r), 200)
    BY <1>7 DEF Delete, At, Written
  <2> QED
    BY <1>7, <2>1, WriteIsEither DEF Delete, At, Writes
<1>8. ASSUME NEW r \in Requests, Read(r) PROVE Keeps
  <2>1. PICK given : Answer(r, given)
    BY <1>8 DEF Read
  <2>2. input[r].op \notin Writes /\ phase[r] = "allowed"
    BY <1>8 DEF Read, At, Writes
  <2>3. UNCHANGED <<table, history, seenAt, input>>
    BY <1>8 DEF Read, unwritten
  <2> QED
    BY <2>1, <2>2, <2>3 DEF TypeOK, Answer, Keeps
<1>9. ASSUME NEW r \in Requests, LambdaTimesOut(r) PROVE Keeps
  BY <1>9 DEF TypeOK, LambdaTimesOut, Answer, unwritten, Keeps
<1>10. CASE KeycloakChanges \/ UNCHANGED vars
  BY <1>10 DEF KeycloakChanges, vars, Keeps
<1> QED
  BY <1>1, <1>2, <1>3, <1>4, <1>5, <1>6, <1>7, <1>8, <1>9, <1>10 DEF Next

(* A change appends its request to the history of its user and leaves the  *)
(* other users alone.                                                      *)
LEMMA Appended ==
  ASSUME TypeOK, NEW r \in Requests, NEW status, Changes(r, status),
         NEW u, u = input[r].user, NEW n, n = Len(history[u])
  PROVE  /\ u \in Usernames /\ n \in Nat
         /\ \A v \in Usernames : DOMAIN history[v] = 1..Len(history[v])
         /\ history[u] \in Seq(Requests)
         /\ Len(history'[u]) = n + 1 /\ DOMAIN history'[u] = 1..(n + 1)
         /\ history'[u][n + 1] = r
         /\ \A k \in 1..n : history'[u][k] = history[u][k]
         /\ table'[u] = Written(r)
         /\ \A v \in Usernames : v # u => history'[v] = history[v] /\ table'[v] = table[v]
<1>1. u \in Usernames
  BY Received DEF Changes
<1>2. history[u] \in Seq(Requests) /\ \A v \in Usernames : history[v] \in Seq(Requests)
  BY <1>1 DEF TypeOK
<1>3. history'[u] = Append(history[u], r)
  BY <1>1 DEF TypeOK, Changes
<1>4. table'[u] = Written(r)
  BY <1>1 DEF TypeOK, Changes
<1>5. \A v \in Usernames : v # u => history'[v] = history[v] /\ table'[v] = table[v]
  BY <1>1 DEF TypeOK, Changes
<1> QED
  BY <1>1, <1>2, <1>3, <1>4, <1>5

-----------------------------------------------------------------------------
(* Histories and answers *)

(* A request changes the table when it is answered, once, and with no      *)
(* refusal; a success of a write has changed it.                           *)
HistoryOfAnswered ==
    /\ \A u \in Usernames : \A k \in DOMAIN history[u] :
          LET r == history[u][k] IN
          /\ phase[r] = "answered"
          /\ answer[r] \in {200, 201, 500, 502}
          /\ input[r].user = u
          /\ input[r].op \in Writes
    /\ \A u \in Usernames : \A j, k \in DOMAIN history[u] :
          history[u][j] = history[u][k] => j = k
    /\ \A r \in Requests :
          /\ phase[r] # "answered" => answer[r] = Absent
          /\ answer[r] \in {200, 201} /\ input[r].op \in Writes =>
                \E k \in DOMAIN history[input[r].user] : history[input[r].user][k] = r

(* What is known of the requests of a history stays as it is when the table *)
(* does.                                                                    *)
LEMMA KeptForHistory ==
  ASSUME TypeOK, HistoryOfAnswered, Keeps,
         NEW u \in Usernames, NEW k \in DOMAIN history[u]
  PROVE  LET r == history[u][k] IN
         /\ r \in Requests
         /\ history'[u] = history[u]
         /\ phase'[r] = "answered" /\ answer'[r] = answer[r]
         /\ input'[r] = input[r] /\ seenAt'[r] = seenAt[r]
<1>1. history[u][k] \in Requests
  BY DEF TypeOK
<1>2. phase[history[u][k]] = "answered"
  BY DEF HistoryOfAnswered
<1> QED
  BY <1>1, <1>2 DEF Keeps

LEMMA HistoryStep == TypeOK /\ HistoryOfAnswered /\ [Next]_vars => HistoryOfAnswered'
<1> SUFFICES ASSUME TypeOK, HistoryOfAnswered, [Next]_vars PROVE HistoryOfAnswered'
  OBVIOUS
<1>1. CASE Keeps
  <2>1. ASSUME NEW u \in Usernames, NEW k \in DOMAIN history'[u]
        PROVE  LET r == history'[u][k] IN
               /\ phase'[r] = "answered"
               /\ answer'[r] \in {200, 201, 500, 502}
               /\ input'[r].user = u
               /\ input'[r].op \in Writes
    <3>1. history'[u] = history[u]
      BY <1>1 DEF Keeps
    <3> QED
      BY <1>1, <3>1, KeptForHistory DEF HistoryOfAnswered
  <2>2. ASSUME NEW u \in Usernames, NEW j \in DOMAIN history'[u], NEW k \in DOMAIN history'[u],
               history'[u][j] = history'[u][k]
        PROVE  j = k
    BY <1>1, <2>2 DEF HistoryOfAnswered, Keeps
  <2>3. ASSUME NEW r \in Requests, phase'[r] # "answered"
        PROVE  answer'[r] = Absent
    BY <1>1, <2>3 DEF HistoryOfAnswered, Keeps
  <2>4. ASSUME NEW r \in Requests, answer'[r] \in {200, 201}, input'[r].op \in Writes
        PROVE  \E k \in DOMAIN history'[input'[r].user] : history'[input'[r].user][k] = r
    <3>1. phase'[r] = "answered"
      BY <2>3, <2>4, AbsentAssumption DEF Statuses
    <3>2. phase[r] = "answered"
      BY <1>1, <2>4, <3>1 DEF Keeps
    <3>3. input'[r] = input[r] /\ answer'[r] = answer[r] /\ history' = history
      BY <1>1, <3>2 DEF Keeps
    <3> QED
      BY <2>4, <3>3 DEF HistoryOfAnswered
  <2> QED
    BY <2>1, <2>2, <2>3, <2>4 DEF HistoryOfAnswered
<1>2. ASSUME NEW r \in Requests, NEW given \in {200, 201, 500, 502}, Changes(r, given)
      PROVE  HistoryOfAnswered'
  <2>u. PICK u : u = input[r].user
    OBVIOUS
  <2>n. PICK n : n = Len(history[u])
    OBVIOUS
  <2>0. /\ u \in Usernames /\ n \in Nat
        /\ \A v \in Usernames : DOMAIN history[v] = 1..Len(history[v])
        /\ DOMAIN history'[u] = 1..(n + 1)
        /\ history'[u][n + 1] = r
        /\ \A k \in 1..n : history'[u][k] = history[u][k]
        /\ \A v \in Usernames : v # u => history'[v] = history[v]
    BY <1>2, <2>u, <2>n, Appended
  <2>1. /\ phase[r] = "checked" /\ input' = input /\ input[r].op \in Writes
        /\ phase'[r] = "answered" /\ answer'[r] = given
        /\ \A q \in Requests : q # r => phase'[q] = phase[q] /\ answer'[q] = answer[q]
    BY <1>2 DEF TypeOK, Changes
  <2>2. \A v \in Usernames : \A k \in DOMAIN history[v] :
           history[v][k] \in Requests /\ history[v][k] # r
    BY <2>1 DEF TypeOK, HistoryOfAnswered
  <2>3. ASSUME NEW v \in Usernames, NEW k \in DOMAIN history'[v]
        PROVE  LET q == history'[v][k] IN
               /\ phase'[q] = "answered"
               /\ answer'[q] \in {200, 201, 500, 502}
               /\ input'[q].user = v
               /\ input'[q].op \in Writes
    <3>1. CASE v = u /\ k = n + 1
      BY <2>u, <2>0, <2>1, <3>1
    <3>2. CASE ~(v = u /\ k = n + 1)
      <4>1. k \in DOMAIN history[v] /\ history'[v][k] = history[v][k]
        BY <2>0, <3>2, <2>n
      <4> QED
        BY <2>1, <2>2, <4>1 DEF HistoryOfAnswered
    <3> QED
      BY <3>1, <3>2
  <2>4. ASSUME NEW v \in Usernames, NEW j \in DOMAIN history'[v], NEW k \in DOMAIN history'[v],
               history'[v][j] = history'[v][k]
        PROVE  j = k
    <3>1. CASE v # u
      BY <2>0, <2>4, <3>1 DEF HistoryOfAnswered
    <3>2. CASE v = u
      <4>1. DOMAIN history[u] = 1..n
        BY <2>0, <2>n
      <4>2. ASSUME NEW i \in 1..n PROVE history'[u][i] # r
        BY <2>0, <2>2, <4>1
      <4>3. CASE j \in 1..n /\ k \in 1..n
        BY <2>0, <2>4, <3>2, <4>1, <4>3 DEF HistoryOfAnswered
      <4> QED
        BY <2>0, <2>4, <3>2, <4>2, <4>3
    <3> QED
      BY <3>1, <3>2
  <2>5. ASSUME NEW q \in Requests, phase'[q] # "answered"
        PROVE  answer'[q] = Absent
    BY <2>1, <2>5 DEF HistoryOfAnswered
  <2>6. ASSUME NEW q \in Requests, answer'[q] \in {200, 201}, input'[q].op \in Writes
        PROVE  \E k \in DOMAIN history'[input'[q].user] : history'[input'[q].user][k] = q
    <3>1. CASE q = r
      BY <2>u, <2>0, <2>1, <3>1
    <3>2. CASE q # r
      <4>1. answer[q] \in {200, 201} /\ input[q].op \in Writes
        BY <2>1, <2>6, <3>2
      <4>2. PICK k \in DOMAIN history[input[q].user] : history[input[q].user][k] = q
        BY <4>1 DEF HistoryOfAnswered
      <4>3. input[q].user \in Usernames
        BY <4>1, Received, AbsentAssumption DEF HistoryOfAnswered, Statuses
      <4>4. k \in DOMAIN history'[input[q].user] /\ history'[input[q].user][k] = q
        BY <2>0, <4>2, <4>3, <2>n
      <4> QED
        BY <2>1, <4>4
    <3> QED
      BY <3>1, <3>2
  <2> QED
    BY <2>3, <2>4, <2>5, <2>6 DEF HistoryOfAnswered
<1> QED
  BY <1>1, <1>2, StepIsEither

LEMMA HistoryAlways == Spec => [](TypeOK /\ HistoryOfAnswered)
<1>1. Init => HistoryOfAnswered
  BY AbsentAssumption DEF Init, HistoryOfAnswered, Statuses
<1> QED
  BY <1>1, HistoryStep, UsersApiTypeCorrect, PTL DEF Spec

(* A status code tells whether the table was changed: 2xx exactly once,    *)
(* 4xx and a denial never.                                                 *)
THEOREM AnswersTellEffects == Spec => []AnswerTellsEffect
<1>1. TypeOK /\ HistoryOfAnswered => AnswerTellsEffect
  <2> SUFFICES ASSUME TypeOK, HistoryOfAnswered, NEW r \in Requests, phase[r] = "answered"
               PROVE  LET places == {k \in DOMAIN history[input[r].user] :
                                        history[input[r].user][k] = r} IN
                      /\ answer[r] \in {200, 201} /\ input[r].op \in Writes =>
                            \E k \in places : places = {k}
                      /\ answer[r] \in {400, 401, 403, 404, 409} => places = {}
    BY DEF AnswerTellsEffect
  <2> DEFINE places == {k \in DOMAIN history[input[r].user] : history[input[r].user][k] = r}
  <2>1. input[r].user \in Usernames
    BY Received
  <2>2. ASSUME answer[r] \in {200, 201}, input[r].op \in Writes
        PROVE  \E k \in places : places = {k}
    <3>1. PICK k \in places : TRUE
      BY <2>2 DEF HistoryOfAnswered
    <3>2. \A j \in places : j = k
      BY <2>1, <3>1 DEF HistoryOfAnswered
    <3> QED
      BY <3>1, <3>2
  <2>3. ASSUME answer[r] \in {400, 401, 403, 404, 409}
        PROVE  places = {}
    BY <2>1, <2>3 DEF HistoryOfAnswered
  <2> QED
    BY <2>2, <2>3
<1> QED
  BY <1>1, HistoryAlways, PTL

-----------------------------------------------------------------------------
(* What the lookup before a write is worth *)

(* The table has a user if the last change did not delete it; a request     *)
(* that was checked, and one that changed the table, is an administrator's   *)
(* and found what its operation needs when it looked.                        *)
JudgedAsSeen ==
    /\ \A u \in Usernames : Exists(u) <=> PresentAfter(u, Len(history[u]))
    /\ \A r \in Requests : phase[r] = "checked" =>
          /\ "admin" \in input[r].token.realm
          /\ seenAt[r] <= Len(history[input[r].user])
          /\ input[r].op = "create" <=> ~PresentAfter(input[r].user, seenAt[r])
    /\ WritesJudgedAsSeen

(* A client's own role never makes an administrator.                       *)
LEMMA AdminHasRealmRole ==
  ASSUME NEW r, is_admin(r)
  PROVE  "admin" \in input[r].token.realm
<1>1. \A role : <<"admin">> # <<"client", role>>
  OBVIOUS
<1>2. PICK role \in input[r].token.realm : <<"admin">> = <<role>>
  BY <1>1 DEF is_admin, extract_roles
<1> QED
  BY <1>2

(* Whether a user was there after some changes is not changed by later ones. *)
LEMMA PresenceKept ==
  ASSUME TypeOK, HistoryOfAnswered, Keeps, NEW u \in Usernames,
         NEW n \in Nat, n <= Len(history[u])
  PROVE  PresentAfter(u, n)' <=> PresentAfter(u, n)
<1>1. history[u] \in Seq(Requests)
  BY DEF TypeOK
<1>2. CASE n = 0
  BY <1>2 DEF PresentAfter
<1>3. CASE n # 0
  <2>1. n \in DOMAIN history[u]
    BY <1>1, <1>3
  <2> QED
    BY <2>1, KeptForHistory DEF PresentAfter
<1> QED
  BY <1>2, <1>3

LEMMA PresenceExtended ==
  ASSUME TypeOK, NEW r \in Requests, NEW status, Changes(r, status),
         NEW u \in Usernames, NEW n \in Nat, n <= Len(history[u])
  PROVE  PresentAfter(u, n)' <=> PresentAfter(u, n)
<1>1. input' = input
  BY DEF Changes
<1>2. PICK w, m : w = input[r].user /\ m = Len(history[w])
  OBVIOUS
<1>3. /\ \A k \in 1..m : history'[w][k] = history[w][k]
      /\ u # w => history'[u] = history[u]
  BY <1>2, Appended
<1>4. n > 0 => history'[u][n] = history[u][n]
  BY <1>2, <1>3
<1> QED
  BY <1>1, <1>4 DEF PresentAfter

(* A record that was written is no record only when the write deleted it.  *)
LEMMA WrittenExists ==
  ASSUME NEW r \in Requests, input[r].op \in Writes
  PROVE  Written(r) # NoItem <=> input[r].op # "delete"
<1>1. CASE input[r].op = "create"
  <2>1. NewItem(r)["created"] = r /\ NoItem["created"] = Absent
    BY DEF NewItem, NoItem, Attributes
  <2> QED
    BY <1>1, <2>1, AbsentAssumption DEF Written
<1>2. CASE input[r].op = "update"
  <2>1. \A item : UpdatedItem(r, item)["updated"] = r /\ NoItem["updated"] = Absent
    BY DEF UpdatedItem, NoItem, Attributes
  <2> QED
    BY <1>2, <2>1, AbsentAssumption DEF Written
<1> QED
  BY <1>1, <1>2 DEF Written, Writes

LEMMA JudgedStep ==
  TypeOK /\ HistoryOfAnswered /\ JudgedAsSeen /\ [Next]_vars => JudgedAsSeen'
<1> SUFFICES ASSUME TypeOK, HistoryOfAnswered, JudgedAsSeen, [Next]_vars PROVE JudgedAsSeen'
  OBVIOUS
<1>0. \A v \in Usernames : history[v] \in Seq(Requests) /\ DOMAIN history[v] = 1..Len(history[v])
  BY DEF TypeOK
<1>1. CASE Keeps
  <2>1. ASSUME NEW u \in Usernames
        PROVE  Exists(u)' <=> PresentAfter(u, Len(history[u]))'
    <3>1. PICK n : n = Len(history[u]) /\ n \in Nat
      BY <1>0
    <3>2. PresentAfter(u, n)' <=> PresentAfter(u, n)
      BY <1>1, <3>1, PresenceKept
    <3>3. Exists(u)' <=> Exists(u)
      BY <1>1 DEF Keeps, Exists, NoItem
    <3>4. history' = history
      BY <1>1 DEF Keeps
    <3> QED
      BY <3>1, <3>2, <3>3, <3>4 DEF JudgedAsSeen, PresentAfter
  <2>2. ASSUME NEW r \in Requests, phase'[r] = "checked"
        PROVE  /\ "admin" \in input'[r].token.realm
               /\ seenAt'[r] <= Len(history'[input'[r].user])
               /\ input'[r].op = "create" <=> ~PresentAfter(input[r].user, seenAt[r])'
    <3>1. input'[r] = input[r] /\ history' = history /\ input[r].user \in Usernames
      BY <1>1, <2>2, Received DEF Keeps
    <3>2. PICK n : n = seenAt'[r]
      OBVIOUS
    <3>3. /\ "admin" \in input[r].token.realm
          /\ n \in Nat /\ n <= Len(history[input[r].user])
          /\ input[r].op = "create" <=> ~PresentAfter(input[r].user, n)
      <4>1. CASE phase[r] = "checked"
        BY <1>1, <3>2, <4>1 DEF TypeOK, Keeps, JudgedAsSeen
      <4>2. CASE phase[r] # "checked"
        <5>1. /\ is_admin(r) /\ n = Len(history[input[r].user])
              /\ ~Conflict(input[r].op, Exists(input[r].user))
          BY <1>1, <2>2, <3>2, <4>2 DEF Keeps
        <5> QED
          BY <1>0, <3>1, <5>1, AdminHasRealmRole DEF Conflict, JudgedAsSeen
      <4> QED
        BY <4>1, <4>2
    <3>4. PICK u : u = input[r].user
      OBVIOUS
    <3>5. PresentAfter(u, n)' <=> PresentAfter(u, n)
      BY <1>1, <3>1, <3>3, <3>4, PresenceKept
    <3> QED
      BY <3>1, <3>2, <3>3, <3>4, <3>5 DEF PresentAfter
  <2>3. WritesJudgedAsSeen'
    <3>1. ASSUME NEW u \in Usernames, NEW k \in DOMAIN history'[u], NEW r, r = history'[u][k]
          PROVE  /\ "admin" \in input'[r].token.realm
                 /\ seenAt'[r] < k
                 /\ input'[r].op = "create" <=> ~PresentAfter(u, seenAt[r])'
      <4>1. history' = history
        BY <1>1 DEF Keeps
      <4>2. input'[r] = input[r] /\ seenAt'[r] = seenAt[r] /\ r \in Requests
        BY <1>1, <3>1, <4>1, KeptForHistory
      <4>3. PICK n : n = seenAt[r] /\ n \in Nat
        BY <4>2 DEF TypeOK
      <4>4. /\ "admin" \in input[r].token.realm
            /\ seenAt[r] < k
            /\ input[r].op = "create" <=> ~PresentAfter(u, n)
        BY <3>1, <4>1, <4>3 DEF JudgedAsSeen, WritesJudgedAsSeen
      <4>5. PresentAfter(u, n)' <=> PresentAfter(u, n)
        BY <1>0, <1>1, <3>1, <4>1, <4>3, <4>4, PresenceKept
      <4> QED
        BY <4>2, <4>3, <4>4, <4>5 DEF PresentAfter
    <3> QED
      BY <3>1 DEF WritesJudgedAsSeen, PresentAfter
  <2> QED
    BY <2>1, <2>2, <2>3 DEF JudgedAsSeen, PresentAfter
<1>2. ASSUME NEW r \in Requests, NEW given \in {200, 201, 500, 502}, Changes(r, given)
      PROVE  JudgedAsSeen'
  <2>u. PICK u : u = input[r].user
    OBVIOUS
  <2>n. PICK n : n = Len(history[u])
    OBVIOUS
  <2>0. /\ u \in Usernames /\ n \in Nat
        /\ Len(history'[u]) = n + 1 /\ DOMAIN history'[u] = 1..(n + 1)
        /\ history'[u][n + 1] = r
        /\ \A k \in 1..n : history'[u][k] = history[u][k]
        /\ table'[u] = Written(r)
        /\ \A v \in Usernames : v # u => history'[v] = history[v] /\ table'[v] = table[v]
    BY <1>2, <2>u, <2>n, Appended
  <2>1. /\ phase[r] = "checked" /\ input' = input /\ seenAt' = seenAt /\ input[r].op \in Writes
        /\ phase'[r] = "answered"
        /\ \A q \in Requests : q # r => phase'[q] = phase[q]
    BY <1>2 DEF TypeOK, Changes
  <2>2. \A v \in Usernames : \A k \in Nat :
           k <= Len(history[v]) => (PresentAfter(v, k)' <=> PresentAfter(v, k))
    BY <1>2, PresenceExtended
  <2>3. PresentAfter(u, n + 1)' <=> input[r].op # "delete"
    BY <2>0, <2>1 DEF PresentAfter
  <2>4. ASSUME NEW v \in Usernames
        PROVE  Exists(v)' <=> PresentAfter(v, Len(history[v]))'
    <3>1. CASE v = u
      <4>1. Exists(u)' <=> input[r].op # "delete"
        BY <2>0, <2>1, WrittenExists DEF Exists, NoItem
      <4> QED
        BY <2>0, <2>3, <3>1, <4>1 DEF PresentAfter
    <3>2. CASE v # u
      BY <1>0, <2>0, <2>2, <3>2 DEF JudgedAsSeen, Exists, NoItem
    <3> QED
      BY <3>1, <3>2
  <2>5. ASSUME NEW q \in Requests, phase'[q] = "checked"
        PROVE  /\ "admin" \in input'[q].token.realm
               /\ seenAt'[q] <= Len(history'[input'[q].user])
               /\ input'[q].op = "create" <=> ~PresentAfter(input[q].user, seenAt[q])'
    <3>1. phase[q] = "checked" /\ input[q].user \in Usernames /\ seenAt[q] \in Nat
      BY <2>1, <2>5, Received DEF TypeOK
    <3>2. /\ "admin" \in input[q].token.realm
          /\ seenAt[q] <= Len(history[input[q].user])
          /\ input[q].op = "create" <=> ~PresentAfter(input[q].user, seenAt[q])
      BY <3>1 DEF JudgedAsSeen
    <3>3. Len(history'[input[q].user]) >= Len(history[input[q].user])
      BY <1>0, <2>0, <2>n, <3>1
    <3>4. PICK w, k : w = input[q].user /\ k = seenAt[q]
      OBVIOUS
    <3>5. PresentAfter(w, k)' <=> PresentAfter(w, k)
      BY <2>2, <3>1, <3>2, <3>4
    <3>6. Len(history[w]) \in Nat /\ Len(history'[w]) \in Nat
      BY <1>0, <2>0, <2>n, <3>1, <3>4
    <3> QED
      BY <2>1, <3>1, <3>2, <3>3, <3>4, <3>5, <3>6 DEF PresentAfter
  <2>6. WritesJudgedAsSeen'
    <3>1. ASSUME NEW v \in Usernames, NEW k \in DOMAIN history'[v], NEW q, q = history'[v][k]
          PROVE  /\ "admin" \in input[q].token.realm
                 /\ seenAt[q] < k
                 /\ input[q].op = "create" <=> ~PresentAfter(v, seenAt[q])'
      <4>1. CASE v = u /\ k = n + 1
        <5>1. q = r /\ seenAt[r] \in Nat
          BY <2>0, <3>1, <4>1 DEF TypeOK
        <5>2. /\ "admin" \in input[r].token.realm
              /\ seenAt[r] <= n
              /\ input[r].op = "create" <=> ~PresentAfter(u, seenAt[r])
          BY <2>1, <2>u, <2>n DEF JudgedAsSeen
        <5> QED
          BY <2>0, <2>1, <2>2, <2>n, <4>1, <5>1, <5>2 DEF PresentAfter
      <4>2. CASE ~(v = u /\ k = n + 1)
        <5>1. k \in DOMAIN history[v] /\ q = history[v][k]
          BY <1>0, <2>0, <2>n, <3>1, <4>2
        <5>2. /\ "admin" \in input[q].token.realm
              /\ seenAt[q] < k
              /\ input[q].op = "create" <=> ~PresentAfter(v, seenAt[q])
          BY <5>1 DEF JudgedAsSeen, WritesJudgedAsSeen
        <5>3. seenAt[q] \in Nat /\ seenAt[q] <= Len(history[v])
          BY <1>0, <5>1, <5>2 DEF TypeOK
        <5> QED
          BY <2>1, <2>2, <5>2, <5>3 DEF PresentAfter
      <4> QED
        BY <4>1, <4>2
    <3> QED
      BY <2>1, <3>1 DEF WritesJudgedAsSeen, PresentAfter
  <2> QED
    BY <2>4, <2>5, <2>6 DEF JudgedAsSeen, PresentAfter
<1> QED
  BY <1>1, <1>2, StepIsEither

LEMMA JudgedAlways == Spec => [](TypeOK /\ HistoryOfAnswered /\ JudgedAsSeen)
<1>1. Init => JudgedAsSeen
  BY DEF Init, JudgedAsSeen, WritesJudgedAsSeen, Exists, NoItem, PresentAfter
<1> QED
  BY <1>1, JudgedStep, HistoryAlways, PTL DEF Spec

(* A write was carried out only if its user was, when the request looked,   *)
(* what it needs, and only for an administrator.                            *)
THEOREM WritesAreJudgedAsSeen == Spec => []WritesJudgedAsSeen
  BY JudgedAlways, PTL DEF JudgedAsSeen

-----------------------------------------------------------------------------
(* Overlapping writes *)

LEMMA OrphansStep ==
  TypeOK /\ HistoryOfAnswered /\ JudgedAsSeen /\ OrphansComeFromRaces /\ [Next]_vars
    => OrphansComeFromRaces'
<1> SUFFICES ASSUME TypeOK, HistoryOfAnswered, JudgedAsSeen, OrphansComeFromRaces, [Next]_vars,
                    NEW u \in Usernames, Exists(u)', table'[u]["created"] = Absent
             PROVE  \E k \in DOMAIN history'[u] : \E j \in 1..(k - 1) :
                       /\ input'[history'[u][k]].op = "update"
                       /\ input'[history'[u][j]].op = "delete"
                       /\ seenAt'[history'[u][k]] < j
  BY DEF OrphansComeFromRaces
<1>0. history[u] \in Seq(Requests) /\ DOMAIN history[u] = 1..Len(history[u])
  BY DEF TypeOK
<1>a. ASSUME Exists(u), table[u]["created"] = Absent
      PROVE  \E k \in DOMAIN history[u] : \E j \in 1..(k - 1) :
                /\ input[history[u][k]].op = "update"
                /\ input[history[u][j]].op = "delete"
                /\ seenAt[history[u][k]] < j
  BY <1>a DEF OrphansComeFromRaces
<1>1. CASE Keeps
  <2>1. Exists(u) /\ table[u]["created"] = Absent /\ history' = history
    BY <1>1 DEF Keeps, Exists, NoItem
  <2>2. PICK k \in DOMAIN history[u] : \E j \in 1..(k - 1) :
                /\ input[history[u][k]].op = "update"
                /\ input[history[u][j]].op = "delete"
                /\ seenAt[history[u][k]] < j
    BY <1>a, <2>1
  <2>3. PICK j \in 1..(k - 1) :
                /\ input[history[u][k]].op = "update"
                /\ input[history[u][j]].op = "delete"
                /\ seenAt[history[u][k]] < j
    BY <2>2
  <2>4. j \in DOMAIN history[u]
    BY <1>0
  <2>5. /\ input'[history[u][k]] = input[history[u][k]]
        /\ input'[history[u][j]] = input[history[u][j]]
        /\ seenAt'[history[u][k]] = seenAt[history[u][k]]
    BY <1>1, <2>4, KeptForHistory
  <2> QED
    BY <2>1, <2>3, <2>5
<1>2. ASSUME NEW r \in Requests, NEW given \in {200, 201, 500, 502}, Changes(r, given)
      PROVE  \E k \in DOMAIN history'[u] : \E j \in 1..(k - 1) :
                /\ input'[history'[u][k]].op = "update"
                /\ input'[history'[u][j]].op = "delete"
                /\ seenAt'[history'[u][k]] < j
  <2>w. PICK w : w = input[r].user
    OBVIOUS
  <2>n. PICK n : n = Len(history[w])
    OBVIOUS
  <2>0. /\ w \in Usernames /\ n \in Nat
        /\ DOMAIN history'[w] = 1..(n + 1)
        /\ history'[w][n + 1] = r
        /\ \A k \in 1..n : history'[w][k] = history[w][k]
        /\ table'[w] = Written(r)
        /\ \A v \in Usernames : v # w => history'[v] = history[v] /\ table'[v] = table[v]
    BY <1>2, <2>w, <2>n, Appended
  <2>1. phase[r] = "checked" /\ input' = input /\ seenAt' = seenAt /\ input[r].op \in Writes
    BY <1>2 DEF Changes
  <2>2. CASE Exists(u) /\ table[u]["created"] = Absent
    <3>1. \A k \in DOMAIN history[u] : k \in DOMAIN history'[u] /\ history'[u][k] = history[u][k]
      BY <1>0, <2>0, <2>n
    <3>2. PICK k \in DOMAIN history[u] : \E j \in 1..(k - 1) :
                  /\ input[history[u][k]].op = "update"
                  /\ input[history[u][j]].op = "delete"
                  /\ seenAt[history[u][k]] < j
      BY <1>a, <2>2
    <3>3. \A j \in 1..(k - 1) : j \in DOMAIN history[u]
      BY <1>0
    <3> QED
      BY <2>1, <3>1, <3>2, <3>3
  <2>3. CASE ~(Exists(u) /\ table[u]["created"] = Absent)
    <3>1. u = w
      BY <2>0, <2>3 DEF Exists, NoItem
    <3>2. input[r].op # "delete"
      BY <2>0, <2>1, <3>1, WrittenExists DEF Exists, NoItem
    <3>3. input[r].op # "create"
      BY <2>0, <3>1, AbsentAssumption DEF Written, NewItem, Attributes
    <3>4. input[r].op = "update"
      BY <2>1, <3>2, <3>3 DEF Writes
    <3>5. table[u]["created"] = Absent
      BY <2>0, <2>w, <3>1, <3>4, AbsentAssumption DEF Written, UpdatedItem, Attributes
    <3>6. ~PresentAfter(u, n) /\ PresentAfter(u, seenAt[r]) /\ seenAt[r] \in Nat /\ seenAt[r] <= n
      BY <2>1, <2>3, <2>w, <2>n, <3>1, <3>4, <3>5 DEF JudgedAsSeen, TypeOK
    <3>7. n > 0 /\ input[history[u][n]].op = "delete" /\ seenAt[r] < n
      BY <2>0, <3>6 DEF PresentAfter
    <3>8. n \in 1..n /\ n \in 1..((n + 1) - 1) /\ n + 1 \in DOMAIN history'[u]
      BY <2>0, <3>1, <3>7
    <3> QED
      BY <2>0, <2>1, <3>1, <3>4, <3>7, <3>8
  <2> QED
    BY <2>2, <2>3
<1> QED
  BY <1>1, <1>2, StepIsEither

(* A user without created_at and created_by was brought back by an update   *)
(* that a deletion overtook.                                                *)
THEOREM OrphansAreRaces == Spec => []OrphansComeFromRaces
<1>1. Init => OrphansComeFromRaces
  BY DEF Init, OrphansComeFromRaces, Exists, NoItem
<1> QED
  BY <1>1, OrphansStep, JudgedAlways, PTL DEF Spec

(* What any request of a history stored is there until a later one deletes   *)
(* or creates the user or names the attribute.                              *)
ValuesStay ==
    \A u \in Usernames : \A j \in DOMAIN history[u] :
        input[history[u][j]].op \in {"create", "update"} =>
            \A a \in input[history[u][j]].body.fields :
                \/ table[u][a] = history[u][j]
                \/ \E k \in DOMAIN history[u] :
                      /\ j < k
                      /\ \/ input[history[u][k]].op \in {"create", "delete"}
                         \/ a \in input[history[u][k]].body.fields

LEMMA ValuesStep == TypeOK /\ HistoryOfAnswered /\ ValuesStay /\ [Next]_vars => ValuesStay'
<1> SUFFICES ASSUME TypeOK, HistoryOfAnswered, ValuesStay, [Next]_vars,
                    NEW u \in Usernames, NEW j \in DOMAIN history'[u],
                    input'[history'[u][j]].op \in {"create", "update"},
                    NEW a \in input'[history'[u][j]].body.fields,
                    table'[u][a] # history'[u][j]
             PROVE  \E k \in DOMAIN history'[u] :
                       /\ j < k
                       /\ \/ input'[history'[u][k]].op \in {"create", "delete"}
                          \/ a \in input'[history'[u][k]].body.fields
  BY DEF ValuesStay
<1>0. history[u] \in Seq(Requests) /\ DOMAIN history[u] = 1..Len(history[u])
  BY DEF TypeOK
<1>1. CASE Keeps
  <2>1. history' = history /\ table' = table
    BY <1>1 DEF Keeps
  <2>2. \A k \in DOMAIN history[u] : input'[history[u][k]] = input[history[u][k]]
    BY <1>1, KeptForHistory
  <2> QED
    BY <2>1, <2>2 DEF ValuesStay
<1>2. ASSUME NEW r \in Requests, NEW given \in {200, 201, 500, 502}, Changes(r, given)
      PROVE  \E k \in DOMAIN history'[u] :
                       /\ j < k
                       /\ \/ input'[history'[u][k]].op \in {"create", "delete"}
                          \/ a \in input'[history'[u][k]].body.fields
  <2>w. PICK w : w = input[r].user
    OBVIOUS
  <2>n. PICK n : n = Len(history[w])
    OBVIOUS
  <2>0. /\ w \in Usernames /\ n \in Nat
        /\ DOMAIN history'[w] = 1..(n + 1)
        /\ history'[w][n + 1] = r
        /\ \A k \in 1..n : history'[w][k] = history[w][k]
        /\ table'[w] = Written(r)
        /\ \A v \in Usernames : v # w => history'[v] = history[v] /\ table'[v] = table[v]
    BY <1>2, <2>w, <2>n, Appended
  <2>1. phase[r] = "checked" /\ input' = input /\ input[r].op \in Writes
    BY <1>2 DEF Changes
  <2>2. CASE u # w
    BY <2>0, <2>1, <2>2 DEF ValuesStay
  <2>3. CASE u = w /\ j = n + 1
    <3>1. history'[u][j] = r /\ a \in {"email", "name"}
      BY <2>0, <2>1, <2>3, Received, InputsAssumption
    <3>2. CASE input[r].op = "create"
      BY <2>0, <2>3, <3>1, <3>2 DEF Written, NewItem, Attributes
    <3>3. CASE input[r].op = "update"
      BY <2>0, <2>1, <2>3, <3>1, <3>3 DEF Written, UpdatedItem, Attributes
    <3> QED
      BY <2>1, <3>1, <3>2, <3>3
  <2>4. CASE u = w /\ j # n + 1
    <3>1. \A k \in 1..n : k \in DOMAIN history'[u] /\ history'[u][k] = history[u][k]
      BY <2>0, <2>4
    <3>2. j \in DOMAIN history[u] /\ j \in 1..n
      BY <1>0, <2>0, <2>n, <2>4
    <3>3. a \in {"email", "name"} /\ history[u][j] \in Requests
      <4>1. history[u][j] \in Requests /\ phase[history[u][j]] = "answered"
        BY <3>2 DEF TypeOK, HistoryOfAnswered
      <4> QED
        BY <2>1, <3>1, <3>2, <4>1, Received, InputsAssumption
    <3>4. CASE table[u][a] # history[u][j]
      <4>1. PICK k \in DOMAIN history[u] :
                       /\ j < k
                       /\ \/ input[history[u][k]].op \in {"create", "delete"}
                          \/ a \in input[history[u][k]].body.fields
        BY <2>1, <3>1, <3>2, <3>4 DEF ValuesStay
      <4> QED
        BY <1>0, <2>1, <2>4, <2>n, <3>1, <4>1
    <3>5. CASE table[u][a] = history[u][j]
      <4>1. Written(r)[a] # table[u][a]
        BY <2>0, <2>4, <3>1, <3>2, <3>5
      <4>2. input[r].op \in {"create", "delete"} \/ a \in input[r].body.fields
        BY <2>1, <2>w, <2>4, <3>3, <4>1 DEF Written, UpdatedItem, Attributes, Writes
      <4> QED
        BY <2>0, <2>1, <2>4, <3>2, <4>2
    <3> QED
      BY <3>4, <3>5
  <2> QED
    BY <2>2, <2>3, <2>4
<1> QED
  BY <1>1, <1>2, StepIsEither

(* What an answered update or creation has stored stays until a later        *)
(* request replaces it.                                                     *)
THEOREM AnsweredValuesStay == Spec => []AnsweredValueStays
<1>1. Init => ValuesStay
  BY DEF Init, ValuesStay
<1>2. TypeOK /\ HistoryOfAnswered /\ ValuesStay => AnsweredValueStays
  <2> SUFFICES ASSUME TypeOK, HistoryOfAnswered, ValuesStay, NEW r \in Requests,
                      answer[r] \in {200, 201}, input[r].op \in {"create", "update"},
                      NEW u, u = input[r].user, NEW a \in input[r].body.fields
               PROVE  \/ table[u][a] = r
                      \/ \E j, k \in DOMAIN history[u] :
                            /\ j < k /\ history[u][j] = r
                            /\ \/ input[history[u][k]].op \in {"create", "delete"}
                               \/ a \in input[history[u][k]].body.fields
    BY DEF AnsweredValueStays
  <2>1. phase[r] # "new"
    BY AbsentAssumption DEF HistoryOfAnswered, Statuses
  <2>2. PICK j \in DOMAIN history[u] : history[u][j] = r
    BY DEF HistoryOfAnswered, Writes
  <2> QED
    BY <2>1, <2>2, Received DEF ValuesStay
<1> QED
  BY <1>1, <1>2, ValuesStep, HistoryAlways, PTL DEF Spec

-----------------------------------------------------------------------------
(* Internal errors *)

(* The causes of an internal error: the request's own body, ...            *)
OfBody(r) ==
    \/ /\ input[r].op \in {"create", "update"}
       /\ input[r].body.shape \in {"none", "scalar", "float"}
    \/ input[r].op = "create" /\ input[r].body.shape \in {"list", "badname"}

(* ... or a number stored for a user that the answer contains.             *)
OfNumber(r) ==
    /\ input[r].op \in {"update", "get", "list"}
    /\ \E u \in Usernames, a \in {"email", "name"} :
          /\ (input[r].op # "list" => u = input[r].user)
          /\ IsNumber(a, table'[u][a])

(* The users Lambda answers 500 only for a body that it cannot take apart or *)
(* store, or when a number is stored as an email or a name of a user that    *)
(* the answer contains.                                                     *)
THEOREM InternalErrorsHaveCauses == Spec => InternalErrorsExplained
<1>1. ASSUME TypeOK, [Next]_vars, NEW r \in Requests, answer'[r] = 500, answer[r] # 500
      PROVE  OfBody(r) \/ OfNumber(r)
  <2>1. ASSUME NEW q \in Requests, NEW status, Answer(q, status)
        PROVE  q = r /\ status = 500
    BY <1>1, <2>1 DEF TypeOK, Answer
  <2>2. ASSUME NEW q \in Requests, NEW p, Advance(q, p) PROVE FALSE
    BY <1>1, <2>2 DEF Advance
  <2>3. ASSUME NEW q \in Requests, Refuse(q) PROVE OfBody(r)
    <3>1. q = r /\ BodyError(input[r]) = 500 /\ input[r].op \in {"create", "update"}
      BY <2>1, <2>3 DEF Refuse, At, Writes
    <3>2. \/ input[r].body.shape = "none"
          \/ input[r].op = "create" /\ input[r].body.shape \in {"scalar", "list", "badname"}
      BY <3>1, AbsentAssumption DEF BodyError, Statuses
    <3> QED
      BY <3>1, <3>2 DEF OfBody
  <2>4. ASSUME NEW q \in Requests, Update(q) PROVE OfNumber(r)
    <3>1. PICK item : item = UpdatedItem(q, table[input[q].user])
      OBVIOUS
    <3>2. /\ Write(q, item, IF Serializable(item) THEN 200 ELSE 500)
          /\ input[q].user \in Usernames
          /\ input[q].op = "update"
      BY <1>1, <2>4, <3>1, Received DEF Update, At
    <3>3. table' = [table EXCEPT ![input[q].user] = item] /\ ~Serializable(item) /\ q = r
      BY <2>1, <3>2 DEF Write
    <3>4. table'[input[r].user] = item
      BY <1>1, <3>2, <3>3 DEF TypeOK
    <3> QED
      BY <3>2, <3>3, <3>4 DEF Serializable, OfNumber
  <2>5. ASSUME NEW q \in Requests, Read(q) PROVE OfNumber(r)
    <3>1. table' = table /\ input[q].user \in Usernames /\ input[q].op \in {"list", "get"}
      BY <1>1, <2>5, Received DEF Read, At, unwritten
    <3>2. q = r
      BY <2>1, <2>5 DEF Read
    <3>3. \E item \in {table[u] : u \in IF input[r].op = "list" THEN Usernames ELSE {input[r].user}} :
             ~Serializable(item)
      BY <2>1, <2>5 DEF Read
    <3>4. \E u \in Usernames :
             (input[r].op # "list" => u = input[r].user) /\ ~Serializable(table[u])
      BY <3>1, <3>2, <3>3
    <3> QED
      BY <3>1, <3>2, <3>4 DEF Serializable, OfNumber
  <2>6. ASSUME NEW q \in Requests, Check(q) PROVE OfBody(r)
    <3>1. q = r /\ Unwritable(input[r])
      BY <2>1, <2>2, <2>6 DEF Check
    <3> QED
      BY <3>1 DEF Unwritable, OfBody
  <2>7. ASSUME NEW q \in Requests,
               \/ Receive(q) \/ LambdaTimesOut(q) \/ Put(q) \/ Delete(q)
               \/ \E e \in Environments : Authorize(q, e)
        PROVE  FALSE
    <3>1. Answer(q, 401) \/ Answer(q, 502) \/ Answer(q, 201) \/ Answer(q, 200) \/ Answer(q, 503)
             \/ \E p : Advance(q, p)
      BY <2>7 DEF Receive, LambdaTimesOut, Put, Delete, Write, Authorize, generate_policy
    <3> QED
      BY <2>1, <2>2, <3>1
  <2>8. ~(KeycloakChanges \/ UNCHANGED vars)
    BY <1>1 DEF KeycloakChanges, vars
  <2> QED
    BY <1>1, <2>3, <2>4, <2>5, <2>6, <2>7, <2>8 DEF Next
<1>2. TypeOK /\ [Next]_vars =>
        [\A r \in Requests : answer'[r] = 500 /\ answer[r] # 500 => OfBody(r) \/ OfNumber(r)]_vars
  BY <1>1
<1>3. [\A r \in Requests : answer'[r] = 500 /\ answer[r] # 500 => OfBody(r) \/ OfNumber(r)]_vars =>
      [\A r \in Requests :
          answer'[r] = 500 /\ answer[r] # 500 =>
              \/ /\ input[r].op \in {"create", "update"}
                 /\ input[r].body.shape \in {"none", "scalar", "float"}
              \/ input[r].op = "create" /\ input[r].body.shape \in {"list", "badname"}
              \/ /\ input[r].op \in {"update", "get", "list"}
                 /\ \E u \in Usernames, a \in {"email", "name"} :
                       /\ (input[r].op # "list" => u = input[r].user)
                       /\ IsNumber(a, table'[u][a])]_vars
  BY DEF OfBody, OfNumber
<1> QED
  BY <1>2, <1>3, UsersApiTypeCorrect, PTL DEF Spec, InternalErrorsExplained
=============================================================================
