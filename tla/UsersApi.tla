------------------------------ MODULE UsersApi ------------------------------
(***************************************************************************)
(* The Keycloak sample: a REST API whose every method is guarded by the    *)
(* authorizer Lambda (lambda/authorizer/handler.py) and served by the      *)
(* users Lambda (lambda/users/handler.py) on one DynamoDB table, as        *)
(* cdk/stacks/api_stack.py puts them together.                             *)
(*                                                                         *)
(* Requests run concurrently and a write is two calls to the table: the    *)
(* user is looked up (Check) and then put, updated or deleted (Put,        *)
(* Update, Delete).  Either Lambda can be cut off by its timeout, Keycloak *)
(* may be out of the authorizer's reach and DynamoDB out of the users      *)
(* Lambda's.                                                               *)
(*                                                                         *)
(* A record is a function from its attributes to the request that wrote    *)
(* them; the values themselves are not modelled, but for which of them     *)
(* hold a number, which decides whether the record can be serialized.  A   *)
(* token is its realm roles, its client's roles and whether it is still    *)
(* valid when the authorizer looks.  Status codes are the code's, except   *)
(* for two that are kept apart from others of their number: 401 for the    *)
(* 403 with which API Gateway answers a denial, and 503 for the 500 after  *)
(* a call to DynamoDB that failed.                                         *)
(***************************************************************************)
EXTENDS Naturals, Sequences

CONSTANTS
    Requests,      \* requests that clients send in one behaviour
    Usernames,
    Environments,  \* execution environments of the authorizer Lambda
    Tokens,        \* records [realm, client : SUBSET of role names, valid : BOOLEAN]
    Inputs,        \* records [op, user, token, body] a client may send
    Absent         \* an attribute, a token, an input or an answer that is not there

Statuses == {200, 201, 400, 401, 403, 404, 409, 500, 502, 503}

ASSUME AbsentAssumption == /\ Absent \notin Requests \cup Tokens \cup Inputs
                           /\ Absent \notin Statuses

\* The fields of a body are those the handlers look for; its shape is
\*   none       no body at all, for which API Gateway passes a null
\*   malformed  no JSON
\*   scalar     JSON in which looking for a field raises: null, a number, a
\*              list or a string that contains the name of one
\*   list       any other list or string: neither field is found in it
\*   nameless   an object without a username, which only a creation needs
\*   badname    an object whose username is no string, likewise
\*   float      an object with a value that boto3 refuses to write
\*   object     any other object
ASSUME InputsAssumption ==
    \A i \in Inputs : /\ i.op \in {"list", "get", "create", "update", "delete"}
                      /\ i.user \in Usernames
                      /\ i.token \in Tokens \cup {Absent}
                      /\ i.body.fields \subseteq {"email", "name"}
                      /\ i.body.numeric \subseteq i.body.fields

VARIABLES
    table,     \* DynamoDB: username |-> attribute |-> request or Absent
    phase,     \* request |-> how far it has come
    input,     \* request |-> what the client sent
    answer,    \* request |-> status code or Absent
    jwks,      \* authorizer environments whose get_jwks has a cached result
    keycloak,  \* whether the JWKS endpoint answers
    history,   \* username |-> the requests that changed the table, in order
    seenAt     \* request |-> length of the history when it looked the user up

vars == <<table, phase, input, answer, jwks, keycloak, history, seenAt>>

Attributes == {"created", "updated", "email", "name"}
NoItem     == [a \in Attributes |-> Absent]
Exists(u)  == table[u] # NoItem
Writes     == {"create", "update", "delete"}

-----------------------------------------------------------------------------
(* The two Lambdas' pure parts *)

\* As "admin" and "localstack-client:admin" are kept apart, so are <<"admin">>
\* and <<"client", "admin">>.  generate_policy joins them with commas and
\* get_auth_context splits them: no role has a comma in its name.
\* Faulty: the client's roles lose their prefix.
extract_rolesUnprefixed(t) == {<<role>> : role \in t.realm \cup t.client}
extract_roles(t) == {<<role>> : role \in t.realm} \cup {<<"client", role>> : role \in t.client}

is_admin(r) == <<"admin">> \in extract_roles(input[r].token)

\* get_jwks in an environment: a result is cached, a failure is not.
get_jwks(e) == e \in jwks \/ keycloak

\* Only the structure and "exp" of a token are judged; a key, an issuer or an
\* audience that does not match is printed.
validate_token(t, e) == get_jwks(e) /\ t.valid

\* What a body is refused with before or at the look-up.
BodyError(i) ==
    CASE i.body.shape = "malformed"                                              -> 400
      [] i.body.shape = "none"                                                   -> 500
      [] i.op = "create" /\ i.body.shape = "nameless"                            -> 400
      [] i.op = "create" /\ i.body.shape \in {"scalar", "list", "badname"}       -> 500
      [] OTHER                                                                   -> Absent

\* What raises after the look-up and before anything is written.
Unwritable(i) ==
    \/ i.op = "update" /\ i.body.shape = "scalar"
    \/ i.op \in {"create", "update"} /\ i.body.shape = "float"

\* What the lookup before a write finds in its way.
\* Faulty: an update or a deletion looks up nothing.
ConflictOfCreateOnly(op, found) == op = "create" /\ found
Conflict(op, found) == IF op = "create" THEN found ELSE ~found

\* json.dumps raises on the Decimal that boto3 returns for a number.
IsNumber(a, value) == value # Absent /\ a \in input[value].body.numeric

\* Faulty: an email is expected in every record.
SerializableWithEmail(item) ==
    item = NoItem \/ (item["email"] # Absent /\ \A a \in {"email", "name"} : ~IsNumber(a, item[a]))
Serializable(item) == \A a \in {"email", "name"} : ~IsNumber(a, item[a])

\* Faulty: what the body does not name is left out.
NewItemWithoutDefaults(r) == [a \in {"created"} \cup input[r].body.fields |-> r]
NewItem(r) == [a \in Attributes |-> IF a = "updated" THEN Absent ELSE r]

\* UpdateExpression: updated_at and updated_by, and what the body names.
\* Faulty: the item is put anew.
UpdatedItemAsPut(r, item) ==
    [a \in Attributes |-> IF a = "updated" \/ a \in input[r].body.fields THEN r ELSE Absent]
UpdatedItem(r, item) ==
    [a \in Attributes |-> IF a = "updated" \/ a \in input[r].body.fields THEN r ELSE item[a]]

-----------------------------------------------------------------------------
Init ==
    /\ table = [u \in Usernames |-> NoItem]
    /\ phase = [r \in Requests |-> "new"]
    /\ input = [r \in Requests |-> Absent]
    /\ answer = [r \in Requests |-> Absent]
    /\ jwks = {}
    /\ keycloak = TRUE
    /\ history = [u \in Usernames |-> << >>]
    /\ seenAt = [r \in Requests |-> 0]

Answer(r, status) ==
    /\ answer' = [answer EXCEPT ![r] = status]
    /\ phase' = [phase EXCEPT ![r] = "answered"]

Advance(r, p) ==
    /\ phase' = [phase EXCEPT ![r] = p]
    /\ UNCHANGED answer

At(r, p, ops) == phase[r] = p /\ input[r].op \in ops

unwritten  == <<table, history, seenAt>>
authorizer == <<jwks, keycloak>>

\* An Allow with the roles as its context, which API Gateway passes on, or a Deny.
generate_policy(r, allow) == IF allow THEN Advance(r, "allowed") ELSE Answer(r, 401)

(* API Gateway hands every method to the authorizer first (results_cache_ttl 0). *)
Receive(r) ==
    /\ phase[r] = "new"
    /\ \E i \in Inputs : input' = [input EXCEPT ![r] = i]
    /\ Advance(r, "received")
    /\ UNCHANGED <<unwritten, authorizer>>

(* The authorizer's handler, in an execution environment e: no token, or    *)
(* whatever raises, is a Deny.                                               *)
Authorize(r, e) ==
    LET t == input[r].token IN
    /\ phase[r] = "received"
    /\ jwks' = IF t # Absent /\ get_jwks(e) THEN jwks \cup {e} ELSE jwks
    /\ generate_policy(r, t # Absent /\ validate_token(t, e))
    /\ UNCHANGED <<unwritten, input, keycloak>>

(* create_user, update_user, delete_user up to their first call; a deletion *)
(* takes no body.                                                            *)
Refuse(r) ==
    /\ At(r, "allowed", Writes)
    /\ \/ ~is_admin(r) /\ Answer(r, 403)
       \/ /\ is_admin(r) /\ input[r].op # "delete"
          /\ BodyError(input[r]) # Absent
          /\ Answer(r, BodyError(input[r]))
    /\ UNCHANGED <<unwritten, input, authorizer>>

(* get_item before a write: 409 for a creation of one that is there, 404 for *)
(* an update or a deletion of one that is not; and then what there is no     *)
(* writing, which ends as any exception does.                                *)
Check(r) ==
    LET u == input[r].user
        i == input[r] IN
    /\ At(r, "allowed", Writes)
    /\ is_admin(r)
    /\ i.op = "delete" \/ BodyError(i) = Absent
    /\ \/ Answer(r, 503)
       \/ IF Conflict(i.op, Exists(u))
            THEN Answer(r, IF i.op = "create" THEN 409 ELSE 404)
            ELSE IF Unwritable(i)
                   THEN Answer(r, 500)
                   ELSE Advance(r, "checked")
    /\ seenAt' = [seenAt EXCEPT ![r] = Len(history[u])]
    /\ UNCHANGED <<table, history, input, authorizer>>

(* put_item, update_item, delete_item and the answer, which a timeout of the *)
(* Lambda can take away (502) after the table has changed; or a failed call. *)
Write(r, item, status) ==
    LET u == input[r].user IN
    /\ \/ /\ table' = [table EXCEPT ![u] = item]
          /\ history' = [history EXCEPT ![u] = Append(@, r)]
          /\ Answer(r, status) \/ Answer(r, 502)
       \/ Answer(r, 503) /\ UNCHANGED <<table, history>>
    /\ UNCHANGED <<seenAt, input, authorizer>>

Put(r) == At(r, "checked", {"create"}) /\ Write(r, NewItem(r), 201)

\* Faulty: the exception of json.dumps is taken for one of json.loads.
UpdateCaughtAsBadRequest(r) ==
    LET item == UpdatedItem(r, table[input[r].user]) IN
    /\ At(r, "checked", {"update"})
    /\ Write(r, item, IF Serializable(item) THEN 200 ELSE 400)

Update(r) ==
    LET item == UpdatedItem(r, table[input[r].user]) IN
    /\ At(r, "checked", {"update"})
    /\ Write(r, item, IF Serializable(item) THEN 200 ELSE 500)

Delete(r) == At(r, "checked", {"delete"}) /\ Write(r, NoItem, 200)

(* list_users and get_user: one call, and an answer if it can be serialized. *)
Read(r) ==
    LET items == {table[u] : u \in IF input[r].op = "list" THEN Usernames ELSE {input[r].user}} IN
    /\ At(r, "allowed", {"list", "get"})
    /\ \/ Answer(r, 503)
       \/ Answer(r, CASE input[r].op = "get" /\ items = {NoItem}   -> 404
                      [] \E item \in items : ~Serializable(item)   -> 500
                      [] OTHER                                     -> 200)
    /\ UNCHANGED <<unwritten, input, authorizer>>

(* A Lambda reaches its timeout of 30 seconds, wherever it is. *)
LambdaTimesOut(r) ==
    /\ phase[r] \in {"received", "allowed", "checked"}
    /\ Answer(r, 502)
    /\ UNCHANGED <<unwritten, input, authorizer>>

KeycloakChanges ==
    /\ keycloak' = ~keycloak
    /\ UNCHANGED <<table, phase, input, answer, jwks, history, seenAt>>

Next ==
    \/ \E r \in Requests :
          \/ Receive(r)
          \/ \E e \in Environments : Authorize(r, e)
          \/ Refuse(r) \/ Check(r) \/ Put(r) \/ Update(r) \/ Delete(r) \/ Read(r)
          \/ LambdaTimesOut(r)
    \/ KeycloakChanges

Spec == Init /\ [][Next]_vars

-----------------------------------------------------------------------------
(* Type correctness: the table, the requests and the caches hold what they should. *)
TypeOK ==
    /\ table \in [Usernames -> [Attributes -> Requests \cup {Absent}]]
    /\ phase \in [Requests -> {"new", "received", "allowed", "checked", "answered"}]
    /\ input \in [Requests -> Inputs \cup {Absent}]
    /\ answer \in [Requests -> Statuses \cup {Absent}]
    /\ jwks \subseteq Environments
    /\ keycloak \in BOOLEAN
    /\ history \in [Usernames -> Seq(Requests)]
    /\ seenAt \in [Requests -> Nat]
    /\ \A r \in Requests : input[r] = Absent <=> phase[r] = "new"

\* After n changes the user is there: some change, the last of them no deletion.
PresentAfter(u, n) == n > 0 /\ input[history[u][n]].op # "delete"

(* What the check before a write is worth: a creation was carried out only if *)
(* the user was missing, an update or a deletion only if it was there, when    *)
(* the request looked; and only requests with the realm role admin write.  A   *)
(* request that nobody overtook therefore acts as one atomic operation.        *)
WritesJudgedAsSeen ==
    \A u \in Usernames : \A k \in DOMAIN history[u] :
        LET r == history[u][k] IN
        /\ "admin" \in input[r].token.realm
        /\ seenAt[r] < k
        /\ input[r].op = "create" <=> ~PresentAfter(u, seenAt[r])

(* update_user writes with an upsert, so that it can bring back a user without *)
(* created_at and created_by: only when a deletion overtook it.                 *)
OrphansComeFromRaces ==
    \A u \in Usernames :
        Exists(u) /\ table[u]["created"] = Absent =>
            \E k \in DOMAIN history[u] : \E j \in 1..(k - 1) :
                /\ input[history[u][k]].op = "update"
                /\ input[history[u][j]].op = "delete"
                /\ seenAt[history[u][k]] < j

(* The status code tells whether the table was changed: 2xx exactly once, 4xx  *)
(* and a denial never; only a 5xx leaves it open.                               *)
AnswerTellsEffect ==
    \A r \in Requests : phase[r] = "answered" =>
        LET places == {k \in DOMAIN history[input[r].user] : history[input[r].user][k] = r} IN
        /\ answer[r] \in {200, 201} /\ input[r].op \in Writes => \E k \in places : places = {k}
        /\ answer[r] \in {400, 401, 403, 404, 409} => places = {}

(* What an answered update or creation has stored stays until a later request  *)
(* deletes or creates the user, or names the same attribute: overlapping        *)
(* updates of different attributes both stay.                                   *)
AnsweredValueStays ==
    \A r \in Requests : answer[r] \in {200, 201} /\ input[r].op \in {"create", "update"} =>
        LET u == input[r].user IN
        \A a \in input[r].body.fields :
            \/ table[u][a] = r
            \/ \E j, k \in DOMAIN history[u] :
                  /\ j < k /\ history[u][j] = r
                  /\ \/ input[history[u][k]].op \in {"create", "delete"}
                     \/ a \in input[history[u][k]].body.fields

(* The users Lambda fails of itself only for a creation or an update whose own *)
(* body is no object, or has a username or a value it cannot store (an update  *)
(* does without both if no field is named); or because a number is stored as   *)
(* an email or a name, which then fails what reads or updates that user, and   *)
(* every list, until it is replaced - and nothing else.                        *)
InternalErrorsExplained ==
    [][\A r \in Requests :
          answer'[r] = 500 /\ answer[r] # 500 =>
              \/ /\ input[r].op \in {"create", "update"}
                 /\ input[r].body.shape \in {"none", "scalar", "float"}
              \/ input[r].op = "create" /\ input[r].body.shape \in {"list", "badname"}
              \/ /\ input[r].op \in {"update", "get", "list"}
                 /\ \E u \in Usernames, a \in {"email", "name"} :
                       /\ (input[r].op # "list" => u = input[r].user)
                       /\ IsNumber(a, table'[u][a])]_vars
=============================================================================
