----------------------------- MODULE MCUsersApi -----------------------------
(* One user, and the inputs with which requests meet on it: every operation,  *)
(* the bodies that are told apart, and the tokens of an administrator, of a    *)
(* reader and of a client whose own role is called admin.                      *)
EXTENDS UsersApi, TLC

Admin  == [realm |-> {"admin", "user"}, client |-> {}, valid |-> TRUE]
Reader == [realm |-> {"user"}, client |-> {"admin"}, valid |-> TRUE]
Expired == [Admin EXCEPT !.valid = FALSE]

MCTokens == {Admin, Reader, Expired}

Body(shape, fields, numeric) == [shape |-> shape, fields |-> fields, numeric |-> numeric]
Empty == Body("object", {}, {})
Send(op, token, body) == [op |-> op, user |-> "john", token |-> token, body |-> body]

MCInputs ==
    {Send("list", Admin, Empty), Send("get", Reader, Empty), Send("get", Absent, Empty), Send("delete", Expired, Empty),
     Send("create", Reader, Empty), Send("delete", Admin, Empty),
     Send("create", Admin, Body("object", {"email", "name"}, {})),
     Send("create", Admin, Body("object", {"email"}, {"email"})),
     Send("create", Admin, Body("nameless", {"email"}, {})),
     Send("create", Admin, Body("list", {}, {})),
     Send("create", Admin, Body("float", {"email"}, {})),
     Send("update", Admin, Body("object", {"email"}, {})),
     Send("update", Admin, Body("object", {"name"}, {"name"})),
     Send("update", Admin, Body("list", {}, {})),
     Send("update", Admin, Body("scalar", {}, {})),
     Send("update", Admin, Body("malformed", {}, {})),
     Send("update", Admin, Body("none", {}, {}))}

Symmetry == Permutations(Requests) \cup Permutations(Environments)
=============================================================================
