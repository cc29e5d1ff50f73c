--------------------------- MODULE KeycloakSetup ---------------------------
(***************************************************************************)
(* What the Keycloak extension sets up when the platform is ready          *)
(* (on_platform_ready in keycloak/localstack_keycloak/extension.py): the   *)
(* default realm with its client and the client's role, the default user   *)
(* with its password, and the OIDC provider in LocalStack's IAM.           *)
(*                                                                         *)
(* It is a sequence of requests to Keycloak and to IAM.  Each may be       *)
(* refused, may fail, or may be carried out with its answer lost, and the  *)
(* process may stop between two of them.  Keycloak outlives the process    *)
(* when it crashes or expects a local server (development mode), so that   *)
(* the next run of the setup meets what an earlier one left.               *)
(***************************************************************************)
EXTENDS Naturals

CONSTANT MaxRuns   (* bound: times the platform becomes ready              *)

ASSUME MaxRunsAssumption == MaxRuns \in Nat

VARIABLES
  withFile,  (* KEYCLOAK_REALM_FILE is set: the container imports a realm  *)
  withUser,  (* KEYCLOAK_DEFAULT_USER and _PASSWORD are set                *)
  step,      (* the request on_platform_ready is at                        *)
  keycloak,  (* what Keycloak holds                                        *)
  provider,  (* whether IAM has the OIDC provider                          *)
  runs,      (* number of runs of the setup                                *)
  found,     (* history: what Keycloak held when this run began            *)
  faults     (* history: the steps that failed in this run                 *)

configVars  == <<withFile, withUser>>
historyVars == <<found, faults>>
vars == <<configVars, step, keycloak, provider, runs, historyVars>>

Steps == {"findRealm", "realmToken", "createRealm", "createClient", "assignRole",
          "userToken", "createUser", "setPassword", "oidc"}

(***************************************************************************)
(* password is that of the default user: none, the configured default, or  *)
(* one of its own.  other is that of a further user of the realm whose     *)
(* name contains the default user's (none: there is no such user).         *)
(***************************************************************************)
Passwords == {"none", "default", "own"}

Keycloaks == [realm : BOOLEAN, client : BOOLEAN, role : BOOLEAN, user : BOOLEAN,
              password : Passwords, other : Passwords]

Empty == [realm |-> FALSE, client |-> FALSE, role |-> FALSE, user |-> FALSE,
          password |-> "none", other |-> "none"]

(* What a container starts with: nothing, or the realm of the file, which  *)
(* need not be called KEYCLOAK_REALM.                                      *)
FreshKeycloaks ==
  IF withFile
  THEN {k \in Keycloaks : /\ k.client \/ k.user \/ k.other # "none" => k.realm
                          /\ k.role => k.client
                          /\ k.user <=> k.password = "own"
                          /\ "default" \notin {k.password, k.other}}
  ELSE {Empty}

-----------------------------------------------------------------------------
(* The outcomes of a request *)

At(s) == step = s /\ UNCHANGED <<configVars, runs, found>>

Goto(s) == step' = s /\ UNCHANGED faults

Fails(s) == step' = s /\ faults' = faults \cup {step}

(* A request that has Keycloak make something.  It is carried out; or it   *)
(* is refused; or it raises, carried out or not.                           *)
Request(made, onSuccess, onRefusal, onError) ==
  /\ UNCHANGED provider
  /\ \/ keycloak' = made /\ Goto(onSuccess)
     \/ keycloak' = keycloak /\ Fails(onRefusal)
     \/ keycloak' \in {keycloak, made} /\ Fails(onError)

(* A request that reads from Keycloak and is answered or fails.            *)
Reads == UNCHANGED <<keycloak, provider>>

-----------------------------------------------------------------------------
(* _create_default_realm *)

(* A realm that is there is taken for complete.  An answer that is not ok, *)
(* for whatever reason, is taken for a missing realm.                      *)
FindRealm ==
  /\ At("findRealm")
  /\ Reads
  /\ \/ keycloak.realm /\ Goto("userToken")
     \/ ~keycloak.realm /\ Goto("realmToken")
     \/ Fails("realmToken")
     \/ Fails("done")

RealmToken ==
  /\ At("realmToken")
  /\ Reads
  /\ Goto("createRealm") \/ Fails("done")

(* A faulty variant of CreateRealm: a realm that is there gets the client. *)
CreateRealmOrReuse ==
  /\ At("createRealm")
  /\ Request([keycloak EXCEPT !.realm = TRUE], "createClient", "userToken", "done")

(* A realm that is there after all (409) is passed over in silence.        *)
CreateRealm ==
  /\ At("createRealm")
  /\ IF keycloak.realm
     THEN Reads /\ (Goto("userToken") \/ Fails("userToken") \/ Fails("done"))
     ELSE Request([keycloak EXCEPT !.realm = TRUE], "createClient", "userToken", "done")

(* A faulty variant of CreateClient: no role is assigned.                  *)
CreateClientOnly ==
  /\ At("createClient")
  /\ Request([keycloak EXCEPT !.client = TRUE], "userToken", "userToken", "done")

(* _create_default_client: the client is created, or was there (409).      *)
CreateClient ==
  /\ At("createClient")
  /\ Request([keycloak EXCEPT !.client = TRUE], "assignRole", "userToken", "done")

(* _assign_admin_role: whatever goes wrong is logged, or not even noticed. *)
AssignRole ==
  /\ At("assignRole")
  /\ Request([keycloak EXCEPT !.role = TRUE], "userToken", "userToken", "userToken")

-----------------------------------------------------------------------------
(* _create_default_user *)

(* A faulty variant of UserToken: without a token the setup is left in a   *)
(* state that no request follows.                                          *)
UserTokenLogged ==
  /\ At("userToken")
  /\ Reads
  /\ IF withUser THEN Goto("createUser") \/ Fails("failed") ELSE Goto("oidc")

(* The token is asked for outside of the try: its error ends the setup.    *)
UserToken ==
  /\ At("userToken")
  /\ Reads
  /\ IF withUser THEN Goto("createUser") \/ Fails("done") ELSE Goto("oidc")

(* A faulty variant of CreateUser: a user that is there gets its password. *)
CreateUserAnyway ==
  /\ At("createUser")
  /\ IF keycloak.user
     THEN Reads /\ (Goto("setPassword") \/ Fails("oidc"))
     ELSE Request([keycloak EXCEPT !.user = TRUE], "setPassword", "oidc", "oidc")

(* A faulty variant of CreateUser: its error is not caught.                *)
CreateUserUncaught ==
  /\ At("createUser")
  /\ IF keycloak.user
     THEN Reads /\ (Goto("oidc") \/ Fails("done"))
     ELSE Request([keycloak EXCEPT !.user = TRUE], "setPassword", "oidc", "done")

(* A user that is there is left alone (409); without a realm there is no   *)
(* user to be created.                                                     *)
CreateUser ==
  /\ At("createUser")
  /\ IF keycloak.user
     THEN Reads /\ (Goto("oidc") \/ Fails("oidc"))
     ELSE \/ ~keycloak.realm /\ Reads /\ Fails("oidc")
          \/ /\ keycloak.realm
             /\ Request([keycloak EXCEPT !.user = TRUE], "setPassword", "oidc", "oidc")

(* The user is looked up and its password reset; the answer is not read.   *)
(* The search is for names that contain the user's, and the first match is *)
(* taken: it may be another user.                                          *)
SetPassword ==
  /\ At("setPassword")
  /\ \/ Request([keycloak EXCEPT !.password = "default"], "oidc", "oidc", "oidc")
     \/ /\ keycloak.other # "none"
        /\ Request([keycloak EXCEPT !.other = "default"], "oidc", "oidc", "oidc")

-----------------------------------------------------------------------------
(* _register_oidc_provider: a provider that exists is as good as a new one.*)
RegisterProvider ==
  /\ At("oidc")
  /\ UNCHANGED keycloak
  /\ \/ provider' = TRUE /\ Goto("done")
     \/ provider' \in {provider, TRUE} /\ Fails("done")

-----------------------------------------------------------------------------
(* The environment *)

(* The platform is ready, for the first time or after a restart at any     *)
(* point; Keycloak and IAM kept what they had, or start anew.              *)
PlatformReady ==
  /\ runs < MaxRuns
  /\ runs' = runs + 1
  /\ keycloak' \in {keycloak} \cup FreshKeycloaks
  /\ provider' \in {provider, FALSE}
  /\ step'   = IF withFile THEN "userToken" ELSE "findRealm"
  /\ found'  = keycloak'
  /\ faults' = {}
  /\ UNCHANGED configVars

(* Whoever uses the default user chooses a password.                       *)
ChoosePassword ==
  /\ keycloak.user
  /\ keycloak' = [keycloak EXCEPT !.password = "own"]
  /\ UNCHANGED <<configVars, step, provider, runs, historyVars>>

(* registrationAllowed: another user of the realm registers with a name    *)
(* that contains the default user's, or chooses a password.                *)
OthersRegister ==
  /\ keycloak.realm
  /\ keycloak' = [keycloak EXCEPT !.other = "own"]
  /\ UNCHANGED <<configVars, step, provider, runs, historyVars>>

-----------------------------------------------------------------------------
Init ==
  /\ withFile \in BOOLEAN /\ withUser \in BOOLEAN
  /\ step     = "idle"
  /\ keycloak \in FreshKeycloaks
  /\ provider = FALSE
  /\ runs     = 0
  /\ found    = keycloak
  /\ faults   = {}

(* on_platform_ready, one request after the other.                         *)
OnPlatformReady ==
  \/ FindRealm \/ RealmToken \/ CreateRealm \/ CreateClient \/ AssignRole
  \/ UserToken \/ CreateUser \/ SetPassword \/ RegisterProvider

Next == OnPlatformReady \/ PlatformReady \/ ChoosePassword \/ OthersRegister

Spec == Init /\ [][Next]_vars
-----------------------------------------------------------------------------
(* Properties *)

TypeOK ==
  /\ withFile \in BOOLEAN /\ withUser \in BOOLEAN
  /\ step \in Steps \cup {"idle", "done"}
  /\ keycloak \in Keycloaks /\ found \in Keycloaks
  /\ provider \in BOOLEAN
  /\ runs \in 0..MaxRuns
  /\ faults \subseteq Steps

(* A setup in which nothing fails, of a Keycloak that starts with nothing, *)
(* leaves everything the extension offers -- the password too, unless a    *)
(* user with a name like the default user's registers before it is set.    *)
FreshSetupCompletes ==
  step = "done" /\ faults = {} /\ found = Empty /\ ~withFile =>
    /\ keycloak.realm /\ keycloak.client /\ keycloak.role
    /\ withUser => /\ keycloak.user
                   /\ keycloak.password # "none" \/ keycloak.other # "none"
    /\ provider

(* A run that finds the default user there resets nobody's password, not   *)
(* its and not another's, however often it is retried and whichever of its *)
(* answers are lost.  (A run that creates the user may well reset that of  *)
(* another one: SetPassword.)                                              *)
KeepsPassword ==
  [][\/ keycloak'.password = "default" /\ keycloak.password # "default"
     \/ keycloak'.other = "default" /\ keycloak.other # "default"
     => ~found.user]_vars

(* What the two try blocks catch does not keep the OIDC provider from IAM: *)
(* trouble with creating the user, with its password or with the client's  *)
(* role.  (Trouble with the admin token for the user does: it is asked for *)
(* before the try.)                                                        *)
CaughtFaultsStayLocal ==
  step = "done" /\ faults \subseteq {"createUser", "setPassword", "assignRole"} => provider

(* A realm that was there before, imported or made by an earlier run, is   *)
(* not given the default client, whatever Keycloak answers on the way.     *)
ExistingRealmUntouched ==
  [][runs' = runs /\ keycloak'.client /\ ~keycloak.client => ~found.realm]_vars

(* "The extension creates a default client" (keycloak/README.md): after a  *)
(* setup in which nothing failed the client is there, with its role.       *)
DefaultClientIsThere ==
  step = "done" /\ faults = {} /\ ~withFile => keycloak.client /\ keycloak.role
=============================================================================
