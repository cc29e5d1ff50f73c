------------------------ MODULE KeycloakSetupProofs ------------------------
(***************************************************************************)
(* Proofs about KeycloakSetup, for any number of runs of the setup.        *)
(***************************************************************************)
EXTENDS KeycloakSetup, TLAPS

-----------------------------------------------------------------------------
(* Type correctness *)

(* What a container starts with is a state of Keycloak.                    *)
LEMMA FreshIsKeycloak == FreshKeycloaks \subseteq Keycloaks
<1>1. Empty \in Keycloaks
  BY DEF Empty, Keycloaks, Passwords
<1> QED
  BY <1>1 DEF FreshKeycloaks

(* Setting one field of a state of Keycloak gives a state of Keycloak.     *)
LEMMA FieldsSet ==
  ASSUME NEW k \in Keycloaks
  PROVE  /\ [k EXCEPT !.realm = TRUE] \in Keycloaks
         /\ [k EXCEPT !.client = TRUE] \in Keycloaks
         /\ [k EXCEPT !.role = TRUE] \in Keycloaks
         /\ [k EXCEPT !.user = TRUE] \in Keycloaks
         /\ [k EXCEPT !.password = "default"] \in Keycloaks
         /\ [k EXCEPT !.password = "own"] \in Keycloaks
         /\ [k EXCEPT !.other = "default"] \in Keycloaks
         /\ [k EXCEPT !.other = "own"] \in Keycloaks
  BY DEF Keycloaks, Passwords

LEMMA TypeStep == TypeOK /\ [Next]_vars => TypeOK'
<1> SUFFICES ASSUME TypeOK, [Next]_vars PROVE TypeOK'
  OBVIOUS
<1> USE DEF TypeOK, At, Goto, Fails, Reads, Steps
<1>1. CASE FindRealm
  BY <1>1 DEF FindRealm, configVars
<1>2. CASE RealmToken
  BY <1>2 DEF RealmToken, configVars
<1>3. CASE CreateRealm
  BY <1>3, FieldsSet DEF CreateRealm, Request, configVars
<1>4. CASE CreateClient
  BY <1>4, FieldsSet DEF CreateClient, Request, configVars
<1>5. CASE AssignRole
  BY <1>5, FieldsSet DEF AssignRole, Request, configVars
<1>6. CASE UserToken
  BY <1>6 DEF UserToken, configVars
<1>7. CASE CreateUser
  BY <1>7, FieldsSet DEF CreateUser, Request, configVars
<1>8. CASE SetPassword
  BY <1>8, FieldsSet DEF SetPassword, Request, configVars
<1>9. CASE RegisterProvider
  BY <1>9 DEF RegisterProvider, configVars
<1>10. CASE PlatformReady
  <2>1. keycloak' \in Keycloaks /\ found' = keycloak'
    BY <1>10, FreshIsKeycloak DEF PlatformReady
  <2>2. provider' \in BOOLEAN
    BY <1>10 DEF PlatformReady
  <2>3. runs' \in 0..MaxRuns
    BY <1>10, MaxRunsAssumption DEF PlatformReady
  <2>4. step' \in Steps /\ faults' = {}
    BY <1>10 DEF PlatformReady
  <2>5. UNCHANGED <<withFile, withUser>>
    BY <1>10 DEF PlatformReady, configVars
  <2> QED
    BY <2>1, <2>2, <2>3, <2>4, <2>5
<1>11. CASE ChoosePassword \/ OthersRegister
  BY <1>11, FieldsSet DEF ChoosePassword, OthersRegister, configVars, historyVars
<1>12. CASE UNCHANGED vars
  BY <1>12 DEF vars, configVars, historyVars
<1> QED
  BY <1>1, <1>2, <1>3, <1>4, <1>5, <1>6, <1>7, <1>8, <1>9, <1>10, <1>11, <1>12
  DEF Next, OnPlatformReady

(* The state of the setup keeps its shape.                                 *)
THEOREM SetupTypeCorrect == Spec => []TypeOK
<1>1. Init => TypeOK
  <2> SUFFICES ASSUME Init PROVE TypeOK
    OBVIOUS
  <2>1. keycloak \in Keycloaks /\ found = keycloak
    BY FreshIsKeycloak DEF Init
  <2>2. runs \in 0..MaxRuns /\ step = "idle" /\ faults = {}
    BY MaxRunsAssumption DEF Init
  <2>3. withFile \in BOOLEAN /\ withUser \in BOOLEAN /\ provider \in BOOLEAN
    BY DEF Init
  <2> QED
    BY <2>1, <2>2, <2>3 DEF TypeOK
<1> QED
  BY <1>1, TypeStep, PTL DEF Spec

-----------------------------------------------------------------------------
(* Faults that are caught *)

LEMMA CaughtFaultsStep == CaughtFaultsStayLocal /\ [Next]_vars => CaughtFaultsStayLocal'
<1> SUFFICES ASSUME CaughtFaultsStayLocal, [Next]_vars,
                    step' = "done",
                    faults' \subseteq {"createUser", "setPassword", "assignRole"}
             PROVE  provider'
  BY DEF CaughtFaultsStayLocal
<1> USE DEF At, Goto, Fails
<1>1. CASE FindRealm \/ RealmToken \/ CreateRealm \/ CreateClient \/ AssignRole
  BY <1>1 DEF FindRealm, RealmToken, CreateRealm, CreateClient, AssignRole, Request
<1>2. CASE UserToken \/ CreateUser \/ SetPassword
  BY <1>2 DEF UserToken, CreateUser, SetPassword, Request
<1>3. CASE RegisterProvider
  <2>1. "oidc" \notin faults'
    OBVIOUS
  <2>2. ~Fails("done")
    BY <1>3, <2>1 DEF RegisterProvider
  <2> QED
    BY <1>3, <2>2 DEF RegisterProvider
<1>4. CASE PlatformReady
  BY <1>4 DEF PlatformReady
<1>5. CASE ChoosePassword \/ OthersRegister \/ UNCHANGED vars
  BY <1>5 DEF ChoosePassword, OthersRegister, CaughtFaultsStayLocal, vars, historyVars
<1> QED
  BY <1>1, <1>2, <1>3, <1>4, <1>5 DEF Next, OnPlatformReady

(* However the requests inside a try fail, IAM gets the OIDC provider      *)
(* unless a request outside of both fails too.                             *)
THEOREM CaughtFaultsAreLocal == Spec => []CaughtFaultsStayLocal
<1>1. Init => CaughtFaultsStayLocal
  BY DEF Init, CaughtFaultsStayLocal
<1> QED
  BY <1>1, CaughtFaultsStep, PTL DEF Spec

-----------------------------------------------------------------------------
(* What was there before *)

(* Keycloak keeps the realm and the user a run found, and the run gives a  *)
(* client only to a realm, a password only to a user, that it made.        *)
FoundIsKept ==
  /\ found.realm => keycloak.realm
  /\ found.user => keycloak.user
  /\ step = "createClient" => ~found.realm
  /\ step = "setPassword" => ~found.user

(* Setting a field leaves the others, and no field is taken back.          *)
LEMMA FieldsKept ==
  ASSUME NEW k \in Keycloaks, NEW made,
         \/ made = [k EXCEPT !.realm = TRUE]
         \/ made = [k EXCEPT !.client = TRUE]
         \/ made = [k EXCEPT !.role = TRUE]
         \/ made = [k EXCEPT !.user = TRUE]
         \/ made = [k EXCEPT !.password = "default"]
         \/ made = [k EXCEPT !.password = "own"]
         \/ made = [k EXCEPT !.other = "default"]
         \/ made = [k EXCEPT !.other = "own"]
  PROVE  /\ k.realm => made.realm
         /\ k.user => made.user
  BY DEF Keycloaks

LEMMA FoundStep == TypeOK /\ FoundIsKept /\ [Next]_vars => FoundIsKept'
<1> SUFFICES ASSUME TypeOK, FoundIsKept, [Next]_vars PROVE FoundIsKept'
  OBVIOUS
<1> USE DEF At, Goto, Fails, Reads
<1>0. keycloak \in Keycloaks
  BY DEF TypeOK
<1>1. CASE FindRealm \/ RealmToken \/ UserToken
  BY <1>1 DEF FindRealm, RealmToken, UserToken, FoundIsKept
<1>2. CASE CreateRealm
  BY <1>0, <1>2, FieldsKept DEF CreateRealm, Request, FoundIsKept
<1>3. CASE CreateClient
  BY <1>0, <1>3, FieldsKept DEF CreateClient, Request, FoundIsKept
<1>4. CASE AssignRole
  BY <1>0, <1>4, FieldsKept DEF AssignRole, Request, FoundIsKept
<1>5. CASE CreateUser
  BY <1>0, <1>5, FieldsKept DEF CreateUser, Request, FoundIsKept
<1>6. CASE SetPassword
  BY <1>0, <1>6, FieldsKept DEF SetPassword, Request, FoundIsKept
<1>7. CASE RegisterProvider
  BY <1>7 DEF RegisterProvider, FoundIsKept
<1>8. CASE PlatformReady
  BY <1>8 DEF PlatformReady, FoundIsKept
<1>9. CASE ChoosePassword \/ OthersRegister
  BY <1>0, <1>9, FieldsKept DEF ChoosePassword, OthersRegister, historyVars, FoundIsKept
<1>10. CASE UNCHANGED vars
  BY <1>10 DEF vars, historyVars, FoundIsKept
<1> QED
  BY <1>1, <1>2, <1>3, <1>4, <1>5, <1>6, <1>7, <1>8, <1>9, <1>10
  DEF Next, OnPlatformReady

LEMMA FoundIsAlwaysKept == Spec => [](TypeOK /\ FoundIsKept)
<1>1. Init => FoundIsKept
  BY DEF Init, FoundIsKept
<1> QED
  BY <1>1, FoundStep, SetupTypeCorrect, PTL DEF Spec

(* A run that found the default user when it began resets no password.     *)
THEOREM PasswordIsKept == Spec => KeepsPassword
<1>1. ASSUME TypeOK, FoundIsKept, [Next]_vars,
             \/ keycloak'.password = "default" /\ keycloak.password # "default"
             \/ keycloak'.other = "default" /\ keycloak.other # "default"
      PROVE  ~found.user
  <2> USE DEF At, Goto, Fails, Reads
  <2>0. keycloak \in Keycloaks
    BY <1>1 DEF TypeOK
  <2>1. CASE FindRealm \/ RealmToken \/ UserToken \/ RegisterProvider
    BY <1>1, <2>1 DEF FindRealm, RealmToken, UserToken, RegisterProvider
  <2>2. CASE CreateRealm \/ CreateClient \/ AssignRole \/ CreateUser
    BY <1>1, <2>0, <2>2 DEF CreateRealm, CreateClient, AssignRole, CreateUser,
                            Request, Keycloaks
  <2>3. CASE SetPassword
    BY <1>1, <2>3 DEF SetPassword, FoundIsKept
  <2>4. CASE PlatformReady
    <3>1. \A k \in FreshKeycloaks : k.password # "default" /\ k.other # "default"
      BY DEF FreshKeycloaks, Empty
    <3> QED
      BY <1>1, <2>4, <3>1 DEF PlatformReady
  <2>5. CASE ChoosePassword \/ OthersRegister
    BY <1>1, <2>0, <2>5 DEF ChoosePassword, OthersRegister, Keycloaks
  <2>6. CASE UNCHANGED vars
    BY <1>1, <2>6 DEF vars
  <2> QED
    BY <1>1, <2>1, <2>2, <2>3, <2>4, <2>5, <2>6 DEF Next, OnPlatformReady
<1> QED
  BY <1>1, FoundIsAlwaysKept, PTL DEF Spec, KeepsPassword

(* A realm that was there when the run began is not given the client.      *)
THEOREM RealmIsLeftAlone == Spec => ExistingRealmUntouched
<1>1. ASSUME TypeOK, FoundIsKept, [Next]_vars,
             runs' = runs, keycloak'.client, ~keycloak.client
      PROVE  ~found.realm
  <2> USE DEF At, Goto, Fails, Reads
  <2>0. keycloak \in Keycloaks
    BY <1>1 DEF TypeOK
  <2>1. CASE FindRealm \/ RealmToken \/ UserToken \/ RegisterProvider
    BY <1>1, <2>1 DEF FindRealm, RealmToken, UserToken, RegisterProvider
  <2>2. CASE CreateRealm \/ AssignRole \/ CreateUser \/ SetPassword
    BY <1>1, <2>0, <2>2 DEF CreateRealm, AssignRole, CreateUser, SetPassword,
                            Request, Keycloaks
  <2>3. CASE CreateClient
    BY <1>1, <2>3 DEF CreateClient, FoundIsKept
  <2>4. CASE PlatformReady
    BY <1>1, <2>4 DEF PlatformReady, TypeOK
  <2>5. CASE ChoosePassword \/ OthersRegister
    BY <1>1, <2>0, <2>5 DEF ChoosePassword, OthersRegister, Keycloaks
  <2>6. CASE UNCHANGED vars
    BY <1>1, <2>6 DEF vars
  <2> QED
    BY <1>1, <2>1, <2>2, <2>3, <2>4, <2>5, <2>6 DEF Next, OnPlatformReady
<1> QED
  BY <1>1, FoundIsAlwaysKept, PTL DEF Spec, ExistingRealmUntouched

-----------------------------------------------------------------------------
(* A setup without faults *)

ToRealm == {"findRealm", "realmToken", "createRealm"}

(* How far a run without faults, of a Keycloak that began with nothing,    *)
(* has come at each step.                                                  *)
FreshProgress ==
  faults = {} /\ found = Empty /\ ~withFile /\ step # "idle" =>
    /\ step \in ToRealm => ~keycloak.realm
    /\ step \notin ToRealm => keycloak.realm
    /\ step \notin ToRealm \cup {"createClient"} => keycloak.client
    /\ step \notin ToRealm \cup {"createClient", "assignRole"} => keycloak.role
    /\ step \notin {"setPassword", "oidc", "done"} => ~keycloak.user
    /\ step \in {"setPassword", "oidc", "done"} /\ withUser => keycloak.user
    /\ step \in {"oidc", "done"} /\ withUser =>
         keycloak.password # "none" \/ keycloak.other # "none"
    /\ step = "done" => provider

LEMMA FreshStep == TypeOK /\ FreshProgress /\ [Next]_vars => FreshProgress'
<1> SUFFICES ASSUME TypeOK, FreshProgress, [Next]_vars,
                    faults' = {}, found' = Empty, ~withFile', step' # "idle"
             PROVE  FreshProgress'
  BY DEF FreshProgress
<1> USE DEF At, Goto, Fails, Reads, configVars, ToRealm
<1>0. keycloak \in Keycloaks
  BY DEF TypeOK
<1>1. CASE FindRealm \/ RealmToken
  BY <1>1 DEF FindRealm, RealmToken, FreshProgress
<1>2. CASE CreateRealm
  BY <1>0, <1>2 DEF CreateRealm, Request, FreshProgress, Keycloaks
<1>3. CASE CreateClient
  BY <1>0, <1>3 DEF CreateClient, Request, FreshProgress, Keycloaks
<1>4. CASE AssignRole
  BY <1>0, <1>4 DEF AssignRole, Request, FreshProgress, Keycloaks
<1>5. CASE UserToken
  BY <1>5 DEF UserToken, FreshProgress
<1>6. CASE CreateUser
  BY <1>0, <1>6 DEF CreateUser, Request, FreshProgress, Keycloaks
<1>7. CASE SetPassword
  BY <1>0, <1>7 DEF SetPassword, Request, FreshProgress, Keycloaks
<1>8. CASE RegisterProvider
  BY <1>8 DEF RegisterProvider, FreshProgress
<1>9. CASE PlatformReady
  BY <1>9 DEF PlatformReady, FreshProgress, Empty
<1>10. CASE ChoosePassword \/ OthersRegister
  BY <1>0, <1>10 DEF ChoosePassword, OthersRegister, historyVars, FreshProgress, Keycloaks
<1>11. CASE UNCHANGED vars
  BY <1>11 DEF vars, historyVars, FreshProgress
<1> QED
  BY <1>1, <1>2, <1>3, <1>4, <1>5, <1>6, <1>7, <1>8, <1>9, <1>10, <1>11
  DEF Next, OnPlatformReady

(* When nothing fails, a Keycloak that began with nothing ends up with the *)
(* realm, its client and role, the user and a password for it (or for the  *)
(* user that the search took for it), and IAM with the provider.           *)
THEOREM FreshSetupIsComplete == Spec => []FreshSetupCompletes
<1>1. Init => FreshProgress
  BY DEF Init, FreshProgress
<1>2. FreshProgress => FreshSetupCompletes
  BY DEF FreshProgress, FreshSetupCompletes, ToRealm
<1> QED
  BY <1>1, <1>2, FreshStep, SetupTypeCorrect, PTL DEF Spec
=============================================================================
