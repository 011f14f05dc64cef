---------------------------- MODULE CloudSession ----------------------------
(***************************************************************************)
(* How an application reaches a managed store: connect() (cloud/serving.py)*)
(* makes one handle with a connection pool of its own, a Client            *)
(* (cloud/client.py) holds a pool that its handles borrow, and also        *)
(* creates, unseals and re-keys stores.  Every request may fail.           *)
(*                                                                         *)
(* A name is a string, "" when it is not given.                            *)
(***************************************************************************)
EXTENDS Naturals, Sequences, FiniteSets, FiniteSetsExt

CONSTANT CreateConflictRetries  \* _CREATE_CONFLICT_RETRIES

VARIABLE session  \* what the application holds, and the call it is in

-----------------------------------------------------------------------------
(* Targets and tenancy                                                     *)

Strip(segments) ==
  LET named == {i \in DOMAIN segments : segments[i] # ""}
  IN IF named = {} THEN <<>> ELSE SubSeq(segments, Min(named), Max(named))

Path(segments, url) ==
  CASE Len(segments) = 2 /\ url  -> Append(segments, "memory")
    [] Len(segments) \in {1, 3}  -> segments
    [] OTHER                     -> <<>>

\* A parse that passes over empty segments.
parse_target_filtering(t) == Path(SelectSeq(t.segments, LAMBDA s : s # ""), t.url)

\* A store, or its org, environment and store; <<>> when it is malformed.
parse_target(t) ==
  LET segments == Strip(t.segments)
  IN IF \E i \in DOMAIN segments : segments[i] = "" THEN <<>> ELSE Path(segments, t.url)

\* A token, given or stored.
resolve_credentials(given, stored) == given \/ stored

\* The tenancy that is given, that the token is bound to, or that is the
\* account's only choice; <<>> is a refusal.
resolve_tenancy(account, org, environment) ==
  LET The(names) == CHOOSE n \in names : TRUE
      orgs == IF org # "" THEN {org} ELSE account.orgs
      environments == IF environment # "" THEN {environment}
                      ELSE IF Cardinality(account.environments) = 1 THEN account.environments
                      ELSE account.environments \cap {"testing"}
  IN IF org # "" /\ environment # "" THEN <<org, environment>>
     ELSE IF account.bound # <<>>
     THEN IF org \in {"", account.bound[1]} /\ environment \in {"", account.bound[2]}
          THEN account.bound ELSE <<>>
     ELSE IF Cardinality(orgs) = 1 /\ Cardinality(environments) = 1
     THEN <<The(orgs), The(environments)>> ELSE <<>>

\* Up to three segments, each empty or a name of its own.
Targets ==
  LET Name(i) == <<"a", "b", "c">>[i]
  IN [url : BOOLEAN,
      segments : UNION {{[i \in 1 .. n |-> IF i \in named THEN Name(i) ELSE ""] :
                           named \in SUBSET (1 .. n)} : n \in 1 .. 3}]

Accounts ==
  {[bound |-> <<"a", "production">>, orgs |-> {}, environments |-> {}]}
    \cup [bound : {<<>>}, orgs : SUBSET {"a", "b"}, environments : SUBSET {"testing", "production"}]

-----------------------------------------------------------------------------
(* Handles and their pools                                                 *)

Out == [at |-> "out", pool |-> FALSE]
Handle(by) == [at |-> "handle", pool |-> TRUE, by |-> by]
ClientOnly == [at |-> "client", pool |-> TRUE]

SessionInit == session = Out

\* Opening the pool; what is malformed or lacks a token raises before it.
connect(t) ==
  /\ session = Out
  /\ parse_target(t) # <<>> /\ \E given, stored \in BOOLEAN : resolve_credentials(given, stored)
  /\ session' = [at |-> "resolve", pool |-> TRUE, by |-> "connect", target |-> t, org |-> "",
                 environment |-> ""]

Client_init(org, environment) ==
  /\ session = Out /\ \E given, stored \in BOOLEAN : resolve_credentials(given, stored)
  /\ session' = [at |-> "resolve", pool |-> TRUE, by |-> "client", org |-> org,
                 environment |-> environment]

\* A failure that drops the client without closing it.
RaiseLeaking == session' = [Out EXCEPT !.pool = TRUE]
CloseAndRaise == session' = Out

NewHandle(tenancy, store, account) ==
  session' = [at |-> "made", pool |-> TRUE, target |-> session.target, tenancy |-> tenancy,
              store |-> store, account |-> account]

\* The tenancy is the target's, or is asked of the service.
ResolveConnect ==
  LET path == parse_target(session.target) IN
  /\ session.at = "resolve" /\ session.by = "connect"
  /\ \/ Len(path) = 3 /\ NewHandle(SubSeq(path, 1, 2), path[3], <<>>)
     \/ /\ Len(path) = 1
        /\ \/ CloseAndRaise                  \* a request fails
           \/ \E account \in Accounts :
                LET tenancy == resolve_tenancy(account, "", "")
                IN IF tenancy = <<>> THEN CloseAndRaise ELSE NewHandle(tenancy, path[1], account)

ResolveClient ==
  /\ session.at = "resolve" /\ session.by = "client"
  /\ \/ CloseAndRaise
     \/ \E account \in Accounts :
          IF resolve_tenancy(account, session.org, session.environment) = <<>>
          THEN CloseAndRaise ELSE session' = ClientOnly

Made ==
  /\ session.at = "made"
  /\ session' \in {[Handle("connect") EXCEPT !.at = "warm"], Handle("connect")}

Client_store(warm) ==
  /\ session.at = "client"
  /\ session' = IF warm THEN [Handle("client") EXCEPT !.at = "warm"] ELSE Handle("client")

\* stats(warm=True).  connect takes a store that holds nothing for a new one.
connectable(answer) == answer = "served" \/ (answer = "unprovisioned" /\ session.by = "connect")

Warm(answer) ==
  /\ session.at = "warm"
  /\ IF connectable(answer) THEN session' = Handle(session.by)
     ELSE IF session.by = "connect" THEN CloseAndRaise ELSE session' = ClientOnly

\* A borrowed handle leaves the pool to its Client.
CloseHandle ==
  /\ session.at = "handle"
  /\ session' = IF session.by = "connect" THEN Out ELSE ClientOnly

CloseClient == session = ClientOnly /\ session' = Out

-----------------------------------------------------------------------------
(* Calls of the Client, all but its transfers: whether material is sealed to  *)
(* a challenge of the service first, and whether the call may be re-run.   *)

Call(challenge, rerun) == [challenge |-> challenge, rerun |-> rerun]

create_store(encrypted) == Call(encrypted, TRUE)
unseal_store            == Call(TRUE, FALSE)
reseal_store            == Call(FALSE, FALSE)
rotate_store_key        == Call(TRUE, FALSE)
delete_store            == Call(FALSE, FALSE)
restore_store           == Call(FALSE, FALSE)
update_store            == Call(FALSE, FALSE)
store_key_calls         == Call(FALSE, FALSE)  \* delete_store_key, restore_store_key, history
rollback_store          == Call(FALSE, FALSE)
environment_calls       == Call(FALSE, FALSE)  \* list, delete_environment, restore_environment
org_calls               == Call(FALSE, FALSE)  \* trash, export, delete_org, restore_org
token_calls             == Call(FALSE, FALSE)  \* me, token_self, list, mint_token, revoke_token

ClientCalls == {create_store(TRUE), create_store(FALSE), unseal_store, reseal_store,
                rotate_store_key, delete_store, restore_store, update_store, rollback_store,
                store_key_calls, environment_calls, org_calls, token_calls}

ClientCall ==
  /\ session = ClientOnly
  /\ \E verb \in ClientCalls :
       session' = [at |-> "call", pool |-> TRUE, verb |-> verb, sealed |-> FALSE, conflicts |-> 0,
                   took |-> FALSE]

\* A challenge is fetched for each attempt; one that fails or is incomplete
\* raises.
unseal_challenge ==
  /\ session.at = "call" /\ session.verb.challenge /\ ~session.sealed
  /\ session' \in {[session EXCEPT !.sealed = TRUE], ClientOnly}

\* Only the refusal that rolled the whole creation back is re-run.
rerun(error) == session.verb.rerun /\ error = "empty_head_artifact_missing"

Failed(error, took) ==
  session' = IF rerun(error) /\ session.conflicts < CreateConflictRetries
             THEN [session EXCEPT !.conflicts = @ + 1, !.sealed = FALSE, !.took = took]
             ELSE ClientOnly

Submit ==
  /\ session.at = "call" /\ (session.verb.challenge => session.sealed)
  /\ \/ session' = ClientOnly                    \* carried out and answered
     \/ \E took \in BOOLEAN : Failed("transport", took)
     \/ \E error \in {"refused", "empty_head_artifact_missing"} : Failed(error, FALSE)

SessionStep == ResolveConnect \/ ResolveClient \/ Made \/ unseal_challenge \/ Submit

-----------------------------------------------------------------------------
(* Properties                                                              *)

\* A pool is open exactly while the application holds, or is being given,
\* something that closes it: a connect or Client() that fails at any step leaves
\* none behind, and closing a borrowed handle does not close its Client's.
PoolsHeld == session.pool <=> session.at # "out"

\* A handle is aimed at the store its target names, in the tenancy the target
\* names or, for a bare store id, in the one the token is bound to or the
\* account leaves no choice about; never one that names run together over an
\* empty segment would spell, and never production by default.
ConnectedAsNamed ==
  session.at = "made" =>
    LET s == session.target.segments
        named == {i \in DOMAIN s : s[i] # ""}
        n == Cardinality(named)
    IN /\ named = Min(named) .. Max(named)
       /\ session.store = IF n = 2 THEN "memory" ELSE s[Max(named)]
       /\ IF n > 1 THEN session.tenancy = <<s[Min(named)], s[Min(named) + 1]>>
          ELSE \/ session.tenancy = session.account.bound
               \/ /\ session.account.bound = <<>> /\ session.account.orgs = {session.tenancy[1]}
                  /\ session.tenancy[2] = "production" =>
                       session.account.environments = {"production"}

\* No call of a Client is submitted again once it may have taken effect: the
\* one refusal create_store re-runs rolled its creation back.
SubmittedOnce == session.at = "call" => ~session.took
=============================================================================
