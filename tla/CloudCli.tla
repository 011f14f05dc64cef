------------------------------ MODULE CloudCli ------------------------------
(***************************************************************************)
(* The commands of `lodedb cloud` (cloud/cli.py) over the control plane's  *)
(* client (cloud/client.py, cloud/transfer.py).  A command is the sequence *)
(* of requests and local steps it makes; any request may be refused, fail  *)
(* on the server, or lose its answer, and the command may be killed.       *)
(* The control plane itself is external: tokens, one store's wrapping      *)
(* material, and whether a change was applied are what is kept of it.      *)
(***************************************************************************)
EXTENDS Naturals, Sequences, FiniteSets

CONSTANTS
  Hosts,      \* control planes
  None,
  MaxTokens,  \* bound: tokens ever issued
  MaxCommands \* bound: commands run

VARIABLES
  tokens,     \* issued tokens, by id
  material,   \* the material that unseals the store: "old" or a command's
  creds,      \* ~/.orecloud/credentials.json: host and token, or None
  envfile,    \* the token in the repository's .env, or None
  remote,     \* orecloud.toml: its host and environment, or None
  cli,        \* the command in progress, or the one that ended last
  commands    \* commands run so far

vars == <<tokens, material, creds, envfile, remote, cli, commands>>
service == <<tokens, material>>
files == <<creds, envfile, remote>>

-----------------------------------------------------------------------------
(* Requests, by HTTP method and what the control plane does with them.     *)

Req(method, effect) == [op |-> "request", method |-> method, effect |-> effect]

me                     == Req("GET", "prove")
token_self             == Req("GET", "read")
token_self_or_404      == Req("GET", "self")    \* whoami's own
list_tokens            == Req("GET", "list")
mint_token             == Req("POST", "mint")
mint_init_token        == Req("POST", "mint_init")
revoke_token           == Req("POST", "revoke")
list_environments      == Req("GET", "read")
list_stores            == Req("GET", "read")
store_stats            == Req("GET", "read")
create_store           == Req("POST", "change")
store_create_challenge == Req("GET", "read")
store_unseal_challenge == Req("POST", "read")
unseal_store           == Req("POST", "change")
reseal_store           == Req("POST", "change")
rotate_store_key       == Req("POST", "rotate")
delete_org             == Req("DELETE", "change")
restore_org            == Req("POST", "change")
delete_environment     == Req("DELETE", "change")
restore_environment    == Req("POST", "change")
delete_store           == Req("DELETE", "change")
restore_store          == Req("POST", "change")
delete_store_key       == Req("POST", "change")
restore_store_key      == Req("POST", "change")
list_trash             == Req("GET", "read")
export_org             == Req("GET", "read")
store_head             == Req("GET", "read")
pull_plan              == Req("GET", "read")
head_history           == Req("GET", "read")
rollback_store         == Req("POST", "change")
begin_push             == Req("POST", "change")
commit_push            == Req("POST", "change")
browse_documents       == Req("POST", "read")
recall                 == Req("POST", "read")
delete_memories        == Req("POST", "change")

-----------------------------------------------------------------------------
(* Commands, as the steps they take once their arguments are accepted.     *)

Local(op) == [op |-> op, method |-> "none", effect |-> "none"]

client           == Local("client")        \* stored credentials, or an error
confirm          == Local("confirm")       \* --yes, or an answer at a terminal
save_credentials == Local("save_credentials")
delete_credentials == Local("delete_credentials")
reload           == Local("reload")        \* the credentials, read a second time
save_remote      == Local("save_remote")
load_remote      == Local("load_remote")
ensure_logged_in == Local("ensure_logged_in")
print_headers    == Local("print_headers")
load_material    == Local("load_material") \* given or generated, for a new store
generate         == Local("generate")      \* material printed once
pick_tenancy     == Local("pick_tenancy")  \* one org and environment are left
pick_org         == Local("pick_org")
pick_key         == Local("pick_key")
available        == Local("available")     \* the named environment exists
reuse_or_revoke  == Local("reuse_or_revoke")
write_env        == Local("write_env")
heal_env         == Local("heal_env")      \* the file's host line alone
inspect          == Local("inspect")       \* no control plane: files or a bucket
start_session    == Req("POST", "session") \* a login's own, without a token
Handoff          == Req("GET", "claim")    \* the approved login's claiming poll

\* resolve_tenancy: an explicit pair, a bound token's own, or an account's.
resolve_tenancy(org, environment, kind) ==
  IF org /\ environment THEN <<>>
  ELSE <<token_self>>
         \o (IF kind = "bound" \/ org THEN <<>> ELSE <<me>>)
         \o (IF kind = "bound" \/ environment THEN <<>> ELSE <<list_environments>>)
         \o <<pick_tenancy>>

\* _org_scope: the same for an org alone.
org_scope(org, kind) ==
  IF org THEN <<>>
  ELSE IF kind = "bound" THEN <<token_self>> ELSE <<token_self, me, pick_org>>

resolve_index_key(explicit) == IF explicit THEN <<>> ELSE <<list_stores, pick_key>>

browser_login == <<start_session, Handoff>>

\* login: the token is proven, then stored.
login(given) == (IF given THEN <<>> ELSE browser_login) \o <<me, save_credentials>>

logout              == <<delete_credentials>>
auth_print_headers  == <<print_headers>>
whoami(kind)        == <<client, token_self_or_404>> \o (IF kind = "personal" THEN <<me>> ELSE <<>>)
link(t)             == <<client>> \o t \o <<reload, save_remote>>

\* An init that mints before it revokes.
mint_then_revoke == <<list_tokens, mint_init_token, reuse_or_revoke, write_env>>

\* _agents_repo_token: reuse the live key the file holds, or revoke every live
\* key of the name, then mint one and write it.
agents_repo_token == <<list_tokens, reuse_or_revoke, mint_init_token, write_env>>

\* An environment that is named is looked up, one that is not is resolved.
init(org, environment, kind, agents) ==
  <<ensure_logged_in>>
    \o (IF environment THEN org_scope(org, kind) \o <<list_environments, available>>
        ELSE resolve_tenancy(org, FALSE, kind))
    \o (IF agents THEN agents_repo_token ELSE <<>>) \o <<save_remote>>

tokens_list         == <<client, list_tokens>>
tokens_mint(t, env) == <<client>> \o t \o <<mint_token>> \o (IF env THEN <<write_env>> ELSE <<>>)
tokens_revoke       == <<client, revoke_token>>
mcp_install(t)      == <<client>> \o t \o <<reload>>
environments_list(o)    == <<client>> \o o \o <<list_environments>>
environments_delete(o)  == <<client>> \o o \o <<confirm, delete_environment>>
environments_restore(o) == <<client>> \o o \o <<restore_environment>>
org_delete(o)       == <<client>> \o o \o <<confirm, delete_org>>
org_restore         == <<client, restore_org>>
org_trash(o)        == <<client>> \o o \o <<list_trash>>
org_export(o)       == <<client>> \o o \o <<export_org>>
store_list(t)       == <<client>> \o t \o <<list_stores>>
store_create(t, encrypted, connect_key) ==
  <<client>> \o t \o (IF encrypted THEN <<load_material, store_create_challenge>> ELSE <<>>)
    \o <<create_store>> \o (IF connect_key THEN <<mint_token>> ELSE <<>>)
store_unseal(t)     == <<client>> \o t \o <<load_material, store_unseal_challenge, unseal_store>>
store_reseal(t)     == <<client>> \o t \o <<reseal_store>>
store_rotate(t)     == <<client>> \o t \o <<generate, store_unseal_challenge, rotate_store_key>>
store_delete(t, keyed) ==
  <<client>> \o t \o <<confirm, IF keyed THEN delete_store_key ELSE delete_store>>
store_restore(t, keyed) ==
  <<client>> \o t \o <<IF keyed THEN restore_store_key ELSE restore_store>>
store_history(t, keyed)  == <<client>> \o t \o resolve_index_key(keyed) \o <<head_history>>
store_rollback(t, keyed) ==
  <<client>> \o t \o resolve_index_key(keyed) \o <<confirm, rollback_store>>
store_browse(t)     == <<client>> \o t \o <<browse_documents>>
store_export(t, pages) == <<client>> \o t \o [i \in 1 .. pages |-> browse_documents]
store_recall(t)     == <<client>> \o t \o <<recall>>
store_delete_memories(t) == <<client>> \o t \o <<confirm, delete_memories>>
keys                == <<inspect>>
verify              == <<inspect>>

\* _managed: the linked remote, or a URL; any other target has no control plane.
managed(linked)     == IF linked THEN <<load_remote>> ELSE <<client>>
push(m)             == m \o <<store_head, begin_push, commit_push>>
pull(m)             == m \o <<store_head, pull_plan>>
status(m)           == m \o <<store_head>>
sync(m, moved) ==
  status(m) \o (CASE moved = "local" -> <<begin_push, commit_push>>
               [] moved = "remote" -> <<pull_plan>>
               [] OTHER -> <<>>)

Commands == [kind \in {"personal", "bound"} |->
  UNION {
    LET t == resolve_tenancy(explicit, explicit, kind)
        o == org_scope(explicit, kind)
        m == managed(explicit)
    IN {login(explicit), logout, auth_print_headers, whoami(kind), link(t),
        init(explicit, TRUE, kind, TRUE), init(explicit, FALSE, kind, TRUE),
        init(explicit, explicit, kind, FALSE), keys, verify, tokens_list,
        tokens_mint(t, explicit), tokens_revoke, mcp_install(t), environments_list(o),
        environments_delete(o), environments_restore(o), org_delete(o), org_restore,
        org_trash(o), org_export(o), store_list(t), store_unseal(t),
        store_create(t, TRUE, explicit), store_create(t, FALSE, explicit), store_reseal(t),
        store_rotate(t), store_delete(t, explicit), store_restore(t, explicit),
        store_history(t, explicit), store_rollback(t, explicit), store_browse(t),
        store_export(t, 1), store_export(t, 2), store_recall(t), store_delete_memories(t), push(m),
        pull(m), status(m), sync(m, "local"), sync(m, "remote"), sync(m, "neither")}
    : explicit \in BOOLEAN}]

-----------------------------------------------------------------------------
(* Exit codes.                                                             *)

EXIT_UNEXPECTED == 1
EXIT_USAGE      == 2
EXIT_AUTH       == 3
EXIT_NOT_FOUND  == 4
EXIT_REFUSED    == 5
EXIT_RETRY      == 6

Refusals == {401, 402, 403, 404, 409, 422, 423, 425, 429, 503}

classify(http) ==
  CASE http \in {401, 403}           -> EXIT_AUTH
    [] http = 404                    -> EXIT_NOT_FOUND
    [] http \in {402, 409, 422, 423} -> EXIT_REFUSED
    [] http \in {425, 429, 503}      -> EXIT_RETRY
    [] OTHER                           -> EXIT_UNEXPECTED

read_only_request(r) == r.method \in {"GET", "HEAD"}

\* _network_fail: a lost answer to a write leaves the outcome unknown.
network_fail(r, submitted) ==
  IF ~submitted \/ read_only_request(r) THEN EXIT_RETRY ELSE EXIT_UNEXPECTED

-----------------------------------------------------------------------------
DEFAULT_HOST == CHOOSE h \in Hosts : TRUE

\* The pair every org is seeded with.
Environments == {"production", "testing"}

Ended == [pc |-> "done", exit |-> 0, told |-> "nothing", mine |-> 0, init |-> None]

\* A token of init's name has the environment it was minted for.
Init ==
  /\ tokens = <<[host |-> DEFAULT_HOST, kind |-> "personal", init |-> None,
                 live |-> TRUE]>>
  /\ material = 0 /\ creds = None /\ envfile = None /\ remote = None
  /\ cli = Ended /\ commands = 0

Elements(s) == {s[i] : i \in DOMAIN s}

Kind(c) == IF c # None /\ c.token \in DOMAIN tokens THEN tokens[c.token].kind ELSE "personal"

\* A command starts; login --token may be given a wrong one.
Start ==
  /\ cli.pc = "done" /\ commands < MaxCommands /\ commands' = commands + 1
  /\ \E steps \in Commands[Kind(creds)], host \in Hosts, given \in 0 .. Len(tokens),
        env \in Environments :
       /\ given # 0 => steps = login(TRUE)
       /\ host # DEFAULT_HOST =>
            {Handoff, ensure_logged_in} \cap Elements(steps) # {} \/ steps = login(TRUE)
       /\ env # "testing" => save_remote \in Elements(steps)
       /\ cli' = [pc |-> "run", steps |-> steps, host |-> host, token |-> given,
                  env |-> env, live |-> {}, mine |-> 0,
                  init |-> mint_init_token \in Elements(steps)]
  /\ UNCHANGED <<service, files>>

Doing(op) == cli.pc = "run" /\ cli.steps # <<>> /\ Head(cli.steps).op = op
Continue == cli' = [cli EXCEPT !.steps = Tail(@)]

\* A failed rotation that always says the printed material took no effect.
told_unchanged(http, submitted) == "unchanged"

\* store_rotate: what is said of the printed material after a failure.  The
\* status is 0 when no answer came.
told(http, submitted) ==
  IF ~submitted \/ (http # 0 /\ http < 500) THEN "unchanged" ELSE "unknown"

\* _agents_repo_token runs inside _run, which turns every typer.Exit, being a
\* RuntimeError, into exit 1.
Within_run ==
  cli.init /\ write_env \in Elements(cli.steps) /\ list_tokens \notin Elements(Tail(cli.steps))

\* The command fails with the code of a class.
Fail(class, http, submitted) ==
  cli' = [Ended EXCEPT
            !.exit = IF Within_run THEN EXIT_UNEXPECTED ELSE class, !.mine = cli.mine,
            !.told = IF cli.mine = 0 THEN "nothing"
                     ELSE IF Head(cli.steps).effect # "rotate" THEN "unchanged"
                     ELSE told(http, submitted)]

\* A failure that no request is part of.
FailLocally(class) == Fail(class, 0, FALSE)

Finish ==
  /\ cli.pc = "run" /\ cli.steps = <<>>
  /\ cli' = [Ended EXCEPT !.init = IF cli.init THEN <<cli.host, cli.env>> ELSE None,
               !.mine = cli.mine, !.told = IF cli.mine = 0 THEN "nothing" ELSE "rotated"]
  /\ UNCHANGED <<service, files, commands>>

\* The process is killed.
Kill ==
  /\ cli.pc = "run"
  /\ cli' = [Ended EXCEPT !.exit = EXIT_UNEXPECTED]
  /\ UNCHANGED <<service, files, commands>>

-----------------------------------------------------------------------------
(* One request (the control plane's half is external).                     *)

\* A login's own requests carry no token.
Accepted(r) ==
  \/ r \in {start_session, Handoff}
  \/ /\ cli.token \in DOMAIN tokens
     /\ tokens[cli.token].live /\ tokens[cli.token].host = cli.host

Issue(kind, env) ==
  /\ Len(tokens) < MaxTokens
  /\ tokens' = Append(tokens, [host |-> cli.host, kind |-> kind, init |-> env, live |-> TRUE])

Revoke(id) == tokens' = [tokens EXCEPT ![id].live = FALSE]

OwnTokens == {id \in DOMAIN tokens : tokens[id].host = cli.host}

\* What a request does when it is carried out.
Carried(r) ==
  CASE r.effect = "mint"      -> Issue("bound", None) /\ UNCHANGED material
    [] r.effect = "mint_init" -> Issue("bound", cli.env) /\ UNCHANGED material
    [] r.effect = "claim"     -> Issue("personal", None) /\ UNCHANGED material
    [] r.effect = "revoke"    -> /\ \E id \in IF cli.init THEN cli.live ELSE OwnTokens :
                                      Revoke(id)
                                 /\ UNCHANGED material
    [] r.effect = "rotate"    -> material' = cli.mine /\ UNCHANGED tokens
    [] OTHER                  -> UNCHANGED service

\* Keys matched by name alone.
LiveByName(host, env) ==
  {id \in DOMAIN tokens : tokens[id].init # None /\ tokens[id].host = host /\ tokens[id].live}

\* alive, with the name, the org and the environment the key is minted under, on
\* the control plane that is asked.
LiveInit(host, env) ==
  {id \in DOMAIN tokens : tokens[id].init = env /\ tokens[id].host = host /\ tokens[id].live}

\* The answer arrives.  A command keeps the live keys it listed, then the key it
\* was issued.
Answered ==
  LET r == Head(cli.steps) IN
  /\ Doing("request") /\ Accepted(r)
  /\ Carried(r)
  /\ cli' = [cli EXCEPT !.steps = Tail(@),
               !.token = CASE r.effect = "claim" -> Len(tokens') [] OTHER -> @,
               !.live = CASE r.effect = "list" -> LiveInit(cli.host, cli.env)
                          [] r.effect = "revoke" -> {id \in @ : tokens'[id].live}
                          [] r.effect \in {"mint", "mint_init"} -> {Len(tokens')}
                          [] OTHER -> @]
  /\ UNCHANGED <<files, commands>>

\* _raise_for: a refusal, and nothing was done; a 5xx may be answered after all
\* was.  A whoami whose control plane has no /v1/tokens/self goes on to me.
Refused ==
  LET r == Head(cli.steps) IN
  /\ Doing("request")
  /\ \/ \E http \in IF Accepted(r) THEN Refusals \cup {500} ELSE {401} :
          /\ IF r.effect = "self" /\ http = 404
             THEN cli' = [cli EXCEPT !.steps = <<me>>]
             ELSE Fail(classify(http), http, TRUE)
          /\ UNCHANGED service
     \/ \E http \in {500, 503} : Accepted(r) /\ Carried(r) /\ Fail(classify(http), http, TRUE)
  /\ UNCHANGED <<files, commands>>

\* A transport error: before the request was submitted, or with its answer lost.
NetworkFails ==
  LET r == Head(cli.steps) IN
  /\ Doing("request")
  /\ \/ \E submitted \in BOOLEAN :
          Fail(network_fail(r, submitted), 0, submitted) /\ UNCHANGED service
     \/ Accepted(r) /\ Carried(r) /\ Fail(network_fail(r, TRUE), 0, TRUE)
  /\ UNCHANGED <<files, commands>>

\* LoginHandoff.wait ends without a token: denied, expired or claimed, or late.
LoginEnds ==
  /\ Doing("request") /\ Head(cli.steps) = Handoff
  /\ \E http \in {409, 408} : Fail(classify(http), http, TRUE)
  /\ UNCHANGED <<service, files, commands>>

-----------------------------------------------------------------------------
(* Local steps.                                                            *)

UseStored == cli' = [cli EXCEPT !.steps = Tail(@), !.host = creds.host, !.token = creds.token]

\* load_credentials, at the start of a command; none stored is an error.
LoadCredentials ==
  /\ Doing("client")
  /\ IF creds = None THEN FailLocally(EXIT_UNEXPECTED) ELSE UseStored
  /\ UNCHANGED <<service, files, commands>>

PrintHeaders ==
  /\ Doing("print_headers")
  /\ IF creds = None THEN FailLocally(EXIT_AUTH) ELSE Continue
  /\ UNCHANGED <<service, files, commands>>

\* _ensure_logged_in: the stored login, unless --host contradicts it, or a login
\* here and now.  The default host may be asked for, or just be the default.
EnsureLoggedIn ==
  /\ Doing("ensure_logged_in")
  /\ \/ /\ creds = None
        /\ cli' = [cli EXCEPT !.steps = browser_login \o <<me, save_credentials>> \o Tail(@)]
     \/ creds # None /\ cli.host \in {creds.host, DEFAULT_HOST} /\ UseStored
     \/ creds # None /\ cli.host # creds.host /\ FailLocally(EXIT_USAGE)
  /\ UNCHANGED <<service, files, commands>>

\* link and mcp install read them again and assert that they are still there.
Reload ==
  /\ Doing("reload")
  /\ IF creds = None THEN FailLocally(EXIT_UNEXPECTED)
     ELSE cli' = [cli EXCEPT !.steps = Tail(@), !.host = creds.host]
  /\ UNCHANGED <<service, files, commands>>

\* _managed with the remote `cloud`: linked, logged in, to the linked host.
LoadRemote ==
  /\ Doing("load_remote")
  /\ IF remote = None \/ creds = None THEN FailLocally(EXIT_UNEXPECTED)
     ELSE IF creds.host # remote.host THEN FailLocally(EXIT_UNEXPECTED)
     ELSE UseStored
  /\ UNCHANGED <<service, files, commands>>

\* What a local check may end the command with: a refused _confirm (no terminal,
\* or declined), no org, environment or key or several, no such environment, bad
\* material, a file that cannot be read or written.
Outcomes ==
  [confirm |-> {EXIT_USAGE, EXIT_UNEXPECTED}, pick_org |-> {EXIT_USAGE, EXIT_UNEXPECTED},
   pick_tenancy |-> {EXIT_AUTH, EXIT_NOT_FOUND, EXIT_REFUSED}, pick_key |-> {EXIT_UNEXPECTED},
   available |-> {EXIT_NOT_FOUND}, load_material |-> {EXIT_USAGE},
   heal_env |-> {EXIT_UNEXPECTED}, inspect |-> {EXIT_UNEXPECTED, EXIT_REFUSED}]

Decide ==
  /\ \E op \in DOMAIN Outcomes :
       Doing(op) /\ (Continue \/ \E code \in Outcomes[op] : FailLocally(code))
  /\ UNCHANGED <<service, files, commands>>

SaveCredentials ==
  /\ Doing("save_credentials")
  /\ creds' = [host |-> cli.host, token |-> cli.token]
  /\ Continue
  /\ UNCHANGED <<service, envfile, remote, commands>>

DeleteCredentials ==
  /\ Doing("delete_credentials")
  /\ creds' = None /\ Continue
  /\ UNCHANGED <<service, envfile, remote, commands>>

SaveRemote ==
  /\ Doing("save_remote")
  /\ remote' = [host |-> cli.host, env |-> cli.env] /\ Continue
  /\ UNCHANGED <<service, creds, envfile, commands>>

\* _load_material --generate-material: fresh, printed before it is used.
Generate ==
  /\ Doing("generate")
  /\ cli' = [cli EXCEPT !.steps = Tail(@), !.mine = commands]
  /\ UNCHANGED <<service, files, commands>>

ReuseOrRevoke ==
  /\ Doing("reuse_or_revoke")
  /\ cli' = IF envfile \in cli.live
            THEN [cli EXCEPT !.steps = <<heal_env>> \o
                    SelectSeq(Tail(@), LAMBDA st : st \notin {mint_init_token, write_env})]
            ELSE [cli EXCEPT !.steps = [i \in 1 .. Cardinality(cli.live) |-> revoke_token] \o Tail(@)]
  /\ UNCHANGED <<service, files, commands>>

\* _write_credential_env: replaced whole, or not at all.
WriteEnv ==
  /\ Doing("write_env")
  /\ \/ (\E id \in cli.live : envfile' = id) /\ Continue
     \/ FailLocally(EXIT_UNEXPECTED) /\ UNCHANGED envfile
  /\ UNCHANGED <<service, creds, remote, commands>>

-----------------------------------------------------------------------------
\* A token expires.
Expire ==
  /\ \E id \in DOMAIN tokens : tokens[id].live /\ Revoke(id)
  /\ UNCHANGED <<material, files, cli, commands>>

\* A command in another terminal logs out, or in with a token it proved.
OtherTerminal ==
  /\ commands < MaxCommands /\ commands' = commands + 1
  /\ \/ creds # None /\ creds' = None
     \/ \E id \in DOMAIN tokens :
          tokens[id].live /\ creds' = [host |-> tokens[id].host, token |-> id]
  /\ UNCHANGED <<service, envfile, remote, cli>>

LocalStep ==
  LoadCredentials \/ PrintHeaders \/ EnsureLoggedIn \/ Reload \/ LoadRemote \/ Decide
    \/ SaveCredentials \/ DeleteCredentials \/ SaveRemote \/ Generate \/ ReuseOrRevoke \/ WriteEnv

Next ==
  Start \/ Finish \/ Kill \/ Answered \/ Refused \/ NetworkFails \/ LoginEnds \/ LocalStep
    \/ Expire \/ OtherTerminal

Spec == Init /\ [][Next]_vars

-----------------------------------------------------------------------------
(* Properties.                                                             *)

\* Type invariant: tokens on file were issued, and the store's material was
\* generated by one of the rotations run.
TypeOK ==
  /\ Len(tokens) \in 1 .. MaxTokens /\ material \in 0 .. MaxCommands
  /\ envfile \in DOMAIN tokens \cup {None}
  /\ creds # None => creds.host \in Hosts /\ creds.token \in 0 .. Len(tokens)
  /\ cli.pc \in {"run", "done"}

\* store rotate tells the truth about the material it printed once: what it calls
\* without effect does not unseal the store, and material that does was never
\* called so.
RotateHonest ==
  cli.pc = "done" /\ cli.mine # 0 =>
    /\ cli.told = "unchanged" => material # cli.mine
    /\ cli.told = "rotated" => material = cli.mine

\* Re-running init never accumulates keys: however its runs ended, at most one
\* live key has its name in an environment of a control plane, and after a
\* completed run that key is the file's.  Runs for two environments do leave two.
KeysNeverAccumulate ==
  /\ \A host \in Hosts, env \in Environments : Cardinality(LiveInit(host, env)) <= 1
  /\ cli.pc = "done" /\ cli.init # None => LiveInit(cli.init[1], cli.init[2]) \subseteq {envfile}

\* After a completed init --agents the two files agree: the key in .env is one of
\* the control plane and the environment that orecloud.toml names, whatever key an
\* earlier run or `tokens mint` left in the file.
LinkedKey ==
  cli.pc = "done" /\ cli.init # None =>
    /\ <<remote.host, remote.env>> = cli.init
    /\ envfile # None /\ tokens[envfile].host = remote.host /\ tokens[envfile].init = remote.env

=============================================================================
