------------------------------- MODULE Server -------------------------------
(***************************************************************************)
(* The life of the server process: the configuration decides whether it    *)
(* starts (memcp/config.py, memcp/__main__.py, create_app of               *)
(* memcp/server.py), the BearerGate of memcp/auth.py gives each HTTP       *)
(* request a tenant, tools read it from the context they run in, and the   *)
(* lifespan of the app closes the backend.                                 *)
(*                                                                         *)
(* External, as the code relies on it: uvicorn runs each request in a task *)
(* and a context of its own and, told to stop, ends the lifespan when no   *)
(* request is left; FastMCP, stateless (server.py:59), runs the tool of a  *)
(* request in a new task of the session manager, which starts with a copy  *)
(* of the context of the request and may outlive it when the client hangs  *)
(* up.                                                                     *)
(***************************************************************************)
EXTENDS Naturals, FiniteSets, FiniteSetsExt, Sequences

CONSTANTS
  Requests,
  Tokens,
  Users,
  DefaultUser,   \* _DEFAULT_USER
  Blank,         \* what strips to the empty string
  Unset,         \* a context variable without a value; no table; nobody
  BackendNames,  \* what MEMCP_BACKEND may say
  Settings       \* what MEMCP_AUTH_TOKENS may say, split at the commas

(* One part of the token setting: with or without a colon, and the         *)
(* stripped strings around it.  <<>> is a setting that is empty or unset.  *)
Pairs == [colon : BOOLEAN, token : Tokens \cup {Blank}, user : Users \cup {Blank}]
Environments ==
  [backend : BackendNames, base : BOOLEAN, key : BOOLEAN, tokens : Settings]

ASSUME ServerAssumption ==
  /\ Settings \subseteq Seq(Pairs)
  /\ Blank \notin Tokens \cup Users
  /\ Unset \notin Users \cup {DefaultUser, Blank}
  /\ Unset \notin UNION {[named -> Users] : named \in SUBSET Tokens}

VARIABLES
  env,       \* the environment variables
  phase,     \* of the process
  resolver,  \* the token table of the gate, or Unset
  header,    \* request -> the token it presents, or Blank without "Bearer "
  at,        \* request -> where it is
  context,   \* request -> the tenant in its context
  task,      \* request -> the state of its tool call
  copy,      \* request -> the tenant in the context of its tool call
  acted      \* request -> the tenant its tool call acts for

vars == <<env, phase, resolver, header, at, context, task, copy, acted>>

Tenants == Users \cup {DefaultUser, Unset}

TypeOK ==
  /\ env \in Environments
  /\ phase \in {"down", "refused", "serving", "stopping", "closed", "stopped"}
  /\ resolver # Unset => /\ DOMAIN resolver \subseteq Tokens
                         /\ \A t \in DOMAIN resolver : resolver[t] \in Users
  /\ header \in [Requests -> Tokens \cup {Blank}]
  /\ at \in [Requests -> {"outside", "inside", "rejected", "left"}]
  /\ context \in [Requests -> Tenants]
  /\ task \in [Requests -> {"none", "spawned", "running", "done", "cancelled"}]
  /\ copy \in [Requests -> Tenants]
  /\ acted \in [Requests -> Tenants]

Init ==
  /\ env \in Environments
  /\ phase = "down"
  /\ resolver = Unset
  /\ header = [r \in Requests |-> Blank]
  /\ at = [r \in Requests |-> "outside"]
  /\ context = [r \in Requests |-> Unset]
  /\ task = [r \in Requests |-> "none"]
  /\ copy = [r \in Requests |-> Unset]
  /\ acted = [r \in Requests |-> Unset]

-----------------------------------------------------------------------------
(* Start-up.  A definition named for what it gets wrong, just before the   *)
(* one it resembles, is a mutant: the properties are checked to fail when  *)
(* it takes the other's place.                                             *)

ConfigValid ==
  /\ env.backend \in {"mem0", "in_memory"}
  /\ env.backend = "mem0" => env.base /\ env.key

(* StaticResolver.from_env: blank parts are passed over, any other part    *)
(* must be token:user, and the last pair of a token counts.                *)
PassedOver(p) == ~p.colon /\ p.token = Blank
WellFormedAnyUser(p) == p.colon /\ p.token # Blank
WellFormed(p) == p.colon /\ p.token # Blank /\ p.user # Blank
PairsOf(token) ==
  {k \in DOMAIN env.tokens : WellFormed(env.tokens[k]) /\ env.tokens[k].token = token}
Table == [t \in {u \in Tokens : PairsOf(u) # {}} |-> env.tokens[Max(PairsOf(t))].user]

TableValid ==
  /\ \A k \in DOMAIN env.tokens : PassedOver(env.tokens[k]) \/ WellFormed(env.tokens[k])
  /\ DOMAIN Table # {}

OpenUnlessPairs == DOMAIN Table = {}
Open == env.tokens = <<>>

Start ==
  /\ phase = "down"
  /\ IF ConfigValid /\ (Open \/ TableValid)
     THEN phase' = "serving" /\ resolver' = IF Open THEN Unset ELSE Table
     ELSE phase' = "refused" /\ UNCHANGED resolver
  /\ UNCHANGED <<env, header, at, context, task, copy, acted>>

-----------------------------------------------------------------------------
(* Requests and tools *)

(* The tenant of a presented token; Unset is answered with 401. *)
Resolve(token) ==
  IF resolver = Unset THEN DefaultUser
  ELSE IF token \in DOMAIN resolver THEN resolver[token] ELSE Unset

(* set_tenant and reset_tenant act on the context of the running task.     *)
SetOneForAll(r, tenant) == [s \in Requests |-> tenant]
SetTenant(r, tenant) == [context EXCEPT ![r] = tenant]

(* BearerGate up to the call of the app; no await suspends on the way.     *)
Gate(r, token) ==
  LET tenant == Resolve(token) IN
  /\ phase = "serving"
  /\ at[r] = "outside"
  /\ header' = [header EXCEPT ![r] = token]
  /\ IF tenant = Unset
     THEN at' = [at EXCEPT ![r] = "rejected"] /\ UNCHANGED context
     ELSE at' = [at EXCEPT ![r] = "inside"] /\ context' = SetTenant(r, tenant)
  /\ UNCHANGED <<env, phase, resolver, task, copy, acted>>

Spawn(r) ==
  /\ at[r] = "inside" /\ task[r] = "none"
  /\ task' = [task EXCEPT ![r] = "spawned"]
  /\ copy' = [copy EXCEPT ![r] = context[r]]
  /\ UNCHANGED <<env, phase, resolver, header, at, context, acted>>

(* get_tenant, read in the task of the tool: a variable without a value    *)
(* means the default user.                                                 *)
GetTenant(r) == IF copy[r] = Unset THEN DefaultUser ELSE copy[r]

RunTool(r) ==
  /\ task[r] = "spawned"
  /\ task' = [task EXCEPT ![r] = "running"]
  /\ acted' = [acted EXCEPT ![r] = GetTenant(r)]
  /\ UNCHANGED <<env, phase, resolver, header, at, context, copy>>

(* The tool returns or raises; on a closed backend it does the latter.     *)
EndTool(r) ==
  /\ task[r] = "running"
  /\ task' = [task EXCEPT ![r] = "done"]
  /\ UNCHANGED <<env, phase, resolver, header, at, context, copy, acted>>

(* The request leaves the gate: reset_tenant.                              *)
Leave(r) ==
  /\ at' = [at EXCEPT ![r] = "left"]
  /\ context' = [context EXCEPT ![r] = Unset]
  /\ UNCHANGED <<env, phase, resolver, header, task, copy, acted>>

AnswerTools(r) ==
  /\ at[r] = "inside" /\ task[r] = "done"
  /\ Leave(r)

(* Answered: a tool call when it is done, other requests at once.          *)
Answer(r) ==
  /\ at[r] = "inside" /\ task[r] \in {"none", "done"}
  /\ Leave(r)

HangUp(r) ==
  /\ at[r] = "inside" /\ task[r] \in {"spawned", "running"}
  /\ Leave(r)

-----------------------------------------------------------------------------
(* Shutdown *)

Stop ==
  /\ phase = "serving"
  /\ phase' = "stopping"
  /\ UNCHANGED <<env, resolver, header, at, context, task, copy, acted>>

(* The lifespan ends and backend.close runs, before the session manager    *)
(* cancels the tools that are left.                                        *)
Close ==
  /\ phase = "stopping"
  /\ \A r \in Requests : at[r] # "inside"
  /\ phase' = "closed"
  /\ UNCHANGED <<env, resolver, header, at, context, task, copy, acted>>

Cancel ==
  /\ phase = "closed"
  /\ phase' = "stopped"
  /\ task' = [r \in Requests |->
                IF task[r] \in {"spawned", "running"} THEN "cancelled" ELSE task[r]]
  /\ UNCHANGED <<env, resolver, header, at, context, copy, acted>>

Quiet ==
  /\ phase \in {"refused", "stopped"}
  /\ UNCHANGED vars

Next ==
  \/ Start \/ Stop \/ Close \/ Cancel \/ Quiet
  \/ \E r \in Requests :
       \/ \E token \in Tokens \cup {Blank} : Gate(r, token)
       \/ Spawn(r) \/ RunTool(r) \/ EndTool(r) \/ Answer(r) \/ HangUp(r)

Spec == Init /\ [][Next]_vars

(* The event loop runs what is ready; a tool ends by the timeouts of the   *)
(* HTTP client (Mem0Backend!EveryCallReturns).  No client must hang up and *)
(* nobody must stop the server.                                            *)
Fairness ==
  /\ \A r \in Requests : WF_vars(RunTool(r)) /\ WF_vars(EndTool(r)) /\ WF_vars(Answer(r))
  /\ WF_vars(Close) /\ WF_vars(Cancel)
FairSpec == Spec /\ Fairness

-----------------------------------------------------------------------------
(* Properties *)

(* Whatever requests run at the same time, hang up or are reset in between, *)
(* a tool acts for the user the token of its own request is mapped to, by  *)
(* the last pair of that token; for the default user only when there is no *)
(* token setting (auth.py:29, 112-140).                                    *)
Grants(k, token) ==
  /\ env.tokens[k].token = token
  /\ \A l \in DOMAIN env.tokens : l > k => env.tokens[l].token # token

ToolsRunAsTokenOwner ==
  \A r \in Requests : acted[r] # Unset =>
    \/ env.tokens = <<>> /\ acted[r] = DefaultUser
    \/ \E k \in DOMAIN env.tokens :
         Grants(k, header[r]) /\ env.tokens[k].user = acted[r]

(* A token setting that is not empty never leaves the server open: if it   *)
(* names no user or has a malformed part the server does not start, and    *)
(* nothing passes the gate without a token of the setting (auth.py:69-87,  *)
(* config.py:24-27, server.py:65-67).                                      *)
FailClosed ==
  env.tokens # <<>> =>
    \A r \in Requests : at[r] \in {"inside", "left"} =>
      /\ \E k \in DOMAIN env.tokens : env.tokens[k].token = header[r]
      /\ header[r] # Blank
      /\ \A k \in DOMAIN env.tokens :
           IF env.tokens[k].colon
           THEN env.tokens[k].token # Blank /\ env.tokens[k].user # Blank
           ELSE env.tokens[k].token = Blank

(* A server told to stop stops, with requests of every kind in flight.     *)
ShutdownEnds == phase = "stopping" ~> phase = "stopped"
=============================================================================
