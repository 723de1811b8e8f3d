--------------------------- MODULE Server_proofs ---------------------------
(***************************************************************************)
(* Type correctness, tenancy and the gate of Server, for any number of     *)
(* requests, tokens and users and any token settings.                      *)
(***************************************************************************)
EXTENDS Server, WellFoundedInduction, TLAPS

(* A nonempty set of positions of a sequence has a greatest one.           *)
LEMMA LastPosition ==
  ASSUME NEW n \in Nat, NEW P \in SUBSET (1 .. n), P # {}
  PROVE  Max(P) \in P /\ \A k \in P : k <= Max(P)
<1> DEFINE Below == OpToRel(<, Nat)
           FromEnd == {n - k : k \in P}
<1>0. \A k \in P : k \in Nat /\ n - k \in Nat
  OBVIOUS
<1>1. FromEnd \subseteq Nat /\ FromEnd # {}
  BY <1>0
<1>2. IsWellFoundedOn(Below, Nat)
  BY NatLessThanWellFounded
<1>3. PICK d \in FromEnd : \A e \in FromEnd : ~ (<<e, d>> \in Below)
  <2> HIDE DEF FromEnd, Below
  <2> QED BY <1>1, <1>2, WFMin
<1>4. \A e \in FromEnd : d <= e
  <2> SUFFICES ASSUME NEW e \in FromEnd, e < d PROVE FALSE
    BY <1>1
  <2>1. e \in Nat /\ d \in Nat
    BY <1>1
  <2>2. Below = {ss \in Nat \X Nat : ss[1] < ss[2]}
    BY DEF OpToRel
  <2>3. <<e, d>> \in Below
    <3> HIDE DEF Below, FromEnd
    <3> QED BY <2>1, <2>2
  <2> QED BY <1>3, <2>3
<1>5. PICK k \in P : d = n - k
  OBVIOUS
<1>6. ASSUME NEW j \in P PROVE k >= j
  <2>1. n - j \in FromEnd
    OBVIOUS
  <2>2. n - k <= n - j
    BY <1>4, <1>5, <2>1
  <2>3. k \in 1 .. n /\ j \in 1 .. n
    OBVIOUS
  <2> HIDE DEF FromEnd, Below
  <2> QED BY <2>2, <2>3
<1>7. \E x \in P : \A j \in P : x >= j
  BY <1>6
<1>8. Max(P) \in P /\ \A j \in P : Max(P) >= j
  BY <1>7 DEF Max
<1> QED BY <1>8

-----------------------------------------------------------------------------
(* Types *)

LEMMA TableType ==
  ASSUME env \in Environments
  PROVE  /\ env.tokens \in Seq(Pairs)
         /\ Table \in [DOMAIN Table -> Users]
         /\ DOMAIN Table \subseteq Tokens
         /\ \A t \in DOMAIN Table :
              /\ Max(PairsOf(t)) \in PairsOf(t)
              /\ \A k \in PairsOf(t) : k <= Max(PairsOf(t))
<1>1. env.tokens \in Seq(Pairs)
  BY ServerAssumption DEF Environments
<1>2. DOMAIN Table = {u \in Tokens : PairsOf(u) # {}}
  BY DEF Table
<1>3. ASSUME NEW t \in DOMAIN Table
      PROVE  /\ Max(PairsOf(t)) \in PairsOf(t)
             /\ \A k \in PairsOf(t) : k <= Max(PairsOf(t))
  <2>1. PairsOf(t) \in SUBSET (1 .. Len(env.tokens)) /\ PairsOf(t) # {}
    BY <1>1, <1>2 DEF PairsOf
  <2>2. Len(env.tokens) \in Nat
    BY <1>1
  <2> QED BY <2>1, <2>2, LastPosition
<1>4. ASSUME NEW t \in DOMAIN Table PROVE Table[t] \in Users
  <2>1. Table[t] = env.tokens[Max(PairsOf(t))].user
    BY <1>2 DEF Table
  <2>2. Max(PairsOf(t)) \in DOMAIN env.tokens /\ WellFormed(env.tokens[Max(PairsOf(t))])
    BY <1>3 DEF PairsOf
  <2>3. env.tokens[Max(PairsOf(t))] \in Pairs
    BY <1>1, <2>2
  <2> QED BY <2>1, <2>2, <2>3 DEF WellFormed, Pairs
<1>5. Table \in [DOMAIN Table -> Users]
  BY <1>4 DEF Table
<1> QED BY <1>1, <1>2, <1>3, <1>5

LEMMA TypeKept == TypeOK /\ [Next]_vars => TypeOK'
<1> SUFFICES ASSUME TypeOK, [Next]_vars PROVE TypeOK'
  OBVIOUS
<1> USE DEF TypeOK
<1>1. CASE Start
  BY <1>1, TableType DEF Start
<1>2. CASE Stop \/ Close \/ Quiet
  BY <1>2 DEF Stop, Close, Quiet, vars
<1>3. CASE Cancel
  BY <1>3 DEF Cancel
<1>4. ASSUME NEW r \in Requests, NEW token \in Tokens \cup {Blank}, Gate(r, token)
      PROVE  TypeOK'
  BY <1>4 DEF Gate, Resolve, SetTenant, Tenants
<1>5. ASSUME NEW r \in Requests, Spawn(r) \/ RunTool(r) \/ EndTool(r)
      PROVE  TypeOK'
  BY <1>5 DEF Spawn, RunTool, EndTool, GetTenant, Tenants
<1>6. ASSUME NEW r \in Requests, Answer(r) \/ HangUp(r)
      PROVE  TypeOK'
  BY <1>6 DEF Answer, HangUp, Leave, Tenants
<1>7. CASE UNCHANGED vars
  BY <1>7 DEF vars
<1> QED BY <1>1, <1>2, <1>3, <1>4, <1>5, <1>6, <1>7 DEF Next

(* The process, its requests and its tool calls keep to their types.       *)
THEOREM TypeCorrect == Spec => []TypeOK
<1>1. Init => TypeOK
  BY DEF Init, TypeOK, Tenants
<1> QED BY <1>1, TypeKept, PTL DEF Spec

-----------------------------------------------------------------------------
(* Tenancy *)

(* That u is whom a request with this token may act for. *)
Right(token, u) ==
  /\ u # Unset
  /\ \/ env.tokens = <<>> /\ u = DefaultUser
     \/ \E k \in DOMAIN env.tokens : Grants(k, token) /\ env.tokens[k].user = u

(* The gate of a started server has the table of the setting.              *)
GateIsSet ==
  phase \notin {"down", "refused"} =>
    IF env.tokens = <<>> THEN resolver = Unset ELSE TableValid /\ resolver = Table

(* The tenant is right wherever it travels: in the request while it is     *)
(* inside, in the tool task, and in what the tool read.                    *)
TenantIsRight(r) ==
  /\ at[r] = "inside" => Right(header[r], context[r])
  /\ task[r] # "none" => at[r] \in {"inside", "left"} /\ Right(header[r], copy[r])
  /\ acted[r] # Unset => task[r] # "none" /\ Right(header[r], acted[r])

(* What passed the gate holds a token of the table.                        *)
Admitted(r) ==
  (env.tokens # <<>> /\ at[r] \in {"inside", "left"}) => TableValid /\ header[r] \in DOMAIN Table

IInv == TypeOK /\ GateIsSet /\ \A r \in Requests : TenantIsRight(r) /\ Admitted(r)

LEMMA TableGrants ==
  ASSUME env \in Environments, TableValid, NEW t \in DOMAIN Table
  PROVE  Right(t, Table[t])
<1> DEFINE last == Max(PairsOf(t))
<1>1. last \in PairsOf(t) /\ \A k \in PairsOf(t) : k <= last
  BY TableType
<1>2. Table[t] = env.tokens[last].user
  BY DEF Table
<1>3. ASSUME NEW l \in DOMAIN env.tokens, l > last, env.tokens[l].token = t PROVE FALSE
  <2>1. t # Blank
    BY TableType, ServerAssumption
  <2>2. WellFormed(env.tokens[l])
    BY <1>3, <2>1 DEF TableValid, PassedOver
  <2>3. l \in PairsOf(t)
    BY <1>3, <2>2 DEF PairsOf
  <2>4. last \in Int /\ l \in Int
    BY <1>1, TableType DEF PairsOf
  <2> HIDE DEF last
  <2> QED BY <1>1, <1>3, <2>3, <2>4
<1>4. Grants(last, t) /\ last \in DOMAIN env.tokens
  BY <1>1, <1>3 DEF Grants, PairsOf
<1>5. Table[t] # Unset
  BY TableType, ServerAssumption
<1> HIDE DEF last
<1> QED BY <1>2, <1>4, <1>5 DEF Right

(* No step changes the environment, nor what is computed from it.          *)
LEMMA EnvironmentStays ==
  ASSUME [Next]_vars
  PROVE  /\ env' = env
         /\ TableValid' <=> TableValid
         /\ Table' = Table
         /\ \A token, u : Right(token, u)' <=> Right(token, u)
<1>1. env' = env
  BY DEF Next, vars, Start, Stop, Close, Cancel, Quiet, Gate, Spawn, RunTool, EndTool,
     Answer, HangUp, Leave
<1>2. Table' = Table
  BY <1>1 DEF Table, PairsOf
<1>3. TableValid' <=> TableValid
  BY <1>1, <1>2 DEF TableValid
<1>4. \A token, u : Right(token, u)' <=> Right(token, u)
  BY <1>1 DEF Right, Grants
<1> QED BY <1>1, <1>2, <1>3, <1>4

LEMMA GateStaysSet == TypeOK /\ GateIsSet /\ [Next]_vars => GateIsSet'
<1> SUFFICES ASSUME TypeOK, GateIsSet, [Next]_vars PROVE GateIsSet'
  OBVIOUS
<1>1. env' = env /\ (TableValid' <=> TableValid) /\ Table' = Table
  BY EnvironmentStays
<1>2. CASE Start
  BY <1>1, <1>2 DEF Start, Open, GateIsSet
<1>3. CASE Stop \/ Close \/ Cancel \/ Quiet \/ UNCHANGED vars
  BY <1>1, <1>3 DEF Stop, Close, Cancel, Quiet, vars, GateIsSet
<1>4. ASSUME NEW r \in Requests,
             \/ \E token \in Tokens \cup {Blank} : Gate(r, token)
             \/ Spawn(r) \/ RunTool(r) \/ EndTool(r) \/ Answer(r) \/ HangUp(r)
      PROVE  GateIsSet'
  <2>1. UNCHANGED <<phase, resolver>>
    BY <1>4 DEF Gate, Spawn, RunTool, EndTool, Answer, HangUp, Leave
  <2> QED BY <1>1, <2>1 DEF GateIsSet
<1> QED BY <1>2, <1>3, <1>4 DEF Next

(* The gate of a server that serves lets the right tenant pass.            *)
LEMMA ResolveIsRight ==
  ASSUME TypeOK, GateIsSet, phase = "serving", NEW token, Resolve(token) # Unset
  PROVE  /\ Right(token, Resolve(token))
         /\ env.tokens # <<>> => TableValid /\ token \in DOMAIN Table
<1>1. CASE env.tokens = <<>>
  BY <1>1, ServerAssumption DEF GateIsSet, Resolve, Right
<1>2. CASE env.tokens # <<>>
  <2>1. TableValid /\ resolver = Table
    BY <1>2 DEF GateIsSet
  <2>2. Table # Unset
    BY TableType, ServerAssumption DEF TypeOK
  <2>3. token \in DOMAIN Table /\ Resolve(token) = Table[token]
    BY <2>1, <2>2 DEF Resolve
  <2> QED BY <2>1, <2>3, TableGrants DEF TypeOK
<1> QED BY <1>1, <1>2

LEMMA IInvKept == IInv /\ [Next]_vars => IInv'
<1> SUFFICES ASSUME IInv, [Next]_vars PROVE IInv'
  OBVIOUS
<1>1. TypeOK' /\ GateIsSet'
  BY TypeKept, GateStaysSet DEF IInv
<1>2. ASSUME NEW s \in Requests PROVE TenantIsRight(s)' /\ Admitted(s)'
  <2>1. /\ env' = env /\ (TableValid' <=> TableValid) /\ Table' = Table
        /\ \A token, u : Right(token, u)' <=> Right(token, u)
    BY EnvironmentStays
  <2>2. TypeOK /\ GateIsSet /\ TenantIsRight(s) /\ Admitted(s)
    BY DEF IInv
  <2>3. CASE UNCHANGED <<header, at, context, task, copy, acted>>
    BY <2>1, <2>2, <2>3 DEF TenantIsRight, Admitted, Right, Grants
  <2>4. CASE Start \/ Stop \/ Close \/ Quiet \/ UNCHANGED vars
    BY <2>3, <2>4 DEF Start, Stop, Close, Quiet, vars
  <2>5. CASE Cancel
    BY <2>1, <2>2, <2>5 DEF Cancel, TenantIsRight, Admitted, Right, Grants, TypeOK
  <2>6. ASSUME NEW r \in Requests, NEW token \in Tokens \cup {Blank}, Gate(r, token)
        PROVE  TenantIsRight(s)' /\ Admitted(s)'
    <3>1. CASE s # r
      <4>1. /\ header'[s] = header[s] /\ at'[s] = at[s] /\ context'[s] = context[s]
            /\ UNCHANGED <<task, copy, acted>>
        BY <2>2, <2>6, <3>1 DEF Gate, SetTenant, TypeOK
      <4> QED BY <2>1, <2>2, <4>1 DEF TenantIsRight, Admitted
    <3>2. CASE s = r /\ Resolve(token) = Unset
      <4>1. at'[s] = "rejected" /\ task'[s] = "none" /\ acted'[s] = Unset
        BY <2>2, <2>6, <3>2 DEF Gate, TypeOK, TenantIsRight
      <4> QED BY <4>1 DEF TenantIsRight, Admitted
    <3>3. CASE s = r /\ Resolve(token) # Unset
      <4>1. /\ at'[s] = "inside" /\ header'[s] = token /\ context'[s] = Resolve(token)
            /\ task'[s] = "none" /\ acted'[s] = Unset
        BY <2>2, <2>6, <3>3 DEF Gate, SetTenant, TypeOK, TenantIsRight
      <4>2. /\ Right(token, Resolve(token))
            /\ env.tokens # <<>> => TableValid /\ token \in DOMAIN Table
        BY <2>2, <2>6, <3>3, ResolveIsRight DEF Gate
      <4> QED BY <2>1, <4>1, <4>2 DEF TenantIsRight, Admitted
    <3> QED BY <3>1, <3>2, <3>3
  <2>7. ASSUME NEW r \in Requests,
               Spawn(r) \/ RunTool(r) \/ EndTool(r) \/ Answer(r) \/ HangUp(r)
        PROVE  TenantIsRight(s)' /\ Admitted(s)'
    BY <2>1, <2>2, <2>7 DEF Spawn, RunTool, EndTool, Answer, HangUp, Leave, GetTenant,
       TenantIsRight, Admitted, Right, Grants, TypeOK
  <2> QED BY <2>4, <2>5, <2>6, <2>7 DEF Next
<1> QED BY <1>1, <1>2 DEF IInv

LEMMA IInvHolds == Spec => []IInv
<1>1. Init => IInv
  <2>1. Init => TypeOK
    BY DEF Init, TypeOK, Tenants
  <2> QED BY <2>1 DEF Init, IInv, GateIsSet, TenantIsRight, Admitted
<1> QED BY <1>1, IInvKept, PTL DEF Spec

(* A tool acts for the user its own request's token stands for, however    *)
(* many requests run, hang up and are reset around it.                     *)
THEOREM Tenancy == Spec => []ToolsRunAsTokenOwner
<1>1. IInv => ToolsRunAsTokenOwner
  BY DEF IInv, TenantIsRight, Right, ToolsRunAsTokenOwner
<1> QED BY <1>1, IInvHolds, PTL

(* With a token setting nothing passes the gate without one of its tokens, *)
(* whatever the setting is.                                                *)
THEOREM GateFailsClosed == Spec => []FailClosed
<1>1. IInv => FailClosed
  <2> SUFFICES ASSUME IInv, env.tokens # <<>>, NEW r \in Requests, at[r] \in {"inside", "left"}
      PROVE  /\ \E k \in DOMAIN env.tokens : env.tokens[k].token = header[r]
             /\ header[r] # Blank
             /\ \A k \in DOMAIN env.tokens :
                  IF env.tokens[k].colon
                  THEN env.tokens[k].token # Blank /\ env.tokens[k].user # Blank
                  ELSE env.tokens[k].token = Blank
    BY DEF FailClosed
  <2>1. TableValid /\ header[r] \in DOMAIN Table /\ env \in Environments
    BY DEF IInv, Admitted, TypeOK
  <2>2. PairsOf(header[r]) # {} /\ header[r] \in Tokens
    BY <2>1 DEF Table
  <2>3. \E k \in DOMAIN env.tokens : env.tokens[k].token = header[r]
    BY <2>2 DEF PairsOf
  <2>4. header[r] # Blank
    BY <2>2, ServerAssumption
  <2>5. \A k \in DOMAIN env.tokens :
           IF env.tokens[k].colon
           THEN env.tokens[k].token # Blank /\ env.tokens[k].user # Blank
           ELSE env.tokens[k].token = Blank
    BY <2>1 DEF TableValid, PassedOver, WellFormed
  <2> QED BY <2>3, <2>4, <2>5
<1> QED BY <1>1, IInvHolds, PTL

=============================================================================
