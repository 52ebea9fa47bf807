------------------------------- MODULE BreakGlass -------------------------------
(***************************************************************************)
(* Break-glass grants (internal/domain/break_glass.go, the service in      *)
(* internal/application and its PostgreSQL store).                         *)
(*                                                                         *)
(* A grant consumes one approval when it is issued.  Uses, revocation and  *)
(* expiry append events.  Each of them is one SQL statement: it takes its  *)
(* snapshot, evaluates its predicate on it, locks the grant row and inserts *)
(* the event.  The lock is a wait for another transaction that did not     *)
(* change the row, so the predicate is not evaluated again after it:       *)
(* statements holds the events between the snapshot and the insert.        *)
(***************************************************************************)
EXTENDS GovernanceApproval

CONSTANTS
    Scope,            \* BreakGlassScope
    MaxValidity,      \* fifteen minutes
    MaxEvents         \* bound: events of one grant, in flight ones included

VARIABLES
    grants,           \* break_glass_grants with their events
    statements        \* event statements past their snapshot; of them and of the
                      \* events, seen (history) counts the events in the snapshot

breakGlassVars == <<grants, statements>>

\* The approval action a scope needs (the CASE of ActivateBreakGlass).
ScopeAction(scope) ==
    IF scope = "POLICY_RECOVERY" THEN "POLICY_BYPASS" ELSE "GLOBAL_REVOCATION_CHANGE"

BreakGlassGrantDigest(p, scope, expires) == <<"grant", p, scope, expires>>

Terminal == {"EXPIRED", "REVOKED"}

HasTerminal(g) == \E i \in DOMAIN grants[g].events : grants[g].events[i].change \in Terminal

BreakGlassInit == grants = <<>> /\ statements = {}

\* BreakGlassService.Activate and ActivateBreakGlass: the consumption, the grant
\* and its ACTIVATED event are one statement, with now read before it.
ActivateBreakGlass(p, i, scope, expires, now) ==
    /\ now <= clock
    /\ now < expires /\ expires <= now + MaxValidity
    /\ approvals[i].requester = p
    /\ approvals[i].action = ScopeAction(scope)
    /\ ConsumeApproval(i, BreakGlassGrantDigest(p, scope, expires), now)
    /\ grants' = Append(grants, [principal |-> p, scope |-> scope, approval |-> i,
                                 issued |-> now, expires |-> expires, events |-> <<>>])
    /\ UNCHANGED statements

\* What the statement of each event asks of its actor and its time.
EventInTime(g, change, actor, at) ==
    CASE change = "USED"    -> /\ actor = grants[g].principal
                               /\ grants[g].issued <= at /\ at < grants[g].expires
      [] change = "REVOKED" -> actor = grants[g].principal
      [] change = "EXPIRED" -> actor = Nobody /\ grants[g].expires <= at

\* The predicate of each event statement, on the statement's snapshot.
EventAllowed(g, change, actor, at) ==
    ~ HasTerminal(g) /\ EventInTime(g, change, actor, at)

\* Use, Revoke and Expire up to the snapshot of appendBreakGlassEvent; they read
\* the clock before they read the grant and begin the transaction.
BeginBreakGlassEvent(g, change, actor, at) ==
    LET s == [grant |-> g, change |-> change, at |-> at, seen |-> Len(grants[g].events)] IN
    /\ at <= clock
    /\ EventAllowed(g, change, actor, at)
    /\ s \notin statements
    /\ Len(grants[g].events) + Cardinality({t \in statements : t.grant = g}) < MaxEvents
    /\ statements' = statements \cup {s}
    /\ UNCHANGED <<grants, approvals>>

\* The insert of appendBreakGlassEvent.  break_glass_one_terminal_event_idx
\* refuses a second terminal event and the transaction rolls back.
AppendBreakGlassEvent(s) ==
    /\ statements' = statements \ {s}
    /\ grants' = IF s.change \in Terminal /\ HasTerminal(s.grant)
                 THEN grants
                 ELSE [grants EXCEPT ![s.grant].events =
                          Append(@, [change |-> s.change, at |-> s.at, seen |-> s.seen])]
    /\ UNCHANGED approvals

BreakGlassNext ==
    \/ \E p \in Principal, scope \in Scope, expires \in 1 .. MaxTime + 1 :
          /\ RequestGovernanceApproval(p, ScopeAction(scope),
                                       BreakGlassGrantDigest(p, scope, expires))
          /\ UNCHANGED breakGlassVars
    \/ \E i \in DOMAIN approvals, p \in Principal, ok \in BOOLEAN, at \in 0 .. MaxTime :
          RecordDecision(i, p, ok, at) /\ UNCHANGED breakGlassVars
    \/ \E i \in DOMAIN approvals, at \in 0 .. MaxTime :
          Consume(i, at) /\ UNCHANGED breakGlassVars
    \/ \E i \in DOMAIN approvals, p \in Principal, scope \in Scope,
          expires \in 1 .. MaxTime + 1, now \in 0 .. MaxTime :
          ActivateBreakGlass(p, i, scope, expires, now)
    \/ \E g \in DOMAIN grants, change \in {"USED", "REVOKED", "EXPIRED"},
          actor \in Principal \cup {Nobody}, at \in 0 .. MaxTime :
          BeginBreakGlassEvent(g, change, actor, at)
    \/ \E s \in statements : AppendBreakGlassEvent(s)

-----------------------------------------------------------------------------
\* The end of a grant stops it although nothing evaluates the predicate again
\* under the lock: what is recorded after the end is a use, never a second end,
\* its statement had taken its snapshot before the end was recorded, and no use
\* is dated at or after the expiry that is on record.
EndedGrantOnlyDrains ==
    \A g \in DOMAIN grants : \A i, j \in DOMAIN grants[g].events :
        LET end == grants[g].events[i]
            event == grants[g].events[j]
        IN  /\ end.change \in Terminal /\ i < j => event.change = "USED" /\ event.seen < i
            /\ end.change = "EXPIRED" /\ event.change = "USED" => event.at < end.at

=============================================================================
