------------------------------ MODULE AIGateway ------------------------------
(* The listener of the AI clients: the limits on failed and on authenticated  *)
(* requests, and the audit log, which reports repeated refusals as a count.   *)
(*                                                                            *)
(* A request reads the clock again and again; between two readings others run.*)
(* What an admitted request does is in AITransactions.                        *)
EXTENDS FiniteSetsExt, Integers

CONSTANTS
  Procs, Addresses, Credentials,
  FailedLimit, RequestLimit,    \* requests per window
  MaxWindows,       \* the limiter's windows
  MaxDetailed,      \* aiFailedAuthAuditMaxDetailedWindow
  Window,           \* the length of both kinds of window, a minute
  MaxTime, MaxArrivals      \* bounds of the model

VARIABLES
  now,
  windows,      \* the limiter: key -> started, count
  details,      \* the aggregator: key -> started, suppressed
  overflow,     \* its windows without an address, by reason
  lastSweep,    \* -1 before the first
  req,          \* the request of each goroutine
  arrivals,
  reported,     \* history: refusals in the log, by records and by their counts
  refused       \* history: refusals that reached the aggregator

vars == <<now, windows, details, overflow, lastSweep, req, arrivals, reported, refused>>

NoCredential == "none"
Reasons == {"authentication_failed", "authentication_rate_limited", "scope_forbidden"}
Idle == [pc |-> "idle", address |-> NoCredential, credential |-> NoCredential, reason |-> "", at |-> 0]
Closed == [started |-> -1, suppressed |-> 0]

TypeOK ==
  /\ now \in 0..MaxTime /\ lastSweep \in -1..MaxTime /\ arrivals \in 0..MaxArrivals
  /\ Cardinality(DOMAIN windows) <= MaxWindows
  /\ Cardinality(DOMAIN details) <= MaxDetailed
  /\ overflow \in [Reasons -> [started : -1..MaxTime, suppressed : Nat]]
  /\ req \in [Procs -> [pc : {"idle", "blocked", "token", "failed", "limit", "audit", "record"},
                        address : Addresses \cup {NoCredential},
                        credential : Credentials \cup {NoCredential},
                        reason : Reasons \cup {"", "audited"}, at : 0..MaxTime]]

Init ==
  /\ now = 0 /\ arrivals = 0 /\ reported = 0 /\ refused = 0
  /\ windows = [k \in {} |-> 0] /\ details = [k \in {} |-> Closed]
  /\ overflow = [r \in Reasons |-> Closed] /\ lastSweep = -1
  /\ req = [p \in Procs |-> Idle]

Goto(p, pc) == req' = [req EXCEPT ![p].pc = pc]
Refuse(p, reason) == req' = [req EXCEPT ![p].pc = "audit", ![p].reason = reason]
auditVars == <<details, overflow, lastSweep, reported, refused>>

----------------------------------------------------------------------------
(* aiCredentialRateLimiter: a fixed window per key, in a bounded map.         *)

Expired(w, t) == t - w.started >= Window
Without(f, gone) == [k \in DOMAIN f \ gone |-> f[k]]
With(f, key, value) == [k \in DOMAIN f \cup {key} |-> IF k = key THEN value ELSE f[k]]

\* The map after room was made for key: only when it is full.
Swept(key, t) ==
  IF key \notin DOMAIN windows /\ Cardinality(DOMAIN windows) >= MaxWindows
  THEN Without(windows, {k \in DOMAIN windows : Expired(windows[k], t)}) ELSE windows

\* allow answers whether the request may go on, and counts it if so.
allow(key, limit, t, answer) ==
  LET swept == Swept(key, t)
      full == key \notin DOMAIN swept /\ Cardinality(DOMAIN swept) >= MaxWindows
      fresh == key \notin DOMAIN swept \/ Expired(swept[key], t)
      counted == ~full /\ (fresh \/ swept[key].count < limit)
  IN
  /\ answer = counted
  /\ windows' = IF ~counted THEN swept
                ELSE IF fresh THEN With(swept, key, [started |-> t, count |-> 1])
                ELSE [swept EXCEPT ![key].count = @ + 1]

FailedKey(a) == <<"authentication-failed", a>>

\* blocked forgets a window that has ended.
blocked(key, limit, t, answer) ==
  IF key \in DOMAIN windows /\ Expired(windows[key], t)
  THEN answer = FALSE /\ windows' = Without(windows, {key})
  ELSE answer = (key \in DOMAIN windows /\ windows[key].count >= limit) /\ UNCHANGED windows

----------------------------------------------------------------------------
(* The middleware, one step per reading of the clock.                         *)

Arrive(p, a) ==
  /\ req[p].pc = "idle" /\ arrivals < MaxArrivals /\ arrivals' = arrivals + 1
  /\ req' = [req EXCEPT ![p] = [Idle EXCEPT !.pc = "blocked", !.address = a]]
  /\ UNCHANGED <<now, windows, auditVars>>

CheckBlocked(p) ==
  /\ req[p].pc = "blocked"
  /\ \E b \in BOOLEAN :
       /\ blocked(FailedKey(req[p].address), FailedLimit, now, b)
       /\ IF b THEN Refuse(p, "authentication_rate_limited") ELSE Goto(p, "token")
  /\ UNCHANGED <<now, arrivals, auditVars>>

\* Store.Authenticate: no credential of the snapshot matches, or it is not valid
\* at this time; or the credential is found, and the method, the path and the
\* scope are looked at.
Authenticate(p) ==
  /\ req[p].pc = "token"
  /\ \/ Goto(p, "failed")
     \/ \E c \in Credentials :
          req' = [req EXCEPT ![p].credential = c, ![p].pc = "limit"]
     \/ \E c \in Credentials :
          req' = [req EXCEPT ![p].credential = c, ![p].pc = "audit", ![p].reason = "scope_forbidden"]
  /\ UNCHANGED <<now, windows, arrivals, auditVars>>

CountFailure(p) ==
  /\ req[p].pc = "failed"
  /\ \E ok \in BOOLEAN :
       /\ allow(FailedKey(req[p].address), FailedLimit, now, ok)
       /\ Refuse(p, IF ok THEN "authentication_failed" ELSE "authentication_rate_limited")
  /\ UNCHANGED <<now, arrivals, auditVars>>

\* The request is served or, at its limit, refused; either is logged as it is.
CountRequest(p) ==
  /\ req[p].pc = "limit"
  /\ \E ok \in BOOLEAN : allow(<<req[p].credential, req[p].address>>, RequestLimit, now, ok)
  /\ req' = [req EXCEPT ![p].pc = "audit", ![p].reason = "audited"]
  /\ UNCHANGED <<now, arrivals, auditVars>>

\* audit takes the time before the aggregator's mutex.
Complete(p) ==
  /\ req[p].pc = "audit" /\ req' = [req EXCEPT ![p].pc = "record", ![p].at = now]
  /\ UNCHANGED <<now, windows, arrivals, auditVars>>

----------------------------------------------------------------------------
(* aiFailedAuthAuditAggregator.record.                                        *)

Over(w, t) == w.started # -1 /\ t - w.started >= Window

\* The mutant forgets a window without its summary.
Forgotten(w) == 0
\* The refusals that a window's summary reports.
Summary(w) == w.suppressed

\* The refusals reported by closing the windows of f among keys.
Summaries(f, keys) == MapThenSumSet(LAMBDA k : Summary(f[k]), keys)

\* sweepExpiredLocked, at most once in a window's time.
Due(t) == lastSweep = -1 \/ t - lastSweep >= Window
SweptDetails(t) == {k \in DOMAIN details : Due(t) /\ Over(details[k], t)}
SweptOverflow(t) == {r \in Reasons : Due(t) /\ Over(overflow[r], t)}

Suppress(w) == [w EXCEPT !.suppressed = @ + 1]
Opened(t) == [started |-> t, suppressed |-> 0]

\* A refusal of an open window is counted there; else it is logged and opens one,
\* or, when the detailed windows are full, counts by its reason alone.
record(p) ==
  LET t == req[p].at
      key == <<req[p].credential, req[p].address, req[p].reason>>
      reason == req[p].reason
      kept == Without(details, SweptDetails(t))
      left == [r \in Reasons |-> IF r \in SweptOverflow(t) THEN Closed ELSE overflow[r]]
      open == Without(kept, {k \in {key} \cap DOMAIN kept : Over(kept[k], t)})
      before == Summaries(details, DOMAIN details \ DOMAIN open)
                + Summaries(overflow, SweptOverflow(t))
  IN
  /\ req[p].pc = "record" /\ reason # "audited"
  /\ lastSweep' = IF Due(t) THEN t ELSE lastSweep
  /\ refused' = refused + 1
  /\ \/ /\ key \in DOMAIN open
        /\ details' = [open EXCEPT ![key] = Suppress(@)]
        /\ overflow' = left /\ reported' = reported + before
     \/ /\ key \notin DOMAIN open /\ Cardinality(DOMAIN open) < MaxDetailed
        /\ details' = With(open, key, Opened(t))
        /\ overflow' = left /\ reported' = reported + before + 1
     \/ /\ key \notin DOMAIN open /\ Cardinality(DOMAIN open) >= MaxDetailed
        /\ details' = open
        /\ IF left[reason].started # -1 /\ ~Over(left[reason], t)
           THEN /\ overflow' = [left EXCEPT ![reason] = Suppress(@)]
                /\ reported' = reported + before
           ELSE /\ overflow' = [left EXCEPT ![reason] = Opened(t)]
                /\ reported' = reported + before + Summary(left[reason]) + 1
  /\ req' = [req EXCEPT ![p] = Idle]
  /\ UNCHANGED <<now, windows, arrivals>>

\* Any other record passes through.
PassThrough(p) ==
  /\ req[p].pc = "record" /\ req[p].reason = "audited" /\ req' = [req EXCEPT ![p] = Idle]
  /\ UNCHANGED <<now, windows, arrivals, auditVars>>

Tick == now < MaxTime /\ now' = now + 1 /\ UNCHANGED <<windows, req, arrivals, auditVars>>

Next ==
  \/ Tick
  \/ \E p \in Procs :
       \/ \E a \in Addresses : Arrive(p, a)
       \/ CheckBlocked(p) \/ Authenticate(p) \/ CountFailure(p) \/ CountRequest(p)
       \/ Complete(p) \/ record(p) \/ PassThrough(p)

Spec == Init /\ [][Next]_vars

----------------------------------------------------------------------------
\* No refusal is lost to the audit: each was logged, or is part of a count that
\* was logged or still will be when its window is closed, also at the limit of
\* the detailed windows and when records arrive out of order
\* (aiFailedAuthAuditAggregator.record, sweepExpiredLocked).
AuditAccounts ==
  refused = reported + MapThenSumSet(LAMBDA k : details[k].suppressed, DOMAIN details)
                     + MapThenSumSet(LAMBDA r : overflow[r].suppressed, Reasons)
==============================================================================
