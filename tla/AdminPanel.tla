----------------------------- MODULE AdminPanel -----------------------------
(***************************************************************************)
(* Two things the admin panel keeps: the count of login attempts of one    *)
(* address (server/src/admin/auth.ts) and the API key (admin/routes.ts),   *)
(* which is in the .env file and in the MCP server: it admits clients.  A  *)
(* handler without an await is one step, in which the process may end.     *)
(***************************************************************************)
EXTENDS Integers

CONSTANTS
    MaxAttempts, Window,    \* MAX_ATTEMPTS, WINDOW_MS
    Keys, NoKey,            \* API keys; none
    MaxTime                 \* bound: the clock

ASSUME LimitAssumption ==
    MaxAttempts \in Nat \ {0} /\ Window \in Nat \ {0} /\ MaxTime \in Nat

VARIABLES
    now,       \* Date.now()
    record,    \* loginAttempts of the address: its count, 0 if none, and reset
    passed,    \* history variable: attempts let through since start up to each time
    apiKey,    \* the MCP server's key
    env,       \* the key that a start takes from .env
    form       \* how .env mentions MCP_API_KEY=

limitVars == <<now, record, passed>>
keyVars == <<apiKey, env, form>>

\* Not at all; as a line that begins with it, the only one; or otherwise: commented
\* out, indented, after export, or on two lines.
Forms == {"none", "line", "other"}

NoRecord == [count |-> 0, resetAt |-> 0]

AdminTypeOK ==
    /\ now \in 0 .. MaxTime
    /\ record \in [count : Nat, resetAt : 0 .. MaxTime + Window]
    /\ passed \in [0 .. MaxTime -> Nat]
    /\ apiKey \in Keys \cup {NoKey} /\ env \in Keys \cup {NoKey}
    /\ form \in Forms

AdminInit ==
    /\ now = 0 /\ record = NoRecord /\ passed = [t \in 0 .. MaxTime |-> 0]
    /\ env \in Keys \cup {NoKey} /\ apiKey = env
    /\ form \in Forms /\ (form = "none" => env = NoKey)

-----------------------------------------------------------------------------

Passes == passed' = [t \in 0 .. MaxTime |-> IF t < now THEN passed[t] ELSE passed[t] + 1]

\* A plausible bug: one attempt too many.
checkRateLimitLate ==
    /\ IF record.count = 0 \/ now > record.resetAt
       THEN record' = [count |-> 1, resetAt |-> now + Window] /\ Passes
       ELSE /\ record.count <= MaxAttempts
            /\ record' = [record EXCEPT !.count = @ + 1] /\ Passes
    /\ UNCHANGED now

\* Before the password is looked at, so attempts side by side all count.
checkRateLimit ==
    /\ IF record.count = 0 \/ now > record.resetAt
       THEN record' = [count |-> 1, resetAt |-> now + Window] /\ Passes
       ELSE /\ record.count < MaxAttempts
            /\ record' = [record EXCEPT !.count = @ + 1] /\ Passes
    /\ UNCHANGED now

TimePasses == now < MaxTime /\ now' = now + 1 /\ UNCHANGED <<record, passed>>

\* The file is written with a new key: in place of the first line that begins with
\* MCP_API_KEY=, or at the end if the name does not occur.  If it occurs otherwise,
\* no line is replaced, or not the one a start takes its key from.
Writes(k) ==
    /\ env' = (IF form = "other" THEN env ELSE k)
    /\ form' = (IF form = "none" THEN "line" ELSE form)

\* The write breaks off, and the file is empty.
BreaksOff == env' = NoKey /\ form' = "none"

\* .env cannot be read: nothing.  It is written and the server takes the key, with
\* no look at what .env says now; or the write breaks off, and the server keeps
\* its key.
regenerateKey ==
    \/ \E k \in Keys \ {apiKey} : Writes(k) /\ apiKey' = k
    \/ BreaksOff /\ UNCHANGED apiKey

AdminNext ==
    \/ (checkRateLimit \/ TimePasses) /\ UNCHANGED keyVars
    \/ regenerateKey /\ UNCHANGED limitVars

\* The attempts are forgotten and the key is taken from .env; the process may have
\* ended in the middle of a write, or after it and before the server took the key.
AdminRestarts ==
    /\ record' = NoRecord /\ passed' = [t \in 0 .. MaxTime |-> 0]
    /\ UNCHANGED <<env, form>> \/ BreaksOff \/ \E k \in Keys : Writes(k)
    /\ apiKey' = env'
    /\ UNCHANGED now

-----------------------------------------------------------------------------

\* Attempts let through before a time.
Before(t) == IF t = 0 THEN 0 ELSE passed[t - 1]

\* How far the limit on logins reaches: windows begin with an attempt and do not
\* slide, so that across the end of one the attempts of two come together, all but
\* the one that began the first.  No stretch of a window's length sees more of them
\* since the start, whenever they come: nine in a minute, where README.md:38 says
\* five (FiveAMinute).
AttemptsBounded ==
    \A t, u \in 0 .. MaxTime :
        u < t + Window => passed[u] - Before(t) <= 2 * MaxAttempts - 1

\* README.md:38: "rate-limited login (5 attempts/min)".  In no minute are more than
\* MAX_ATTEMPTS let through.
FiveAMinute ==
    \A t, u \in 0 .. MaxTime :
        u < t + Window => passed[u] - Before(t) <= MaxAttempts

=============================================================================
