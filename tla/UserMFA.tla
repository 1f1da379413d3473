------------------------------- MODULE UserMFA -------------------------------
(***************************************************************************)
(* The second factor of one user (services/user/internal/server/server.go  *)
(* Login, MFASetup, MFAConfirm, MFAChallenge; services/database/mfa.go;    *)
(* internal/totp).  Core repeats a call that was not answered in time,     *)
(* while the first may still be under way (RpcClients), so an attempt may  *)
(* be a repetition of another.  A code is the number of its time step; a   *)
(* secret goes by the attempt that made it.                                *)
(***************************************************************************)
EXTENDS Naturals, Integers, FiniteSets

CONSTANTS
  Attempts,      \* calls of the service, which bound them
  Challenges,    \* challenge ids
  Step,          \* a time step of TOTP, in ticks
  Drift,         \* steps a code may be early or late
  ReplayTTL,     \* mfaReplayTTL, in ticks
  MaxTime,       \* bound: of the clock
  MaxFailures    \* bound: calls of Redis that fail, answers that are lost

\* A code cannot be verified any more once the step it used is forgotten, even
\* by a call that takes a tick between the two.
MFAAssumption ==
  /\ Step \in Nat \ {0} /\ Drift \in Nat /\ MaxTime \in Nat /\ MaxFailures \in Nat
  /\ ReplayTTL \in Nat /\ ReplayTTL > (2 * Drift + 1) * Step

VARIABLES
  now,
  secret,       \* users.mfa_secret: the attempt that made it
  enabled,      \* users.mfa_enabled
  shown,        \* the secret the user's authenticator has
  asking,       \* the setup the user awaits the answer of
  attempts,
  challenges,   \* Redis: each challenge is "new", "open" or "gone"
  lastUsed,     \* Redis: the step accepted last, and when it is forgotten
  failures,
  proved,       \* history: secrets a code of which was verified
  sessions,     \* history: the challenge and step each attempt opened one with
  crowded       \* history: challenges two attempts were at

user == <<secret, enabled>>
client == <<shown, asking>>
redis == <<challenges, lastUsed>>
vars == <<now, user, client, attempts, redis, failures, proved, sessions, crowded>>

None == "none"
Old == "old"    \* the secret of a user who has the second factor
Fresh == [step |-> "fresh", since |-> 0, secret |-> None, challenge |-> None, code |-> 0]
At(a, step) == attempts[a].step = step
Goto(a, step) == attempts' = [attempts EXCEPT ![a].step = step]
End(a) == attempts' = [attempts EXCEPT ![a] = [Fresh EXCEPT !.step = "done"]]
Fails == failures < MaxFailures /\ failures' = failures + 1

Init ==
  /\ now = 0 /\ enabled \in BOOLEAN
  /\ secret = IF enabled THEN Old ELSE None
  /\ shown = secret /\ asking = None /\ attempts = [a \in Attempts |-> Fresh]
  /\ challenges = [c \in Challenges |-> "new"] /\ lastUsed = [step |-> -1, until |-> 0] /\ failures = 0
  /\ proved = IF enabled THEN {Old} ELSE {}
  /\ sessions = [a \in Attempts |-> None] /\ crowded = {}

\* No attempt takes more than a tick between two of its calls.
Tick ==
  /\ now < MaxTime /\ now' = now + 1
  /\ \A a \in Attempts: attempts[a].step \in {"accept", "delete"} => attempts[a].since = now
  /\ UNCHANGED <<user, client, attempts, redis, failures, proved, sessions, crowded>>

Begin(a, step, s, c, k) ==
  attempts' = [attempts EXCEPT ![a] = [step |-> step, since |-> now, secret |-> s, challenge |-> c, code |-> k]]

-----------------------------------------------------------------------------
(* MFASetup *)

\* The user asks, or core does again; an earlier answer is not awaited any more.
BeginSetup(a) ==
  /\ At(a, "fresh") /\ Begin(a, "write", a, None, 0) /\ asking' = a
  /\ UNCHANGED <<now, user, shown, redis, failures, proved, sessions, crowded>>

\* SetUserMFASecret: no row when the second factor is on.
SetUserMFASecret(a) ==
  /\ At(a, "write")
  /\ IF enabled THEN End(a) /\ UNCHANGED secret ELSE secret' = a /\ Goto(a, "answer")
  /\ UNCHANGED <<now, enabled, client, redis, failures, proved, sessions, crowded>>

AnswerSetup(a) ==
  /\ At(a, "answer") /\ End(a)
  /\ \/ shown' = (IF asking = a THEN a ELSE shown) /\ UNCHANGED failures
     \/ Fails /\ UNCHANGED shown
  /\ UNCHANGED <<now, user, asking, redis, proved, sessions, crowded>>

-----------------------------------------------------------------------------
(* MFAConfirm, with a code of the secret the user was shown. *)

LoadAndVerify(a) ==
  /\ At(a, "fresh") /\ shown # None /\ ~enabled
  /\ IF secret = shown
     THEN Begin(a, "enable", secret, None, 0) /\ proved' = proved \cup {secret}
     ELSE Begin(a, "done", None, None, 0) /\ UNCHANGED proved
  /\ UNCHANGED <<now, user, client, redis, failures, sessions, crowded>>

\* EnableUserMFA: only while the secret is the one that was verified.
EnableUserMFA(a) ==
  /\ At(a, "enable") /\ End(a)
  /\ enabled' = (enabled \/ secret = attempts[a].secret)
  /\ UNCHANGED <<now, secret, client, redis, failures, proved, sessions, crowded>>

-----------------------------------------------------------------------------
(* Login and MFAChallenge *)

\* With the right password; without the second factor there is no challenge.
Login(c) ==
  /\ enabled /\ challenges[c] = "new"
  /\ challenges' = [challenges EXCEPT ![c] = "open"]
  /\ UNCHANGED <<now, user, client, attempts, lastUsed, failures, proved, sessions, crowded>>

\* After two minutes, or sooner.
Expire(c) ==
  /\ challenges[c] = "open" /\ challenges' = [challenges EXCEPT ![c] = "gone"]
  /\ UNCHANGED <<now, user, client, attempts, lastUsed, failures, proved, sessions, crowded>>

Current == now \div Step

\* The challenge is read and the code verified, against the step and its
\* neighbours; a wrong code ends the call.
Verify(a, c) ==
  /\ At(a, "fresh") /\ challenges[c] = "open" /\ enabled /\ shown = secret
  /\ \E k \in (Current - Drift)..(Current + Drift): k >= 0 /\ Begin(a, "accept", None, c, k)
  /\ crowded' = IF \E b \in Attempts: (At(b, "accept") \/ At(b, "delete")) /\ attempts[b].challenge = c
                THEN crowded \cup {c} ELSE crowded
  /\ UNCHANGED <<now, user, client, redis, failures, proved, sessions>>

\* acceptTOTPStepScript, in one piece.
Accept(a) ==
  /\ At(a, "accept")
  /\ LET k == attempts[a].code
     IN  \/ /\ lastUsed.until > now /\ k <= lastUsed.step
            /\ End(a) /\ UNCHANGED <<lastUsed, failures>>
         \/ /\ ~(lastUsed.until > now /\ k <= lastUsed.step)
            /\ lastUsed' = [step |-> k, until |-> now + ReplayTTL]
            /\ attempts' = [attempts EXCEPT ![a].step = "delete", ![a].since = now] /\ UNCHANGED failures
         \/ Fails /\ End(a) /\ UNCHANGED lastUsed
  /\ UNCHANGED <<now, user, client, challenges, proved, sessions, crowded>>

\* A failing DEL fails the call: the code is used and opened nothing.
Delete(a) ==
  /\ At(a, "delete") /\ End(a)
  /\ \/ /\ challenges' = [challenges EXCEPT ![attempts[a].challenge] = "gone"] /\ UNCHANGED failures
        /\ sessions' = [sessions EXCEPT ![a] = <<attempts[a].challenge, attempts[a].code>>]
     \/ Fails /\ UNCHANGED <<challenges, sessions>>
  /\ UNCHANGED <<now, user, client, lastUsed, proved, crowded>>

Next ==
  \/ Tick
  \/ \E a \in Attempts:
       \/ BeginSetup(a) \/ SetUserMFASecret(a) \/ AnswerSetup(a)
       \/ LoadAndVerify(a) \/ EnableUserMFA(a)
       \/ Accept(a) \/ Delete(a)
       \/ \E c \in Challenges: Verify(a, c)
  \/ \E c \in Challenges: Login(c) \/ Expire(c)

Spec == Init /\ [][Next]_vars

-----------------------------------------------------------------------------
(* Properties *)

TypeOK ==
  /\ now \in 0..MaxTime /\ secret \in Attempts \cup {None, Old} /\ enabled \in BOOLEAN
  /\ shown \in Attempts \cup {None, Old} /\ proved \subseteq Attempts \cup {Old}
  /\ challenges \in [Challenges -> {"new", "open", "gone"}] /\ failures \in 0..MaxFailures /\ crowded \subseteq Challenges

\* The second factor is on only with the secret the user has and gave a code
\* of, whatever setup is repeated or late (mfa.go).
EnabledAgrees == enabled => secret \in proved

\* A code opens one session, at any time and with any challenge; a challenge
\* opens one, unless two calls with it were under way at once.
SessionsAgree ==
  \A a, b \in Attempts: a # b /\ sessions[a] # None /\ sessions[b] # None =>
    /\ sessions[a][2] # sessions[b][2]
    /\ sessions[a][1] # sessions[b][1] \/ sessions[a][1] \in crowded

MFAAgrees == EnabledAgrees /\ SessionsAgree
=============================================================================
