------------------------------ MODULE Sessions ------------------------------
(***************************************************************************)
(* The sign-ins of one person: modules/auth/auth.service.ts (refresh,      *)
(* logout, resetPassword, changePassword, endBrowserSession) behind the    *)
(* shared renewals of refreshFlight.ts, in one API process.                *)
(*                                                                         *)
(* Every statement commits by itself, so each is a step of its own.  A     *)
(* browser has several tabs, which may renew at the same time; an answer   *)
(* may be lost.  An answer that arrives does so before the browser sends   *)
(* its next request, and a renewal takes less than the grace of 30 s.      *)
(* Not covered: expiry, deactivation, MFA, tokens without a jti.           *)
(***************************************************************************)
EXTENDS Naturals, FiniteSets

CONSTANTS
  Browsers,   \* browsers of the person
  Calls,      \* renewal requests that may be under way at once
  MaxTokens,  \* bound on rows of refresh_tokens
  MaxVersion  \* no handler ends every session from this version on

ASSUME MaxTokensAssumption == MaxTokens \in Nat

VARIABLES
  version,   \* users.token_version
  tokens,    \* refresh_tokens: the rows 1..issued
  issued,
  cookie,    \* cookie[b]: the refresh token browser b holds, or None
  call,      \* call[c]: a renewal request on the server
  ending,    \* a handler that ends every session of the person
  ended,     \* history: sign-ins ended by a handler that has returned
  alarm,     \* history: reuse was detected and the account signed out
  late,      \* history: a token was presented after its grace
  rewound    \* history: a stale write took the version back

vars == <<version, tokens, issued, cookie, call, ending, ended, alarm, late, rewound>>

None == 0
Ids == 1..MaxTokens
Grace == {"unused", "recent", "old"}

(* signIn is history: the row of the sign-in a token descends from.        *)
Token == [version : Nat, used : Grace, revoked : BOOLEAN, next : Ids \cup {None}, signIn : Ids]
Steps == {"limit", "user", "row", "claim", "reread", "revoke", "bump", "insert", "link", "answer"}
Call == [step : Steps \cup {"idle", "waiting"}, browser : Browsers,
         token : Ids \cup {None}, version : Nat, new : Ids \cup {None}]
Kinds == {"logout", "reset", "change"}
Ending == [step : {"idle", "write", "revoke", "insert"}, kind : Kinds, browser : Browsers,
           version : Nat, covers : SUBSET Ids]

TypeOK ==
  /\ version \in Nat
  /\ issued \in 0..MaxTokens
  /\ tokens \in [1..issued -> Token]
  /\ cookie \in [Browsers -> 0..issued]
  /\ call \in [Calls -> Call]
  /\ ending \in Ending
  /\ ended \subseteq Ids
  /\ alarm \in BOOLEAN /\ late \in BOOLEAN /\ rewound \in BOOLEAN

Quiet(b) == [step |-> "idle", kind |-> "reset", browser |-> b, version |-> 0, covers |-> {}]
Free(b) == [step |-> "idle", browser |-> b, token |-> None, version |-> 0, new |-> None]

Init ==
  /\ version = 0 /\ tokens = <<>> /\ issued = 0
  /\ cookie = [b \in Browsers |-> None]
  /\ call \in [Calls -> {Free(b) : b \in Browsers}]
  /\ ending \in {Quiet(b) : b \in Browsers} /\ ended = {}
  /\ alarm = FALSE /\ late = FALSE /\ rewound = FALSE

-----------------------------------------------------------------------------
(* issueTokens inserts a row; revokeAllRefreshTokens updates all of them.  *)
(* Room is there for the rows of the handlers under way.                   *)

(* Mutant: a state the rest of the code does not know.                     *)
NewRowUnset(v, s) == [version |-> v, used |-> "fresh", revoked |-> FALSE, next |-> None, signIn |-> s]
NewRow(v, s) == [version |-> v, used |-> "unused", revoked |-> FALSE, next |-> None, signIn |-> s]
Inserts(row) ==
  /\ issued' = issued + 1
  /\ tokens' = [i \in 1..(issued + 1) |-> IF i > issued THEN row ELSE tokens[i]]
SetVersion(v) == version' = v /\ rewound' = (rewound \/ v < version)
Coming == {c \in Calls : call[c].step \in Steps \ {"link", "answer"}}
Room == issued + Cardinality(Coming) + (IF ending.kind = "change" THEN 1 ELSE 0) < MaxTokens
RevokedAll == [i \in 1..issued |-> [tokens[i] EXCEPT !.revoked = TRUE]]

SignIn(b) ==
  /\ cookie[b] = None /\ Room
  /\ Inserts(NewRow(version, issued + 1))
  /\ cookie' = [cookie EXCEPT ![b] = issued + 1]
  /\ UNCHANGED <<version, call, ending, ended, alarm, late, rewound>>

-----------------------------------------------------------------------------
(* Renewals.                                                               *)

At(c, s) == call[c].step = s
Row(c) == tokens[call[c].token]
Goes(c, s) == call' = [call EXCEPT ![c].step = s]
Refused(c) == call' = [call EXCEPT ![c].step = "answer", ![c].new = None]
OnlyCall == UNCHANGED <<version, tokens, issued, cookie, ending, ended, alarm, late, rewound>>

Flight == \E c \in Calls : call[c].step \in Steps

(* Mutant: every request renews for itself.                                *)
JoinsNobody == "limit"
(* registerRefreshFlight: a request that finds a renewal of the person     *)
(* under way waits for its result; another one leads.                      *)
Joins == IF Flight THEN "waiting" ELSE "limit"

Renew(b, c) ==
  /\ At(c, "idle") /\ cookie[b] # None
  /\ Joins = "limit" => Room
  /\ call' = [call EXCEPT ![c] = [Free(b) EXCEPT !.step = Joins, !.token = cookie[b]]]
  /\ UNCHANGED <<version, tokens, issued, cookie, ending, ended, alarm, late, rewound>>

Followers == {c \in Calls : At(c, "waiting")}
(* Mutant: whoever waits is forgotten.                                     *)
LimitedAlone(c) == [call EXCEPT ![c] = Free(call[c].browser)]
Limited(c) == [d \in Calls |-> IF d \in Followers \cup {c} THEN Free(call[d].browser) ELSE call[d]]

(* The limiter lets the leader through, or answers 429 by itself.          *)
Limit(c) ==
  /\ At(c, "limit")
  /\ Goes(c, "user") \/ call' = Limited(c)
  /\ OnlyCall

(* refresh reads the person and compares the version in the token.         *)
ReadUser(c) ==
  /\ At(c, "user")
  /\ IF Row(c).version = version
       THEN call' = [call EXCEPT ![c].step = "row", ![c].version = version]
       ELSE Refused(c)
  /\ late' = (late \/ Row(c).used = "old")
  /\ UNCHANGED <<version, tokens, issued, cookie, ending, ended, alarm, rewound>>

ReadRow(c) ==
  /\ At(c, "row")
  /\ IF Row(c).revoked THEN Refused(c) ELSE Goes(c, "claim")
  /\ OnlyCall

(* One conditional UPDATE: unused and not revoked.                         *)
Claimable(c) == Row(c).used = "unused" /\ ~Row(c).revoked
Claim(c) ==
  /\ At(c, "claim")
  /\ IF Claimable(c)
       THEN tokens' = [tokens EXCEPT ![call[c].token].used = "recent"] /\ Goes(c, "insert")
       ELSE UNCHANGED tokens /\ Goes(c, "reread")
  /\ UNCHANGED <<version, issued, cookie, ending, ended, alarm, late, rewound>>

(* reuseIsBenign, of the row as it is now.                                 *)
Benign(t) ==
  /\ t.used = "recent"
  /\ t.next # None => tokens[t.next].used = "unused" /\ ~tokens[t.next].revoked

Reread(c) ==
  /\ At(c, "reread")
  /\ \/ Row(c).revoked /\ Refused(c)
     \/ ~Row(c).revoked /\ Benign(Row(c)) /\ Goes(c, "insert")
     \/ ~Row(c).revoked /\ ~Benign(Row(c)) /\ Goes(c, "revoke")
  /\ OnlyCall

(* Reuse: every row is revoked, then the version is set from what was read. *)
RevokeOnReuse(c) ==
  /\ At(c, "revoke")
  /\ tokens' = RevokedAll
  /\ alarm' = TRUE
  /\ Goes(c, "bump")
  /\ UNCHANGED <<version, issued, cookie, ending, ended, late, rewound>>

BumpOnReuse(c) ==
  /\ At(c, "bump")
  /\ SetVersion(call[c].version + 1)
  /\ Refused(c)
  /\ UNCHANGED <<tokens, issued, cookie, ending, ended, alarm, late>>

(* Mutant: the replacement carries the version as it is now.               *)
VersionNow(c) == version
VersionOf(c) == call[c].version

Insert(c) ==
  /\ At(c, "insert")
  /\ Inserts(NewRow(VersionOf(c), Row(c).signIn))
  /\ call' = [call EXCEPT ![c].step = "link", ![c].new = issued + 1]
  /\ UNCHANGED <<version, cookie, ending, ended, alarm, late, rewound>>

(* replacedByJti keeps the first replacement.                              *)
Link(c) ==
  /\ At(c, "link")
  /\ tokens' = [tokens EXCEPT ![call[c].token].next = IF @ = None THEN call[c].new ELSE @]
  /\ Goes(c, "answer")
  /\ UNCHANGED <<version, issued, cookie, ending, ended, alarm, late, rewound>>

(* The leader's result goes to everybody who waits; some answers are lost. *)
(* A 401 ends the session in the browser.                                  *)
Answer(c) ==
  /\ At(c, "answer")
  /\ \E arrived \in SUBSET {call[d].browser : d \in Followers \cup {c}} :
       cookie' = [b \in Browsers |-> IF b \in arrived THEN call[c].new ELSE cookie[b]]
  /\ call' = Limited(c)
  /\ UNCHANGED <<version, tokens, issued, ending, ended, alarm, late, rewound>>

(* 30 s after its claim a token may no longer be presented again.          *)
GraceEnds(t) ==
  /\ tokens[t].used = "recent"
  /\ \A c \in Calls : At(c, "idle")
  /\ tokens' = [tokens EXCEPT ![t].used = "old"]
  /\ UNCHANGED <<version, issued, cookie, call, ending, ended, alarm, late, rewound>>

-----------------------------------------------------------------------------
(* Endings.  logout, resetPassword and changePassword read the version,    *)
(* write it back plus one, then revoke every row; changePassword then      *)
(* signs its own browser in again, with the version it reads.              *)

SignIns == {tokens[i].signIn : i \in 1..issued}
EndAll(kind, b) ==
  /\ ending.step = "idle" /\ issued > 0 /\ version < MaxVersion
  /\ kind # "reset" => cookie[b] # None
  /\ kind = "change" => Room /\ ~tokens[cookie[b]].revoked
  /\ ending' = [step |-> "write", kind |-> kind, browser |-> b, version |-> version, covers |-> SignIns]
  /\ UNCHANGED <<version, tokens, issued, cookie, call, ended, alarm, late, rewound>>

WriteVersion ==
  /\ ending.step = "write"
  /\ SetVersion(ending.version + 1)
  /\ ending' = [ending EXCEPT !.step = "revoke"]
  /\ UNCHANGED <<tokens, issued, cookie, call, ended, alarm, late>>

Returns == ending' = Quiet(ending.browser) /\ ended' = ended \cup ending.covers

RevokeAll ==
  /\ ending.step = "revoke"
  /\ tokens' = RevokedAll
  /\ \/ ending.kind = "change" /\ ending' = [ending EXCEPT !.step = "insert"] /\ UNCHANGED <<cookie, ended>>
     \/ ending.kind = "reset" /\ Returns /\ UNCHANGED cookie
     \/ ending.kind = "logout" /\ Returns /\ cookie' = [cookie EXCEPT ![ending.browser] = None]
  /\ UNCHANGED <<version, issued, call, alarm, late, rewound>>

KeepBrowser ==
  /\ ending.step = "insert"
  /\ Inserts(NewRow(version, issued + 1))
  /\ cookie' = [cookie EXCEPT ![ending.browser] = issued + 1]
  /\ Returns
  /\ UNCHANGED <<version, call, alarm, late, rewound>>

(* endBrowserSession revokes the row of one cookie only.                   *)
EndBrowser(b) ==
  /\ cookie[b] # None
  /\ tokens' = [tokens EXCEPT ![cookie[b]].revoked = TRUE]
  /\ cookie' = [cookie EXCEPT ![b] = None]
  /\ UNCHANGED <<version, issued, call, ending, ended, alarm, late, rewound>>

RenewalStep(c) ==
  \/ Limit(c) \/ ReadUser(c) \/ ReadRow(c) \/ Claim(c) \/ Reread(c)
  \/ RevokeOnReuse(c) \/ BumpOnReuse(c) \/ Insert(c) \/ Link(c) \/ Answer(c)

Next ==
  \/ \E b \in Browsers : SignIn(b) \/ EndBrowser(b)
  \/ \E b \in Browsers, c \in Calls : Renew(b, c)
  \/ \E c \in Calls : RenewalStep(c)
  \/ \E t \in 1..issued : GraceEnds(t)
  \/ \E kind \in Kinds, b \in Browsers : EndAll(kind, b)
  \/ WriteVersion \/ RevokeAll \/ KeepBrowser

(* A handler that has begun goes on; nothing else has to happen.           *)
Spec == Init /\ [][Next]_vars /\ \A c \in Calls : WF_vars(RenewalStep(c))

-----------------------------------------------------------------------------
(* Properties.                                                             *)

Alive(t) == t # None /\ ~tokens[t].revoked /\ tokens[t].version = version

(* However renewals overlap and whichever answers are lost, the tabs of a  *)
(* browser are signed out for reuse only when one of them came back with a *)
(* token after its grace.                                                  *)
NoFalseAlarm == alarm => late

(* Once a sign-out, a reset or a change of password has returned, no token *)
(* of a sign-in it covered can be renewed, not even one that a renewal     *)
(* under way at the time hands out afterwards; a version taken back by the *)
(* stale write of a reuse that took longer than all that is the exception. *)
EndedStaysEnded == ~rewound => \A t \in 1..issued : Alive(t) => tokens[t].signIn \notin ended

(* Whoever waits for somebody else's renewal is answered.                  *)
FollowersAnswered == \A c \in Calls : At(c, "waiting") ~> At(c, "idle")

(* endBrowserSession ends one browser's session and leaves the others.     *)
OtherBrowsersStay ==
  [][\A b \in Browsers : EndBrowser(b) =>
       \A o \in Browsers \ {b} : Alive(cookie[o]) => Alive(cookie[o])']_vars
=============================================================================
