---------------------------- MODULE SessionsProofs ----------------------------
(* Why a sign-in that was ended stays ended, for any number of browsers and *)
(* renewals, and why the tabs of one browser never raise a false alarm.     *)
EXTENDS Sessions, FiniteSetTheorems, TLAPS

Rows == 1..issued
Leads(c) == call[c].step \in Steps
Before(c) == call[c].step \in Steps \ {"link", "answer"}

-----------------------------------------------------------------------------
(* The shape of the state, next to the types. *)

\* A row descends from a row, and is replaced by one.
RowsOK == \A t \in Rows : tokens[t].next \in 0..issued /\ tokens[t].signIn \in Rows

\* registerRefreshFlight: one renewal at a time, the others wait for it.
OneLeader == \A c, d \in Calls : Leads(c) /\ Leads(d) => c = d

CallOK(c) ==
  /\ call[c].step # "idle" => call[c].token \in Rows
  /\ call[c].new \in 0..issued
  /\ call[c].step = "link" => call[c].new # None

EndingOK ==
  /\ ending.covers \subseteq Rows /\ ended \subseteq Rows
  /\ ending.step = "idle" => ending.kind = "reset"
  /\ ending.step = "insert" => ending.kind = "change"

\* The rows that handlers under way may still insert fit in the table.
ToInsert == IF \E c \in Calls : Before(c) THEN 1 ELSE 0
ToKeep == IF ending.kind = "change" THEN 1 ELSE 0
RoomOK == issued + ToInsert + ToKeep <= MaxTokens

Shape == TypeOK /\ RowsOK /\ OneLeader /\ (\A c \in Calls : CallOK(c)) /\ EndingOK /\ RoomOK

\* With one leader, Room is what RoomOK needs for one more row.
LEMMA RoomForOne ==
  ASSUME Shape, Room
  PROVE  issued + ToInsert + ToKeep < MaxTokens
<1>1. Cardinality(Coming) = ToInsert
  <2>1. CASE \E c \in Calls : Before(c)
    <3>1. PICK c \in Calls : Before(c)
      BY <2>1
    <3>2. Coming = {c}
      BY <3>1 DEF Coming, Shape, OneLeader, Leads, Before
    <3>. QED BY <2>1, <3>2, FS_Singleton DEF ToInsert
  <2>2. CASE ~ \E c \in Calls : Before(c)
    <3>1. Coming = {}
      BY <2>2 DEF Coming, Before
    <3>. QED BY <2>2, <3>1, FS_EmptySet DEF ToInsert
  <2>. QED BY <2>1, <2>2
<1>. QED BY <1>1 DEF Room, ToKeep

\* issueTokens adds one row and leaves the others.
LEMMA InsertsRow ==
  ASSUME Shape, NEW v \in Nat, NEW s \in 1..(issued + 1), Inserts(NewRow(v, s)), issued < MaxTokens
  PROVE  /\ issued' = issued + 1 /\ issued' \in 0..MaxTokens
         /\ tokens' \in [1..issued' -> Token] /\ RowsOK'
         /\ tokens'[issued'] = NewRow(v, s)
         /\ \A t \in Rows : t # issued' /\ t \in Rows' /\ tokens'[t] = tokens[t]
         /\ \A t \in Rows' : t \in Rows \/ t = issued'
<1>1. issued \in Nat /\ issued' = issued + 1 /\ issued' \in 0..MaxTokens
  BY MaxTokensAssumption DEF Shape, TypeOK, Inserts
<1>2. tokens' = [i \in 1..issued' |-> IF i > issued THEN NewRow(v, s) ELSE tokens[i]]
  BY <1>1 DEF Inserts
<1>3. NewRow(v, s) \in Token
  BY <1>1, MaxTokensAssumption DEF NewRow, Token, Grace, Ids
<1>4. /\ tokens'[issued'] = NewRow(v, s)
      /\ \A t \in Rows : t # issued' /\ t \in Rows' /\ tokens'[t] = tokens[t]
      /\ \A t \in Rows' : t \in Rows \/ t = issued'
  BY <1>1, <1>2 DEF Rows
<1>5. tokens' \in [1..issued' -> Token]
  BY <1>1, <1>2, <1>3 DEF Shape, TypeOK
<1>6. RowsOK'
  BY <1>1, <1>4 DEF RowsOK, Shape, NewRow, None, Rows
<1>. QED BY <1>1, <1>4, <1>5, <1>6

\* revokeAllRefreshTokens changes nothing but the revocation.
LEMMA RevokesRows ==
  ASSUME Shape
  PROVE  /\ RevokedAll \in [1..issued -> Token]
         /\ \A t \in Rows : /\ RevokedAll[t] = [tokens[t] EXCEPT !.revoked = TRUE]
                            /\ RevokedAll[t].revoked
                            /\ RevokedAll[t].version = tokens[t].version
                            /\ RevokedAll[t].used = tokens[t].used
                            /\ RevokedAll[t].next = tokens[t].next
                            /\ RevokedAll[t].signIn = tokens[t].signIn
BY DEF Shape, TypeOK, RevokedAll, Rows, Token

\* A renewal takes a step and goes on, or takes its answer to itself.
LEMMA LeaderMoves ==
  ASSUME Shape, NEW c \in Calls, Leads(c), NEW q \in Call, call' = [call EXCEPT ![c] = q],
         q.step \in Steps, q.token = call[c].token, q.new \in 0..issued',
         q.step = "link" => q.new # None, issued' \in Nat, issued <= issued'
  PROVE  /\ call' \in [Calls -> Call] /\ OneLeader' /\ \A d \in Calls : CallOK(d)'
         /\ ToInsert = IF Before(c) THEN 1 ELSE 0
         /\ ToInsert' = IF Before(c)' THEN 1 ELSE 0
         /\ call'[c] = q
         /\ \A d \in Calls : d # c => call'[d] = call[d] /\ ~Leads(d) /\ ~Leads(d)'
<1>1. /\ call'[c] = q /\ call' \in [Calls -> Call] /\ issued \in Nat
      /\ \A d \in Calls : d # c => call'[d] = call[d] /\ ~Leads(d)
  BY DEF Shape, TypeOK, OneLeader
<1>2. \A d \in Calls : d # c => ~Leads(d)'
  BY <1>1 DEF Leads
<1>3. OneLeader'
  BY <1>2 DEF OneLeader
<1>4. \A d \in Calls : CallOK(d)'
  <2>1. CallOK(c)'
    <3>1. call[c].token \in Rows
      BY DEF Shape, CallOK, Leads, Steps
    <3>. QED BY <1>1, <3>1 DEF CallOK, Rows
  <2>2. ASSUME NEW d \in Calls, d # c
        PROVE  CallOK(d)'
    BY <1>1, <2>2 DEF Shape, CallOK, Rows
  <2>. QED BY <2>1, <2>2
<1>5. /\ ToInsert = IF Before(c) THEN 1 ELSE 0
      /\ ToInsert' = IF Before(c)' THEN 1 ELSE 0
  BY <1>1, <1>2 DEF ToInsert, Before, Leads
<1>. QED BY <1>1, <1>2, <1>3, <1>4, <1>5

\* The leader's result ends the renewal for everybody who waits.
LEMMA LeaderEnds ==
  ASSUME Shape, NEW c \in Calls, Leads(c), call' = Limited(c), issued' = issued
  PROVE  /\ call' \in [Calls -> Call] /\ OneLeader' /\ \A d \in Calls : CallOK(d)'
         /\ \A d \in Calls : ~Leads(d)'
         /\ ToInsert' = 0 /\ ToInsert \in {0, 1}
<1>1. \A d \in Calls : Free(call[d].browser) \in Call
  BY DEF Shape, TypeOK, Call, Free, Steps, None
<1>2. \A d \in Calls : call'[d] = IF d \in Followers \cup {c} THEN Free(call[d].browser) ELSE call[d]
  BY DEF Limited
<1>3. call' \in [Calls -> Call]
  BY <1>1, <1>2 DEF Limited, Shape, TypeOK
<1>4. \A d \in Calls : ~Leads(d)'
  <2>1. \A d \in Calls : d # c => ~Leads(d)
    BY DEF Shape, OneLeader
  <2>2. \A b : Free(b).step = "idle" /\ Free(b).new = 0
    BY DEF Free, None
  <2>3. ASSUME NEW d \in Calls
        PROVE  call'[d].step = "idle" \/ (d # c /\ call'[d] = call[d])
    BY <1>2, <2>2
  <2>. QED BY <2>1, <2>3 DEF Leads, Steps
<1>5. \A d \in Calls : CallOK(d)'
  <2>1. \A b : Free(b).step = "idle" /\ Free(b).new = 0
    BY DEF Free, None
  <2>2. issued \in Nat
    BY MaxTokensAssumption DEF Shape, TypeOK
  <2>. QED BY <1>2, <2>1, <2>2 DEF Shape, CallOK, Rows
<1>6. OneLeader' /\ ToInsert' = 0 /\ ToInsert \in {0, 1}
  BY <1>4 DEF OneLeader, ToInsert, Before, Leads
<1>. QED BY <1>3, <1>4, <1>5, <1>6

\* The calls stay as they are, and so does what is said of them.
LEMMA CallsStay ==
  ASSUME Shape, call' = call, issued' \in Nat, issued <= issued'
  PROVE  /\ call' \in [Calls -> Call] /\ OneLeader' /\ (\A d \in Calls : CallOK(d)')
         /\ ToInsert' = ToInsert /\ ToInsert \in {0, 1}
         /\ \A d \in Calls : Leads(d)' <=> Leads(d)
<1>1. issued \in Nat
  BY DEF Shape, TypeOK
<1>2. \A d \in Calls : CallOK(d)'
  BY <1>1 DEF Shape, CallOK, Rows
<1>. QED BY <1>2 DEF Shape, TypeOK, OneLeader, Leads, ToInsert, Before

\* A step that issues nothing keeps room for what the leader may still issue.
LEMMA RoomStays ==
  ASSUME RoomOK, issued \in Nat, MaxTokens \in Nat, ToInsert \in {0, 1}, ToInsert' \in {0, 1},
         ToInsert' <= ToInsert, UNCHANGED <<issued, ending>>
  PROVE  RoomOK'
<1>1. ToKeep' = ToKeep /\ ToKeep \in {0, 1} /\ issued' = issued
  BY DEF ToKeep
<1>2. \A a, b, k \in {0, 1} : issued + a + k <= MaxTokens /\ b <= a => issued + b + k <= MaxTokens
  OBVIOUS
<1>3. issued + ToInsert + ToKeep <= MaxTokens
  BY DEF RoomOK
<1>. HIDE DEF ToKeep, ToInsert
<1>4. issued + ToInsert' + ToKeep <= MaxTokens
  BY <1>1, <1>2, <1>3
<1>. QED BY <1>1, <1>4 DEF RoomOK

\* Renewals keep the shape.
LEMMA RenewalShape ==
  ASSUME Shape, NEW c \in Calls, RenewalStep(c)
  PROVE  Shape'
<1>0. /\ Leads(c) /\ call[c] \in Call /\ call[c].token \in Rows /\ issued \in Nat /\ MaxTokens \in Nat
      /\ tokens[call[c].token] \in Token /\ version \in Nat /\ call[c].new \in 0..issued
      /\ call[c].new \in Ids \cup {None} /\ call[c].version \in Nat
  <2>1. Leads(c)
    BY DEF RenewalStep, Limit, ReadUser, ReadRow, Claim, Reread, RevokeOnReuse, BumpOnReuse,
       Insert, Link, Answer, At, Leads, Steps
  <2>2. call[c] \in Call /\ call[c].token \in Rows /\ call[c].new \in 0..issued
    BY <2>1 DEF Shape, TypeOK, CallOK, Leads, Steps
  <2>. QED BY <2>1, <2>2, MaxTokensAssumption DEF Shape, TypeOK, Rows, Call
<1>1. ASSUME UNCHANGED <<tokens, issued, cookie, ending, ended>>,
             version' \in Nat /\ alarm' \in BOOLEAN /\ late' \in BOOLEAN /\ rewound' \in BOOLEAN,
             NEW q \in Call, call' = [call EXCEPT ![c] = q], q.step \in Steps \ {"link"},
             q.token = call[c].token, q.new \in 0..issued, Before(c)
      PROVE  Shape'
  <2>1. /\ call' \in [Calls -> Call] /\ OneLeader' /\ (\A d \in Calls : CallOK(d)')
        /\ ToInsert = 1 /\ ToInsert' \in {0, 1}
    <3>1. q.step \in Steps /\ q.step # "link" /\ q.new \in 0..issued' /\ issued' \in Nat /\ issued <= issued'
      BY <1>0, <1>1
    <3>2. /\ call' \in [Calls -> Call] /\ OneLeader' /\ (\A d \in Calls : CallOK(d)')
          /\ ToInsert = (IF Before(c) THEN 1 ELSE 0) /\ ToInsert' = (IF Before(c)' THEN 1 ELSE 0)
      BY <1>0, <1>1, <3>1, LeaderMoves
    <3>. QED BY <1>1, <3>2
  <2>2. TypeOK' /\ RowsOK' /\ EndingOK'
    BY <1>1, <2>1 DEF Shape, TypeOK, RowsOK, EndingOK, Rows
  <2>3. RoomOK'
    BY <1>0, <1>1, <2>1, RoomStays DEF Shape
  <2>. QED BY <2>1, <2>2, <2>3 DEF Shape
<1>2. ASSUME NEW s \in Steps \ {"link"}, Goes(c, s), Before(c),
             UNCHANGED <<version, tokens, issued, cookie, ending, ended, alarm, late, rewound>>
      PROVE  Shape'
  <2>1. [call[c] EXCEPT !.step = s] \in Call
    BY <1>0, <1>2 DEF Call
  <2>2. call' = [call EXCEPT ![c] = [call[c] EXCEPT !.step = s]]
    BY <1>2 DEF Goes
  <2>3. /\ [call[c] EXCEPT !.step = s].step = s
        /\ [call[c] EXCEPT !.step = s].token = call[c].token
        /\ [call[c] EXCEPT !.step = s].new = call[c].new
    BY <1>0 DEF Call
  <2>4. version' \in Nat /\ alarm' \in BOOLEAN /\ late' \in BOOLEAN /\ rewound' \in BOOLEAN
    BY <1>2 DEF Shape, TypeOK
  <2>. QED BY <1>0, <1>1, <1>2, <2>1, <2>2, <2>3, <2>4
<1>3. ASSUME Refused(c), Before(c), UNCHANGED <<tokens, issued, cookie, ending, ended>>,
             version' \in Nat /\ alarm' \in BOOLEAN /\ late' \in BOOLEAN /\ rewound' \in BOOLEAN
      PROVE  Shape'
  <2>. DEFINE q == [call[c] EXCEPT !.step = "answer", !.new = None]
  <2>1. q \in Call /\ q.step = "answer" /\ q.token = call[c].token /\ q.new = 0
    BY <1>0 DEF Call, Steps, None
  <2>2. call' = [call EXCEPT ![c] = q]
    BY <1>3 DEF Refused
  <2>3. q.step \in Steps \ {"link"} /\ q.new \in 0..issued
    BY <1>0, <2>1 DEF Steps
  <2>. HIDE DEF q
  <2>. QED BY <1>1, <1>3, <2>1, <2>2, <2>3
<1>4. CASE Limit(c)
  <2>1. Before(c)
    BY <1>4 DEF Limit, At, Before, Steps
  <2>2. CASE Goes(c, "user")
    BY <1>2, <1>4, <2>1, <2>2 DEF Limit, OnlyCall, Steps
  <2>3. CASE call' = Limited(c)
    <3>1. /\ call' \in [Calls -> Call] /\ OneLeader' /\ (\A d \in Calls : CallOK(d)')
          /\ ToInsert' = 0 /\ ToInsert \in {0, 1}
      BY <1>0, <1>4, <2>3, LeaderEnds DEF Limit, OnlyCall
    <3>2. TypeOK' /\ RowsOK' /\ EndingOK'
      BY <1>4, <3>1 DEF Limit, OnlyCall, Shape, TypeOK, RowsOK, EndingOK, Rows
    <3>3. RoomOK'
      BY <1>0, <1>4, <3>1 DEF Limit, OnlyCall, Shape, RoomOK, ToKeep
    <3>. QED BY <3>1, <3>2, <3>3 DEF Shape
  <2>. QED BY <1>4, <2>2, <2>3 DEF Limit
<1>5. CASE ReadUser(c)
  <2>1. Before(c) /\ late' \in BOOLEAN
    BY <1>5 DEF ReadUser, At, Before, Steps
  <2>2. CASE Row(c).version = version
    <3>. DEFINE q == [call[c] EXCEPT !.step = "row", !.version = version]
    <3>1. q \in Call /\ q.step = "row" /\ q.token = call[c].token /\ q.new = call[c].new
      BY <1>0 DEF Call, Steps
    <3>2. call' = [call EXCEPT ![c] = q]
      BY <1>5, <2>2 DEF ReadUser
    <3>3. q.step \in Steps \ {"link"}
      BY <3>1 DEF Steps
    <3>4. version' \in Nat /\ alarm' \in BOOLEAN /\ rewound' \in BOOLEAN
      BY <1>5 DEF ReadUser, Shape, TypeOK
    <3>. HIDE DEF q
    <3>. QED BY <1>0, <1>1, <1>5, <2>1, <3>1, <3>2, <3>3, <3>4 DEF ReadUser
  <2>3. CASE Row(c).version # version
    BY <1>3, <1>5, <2>1, <2>3 DEF ReadUser, Shape, TypeOK
  <2>. QED BY <2>2, <2>3
<1>6. CASE ReadRow(c)
  <2>1. Before(c)
    BY <1>6 DEF ReadRow, At, Before, Steps
  <2>2. CASE Row(c).revoked
    BY <1>3, <1>6, <2>1, <2>2 DEF ReadRow, OnlyCall, Shape, TypeOK
  <2>3. CASE ~Row(c).revoked
    BY <1>2, <1>6, <2>1, <2>3 DEF ReadRow, OnlyCall, Steps
  <2>. QED BY <2>2, <2>3
<1>7. CASE Reread(c)
  <2>1. Before(c) /\ UNCHANGED <<version, tokens, issued, cookie, ending, ended, alarm, late, rewound>>
    BY <1>7 DEF Reread, At, Before, Steps, OnlyCall
  <2>2. CASE Refused(c)
    BY <1>3, <2>1, <2>2 DEF Shape, TypeOK
  <2>3. CASE Goes(c, "insert") \/ Goes(c, "revoke")
    BY <1>2, <2>1, <2>3 DEF Steps
  <2>. QED BY <1>7, <2>2, <2>3 DEF Reread
<1>8. CASE BumpOnReuse(c)
  <2>1. /\ Before(c) /\ Refused(c) /\ version' = call[c].version + 1 /\ rewound' \in BOOLEAN
        /\ UNCHANGED <<tokens, issued, cookie, ending, ended, alarm, late>>
    BY <1>8 DEF BumpOnReuse, SetVersion, At, Before, Steps
  <2>. QED BY <1>0, <1>3, <2>1 DEF Shape, TypeOK
<1>9. ASSUME tokens' \in [Rows -> Token], NEW s \in Steps, s = "answer" \/ Before(c), s # "link", Goes(c, s),
             \A t \in Rows : /\ tokens'[t].signIn = tokens[t].signIn
                             /\ tokens'[t].next \in {tokens[t].next, call[c].new},
             UNCHANGED <<version, issued, cookie, ending, ended, late, rewound>>, alarm' \in BOOLEAN
      PROVE  Shape'
  <2>. DEFINE q == [call[c] EXCEPT !.step = s]
  <2>1. q \in Call /\ q.step = s /\ q.token = call[c].token /\ q.new = call[c].new
    BY <1>0 DEF Call
  <2>2. call' = [call EXCEPT ![c] = q]
    BY <1>9 DEF Goes
  <2>. HIDE DEF q
  <2>3. /\ call' \in [Calls -> Call] /\ OneLeader' /\ (\A d \in Calls : CallOK(d)')
        /\ ToInsert = (IF Before(c) THEN 1 ELSE 0) /\ ToInsert' = (IF Before(c)' THEN 1 ELSE 0)
        /\ call'[c] = q
    <3>1. q.step \in Steps /\ q.step # "link" /\ q.new \in 0..issued' /\ issued' \in Nat /\ issued <= issued'
      BY <1>0, <1>9, <2>1
    <3>. QED BY <1>0, <2>1, <2>2, <3>1, LeaderMoves
  <2>4. ToInsert' <= ToInsert /\ ToInsert' \in {0, 1} /\ ToInsert \in {0, 1}
    BY <1>9, <2>1, <2>3 DEF Before
  <2>5. RowsOK'
    BY <1>0, <1>9 DEF Shape, RowsOK, Rows
  <2>6. TypeOK' /\ EndingOK'
    BY <1>9, <2>3 DEF Shape, TypeOK, EndingOK, Rows
  <2>7. RoomOK'
    BY <1>0, <1>9, <2>4, RoomStays DEF Shape
  <2>. QED BY <2>3, <2>5, <2>6, <2>7 DEF Shape
<1>10. CASE Claim(c)
  <2>1. Before(c)
    BY <1>10 DEF Claim, At, Before, Steps
  <2>2. CASE Claimable(c)
    <3>1. /\ tokens' = [tokens EXCEPT ![call[c].token].used = "recent"] /\ Goes(c, "insert")
          /\ UNCHANGED <<version, issued, cookie, ending, ended, alarm, late, rewound>>
      BY <1>10, <2>2 DEF Claim
    <3>2. tokens' \in [Rows -> Token]
      BY <1>0, <3>1 DEF Shape, TypeOK, Token, Grace, Rows
    <3>3. \A t \in Rows : tokens'[t].signIn = tokens[t].signIn /\ tokens'[t].next = tokens[t].next
      BY <1>0, <3>1 DEF Shape, TypeOK, Token, Rows
    <3>4. alarm' \in BOOLEAN
      BY <3>1 DEF Shape, TypeOK
    <3>. QED BY <1>9, <2>1, <3>1, <3>2, <3>3, <3>4 DEF Steps
  <2>3. CASE ~Claimable(c)
    BY <1>2, <1>10, <2>1, <2>3 DEF Claim, Steps
  <2>. QED BY <2>2, <2>3
<1>11. CASE RevokeOnReuse(c)
  <2>1. /\ Before(c) /\ tokens' = RevokedAll /\ alarm' = TRUE /\ Goes(c, "bump")
        /\ UNCHANGED <<version, issued, cookie, ending, ended, late, rewound>>
    BY <1>11 DEF RevokeOnReuse, At, Before, Steps
  <2>2. /\ tokens' \in [Rows -> Token]
        /\ \A t \in Rows : tokens'[t].signIn = tokens[t].signIn /\ tokens'[t].next = tokens[t].next
    BY <2>1, RevokesRows DEF Rows
  <2>. QED BY <1>9, <2>1, <2>2 DEF Steps
<1>12. CASE Link(c)
  <2>1. /\ tokens' = [tokens EXCEPT ![call[c].token].next = IF @ = None THEN call[c].new ELSE @]
        /\ Goes(c, "answer")
        /\ UNCHANGED <<version, issued, cookie, ending, ended, alarm, late, rewound>>
    BY <1>12 DEF Link
  <2>2. tokens' \in [Rows -> Token]
    BY <1>0, <2>1 DEF Shape, TypeOK, Token, Rows
  <2>3. \A t \in Rows : /\ tokens'[t].signIn = tokens[t].signIn
                        /\ tokens'[t].next \in {tokens[t].next, call[c].new}
    BY <1>0, <2>1 DEF Shape, TypeOK, Token, Rows
  <2>4. alarm' \in BOOLEAN
    BY <2>1 DEF Shape, TypeOK
  <2>. QED BY <1>9, <2>1, <2>2, <2>3, <2>4 DEF Steps
<1>13. CASE Insert(c)
  <2>1. /\ Before(c) /\ Inserts(NewRow(call[c].version, Row(c).signIn))
        /\ call' = [call EXCEPT ![c].step = "link", ![c].new = issued + 1]
        /\ UNCHANGED <<version, cookie, ending, ended, alarm, late, rewound>>
    BY <1>13 DEF Insert, VersionOf, At, Before, Steps
  <2>2. ToInsert = 1
    BY <2>1 DEF ToInsert
  <2>3. issued < MaxTokens /\ Row(c).signIn \in 1..(issued + 1)
    BY <1>0, <2>2 DEF Shape, RoomOK, ToKeep, RowsOK, Row, Rows
  <2>4. issued' = issued + 1 /\ issued' \in 0..MaxTokens /\ tokens' \in [1..issued' -> Token] /\ RowsOK'
    BY <1>0, <2>1, <2>3, InsertsRow
  <2>. DEFINE q == [call[c] EXCEPT !.step = "link", !.new = issued + 1]
  <2>5. q \in Call /\ q.step = "link" /\ q.token = call[c].token /\ q.new = issued + 1
    <3>1. issued + 1 \in Ids \cup {None} /\ "link" \in Steps
      BY <1>0, <2>3 DEF Ids, Steps
    <3>. QED BY <1>0, <3>1 DEF Call
  <2>6. call' = [call EXCEPT ![c] = q]
    BY <2>1
  <2>. HIDE DEF q
  <2>7. /\ call' \in [Calls -> Call] /\ OneLeader' /\ (\A d \in Calls : CallOK(d)') /\ ToInsert' = 0
    <3>1. q.step \in Steps /\ q.new \in 0..issued' /\ q.new # None /\ issued' \in Nat /\ issued <= issued'
      BY <1>0, <2>4, <2>5 DEF Steps, None
    <3>2. /\ call' \in [Calls -> Call] /\ OneLeader' /\ (\A d \in Calls : CallOK(d)')
          /\ ToInsert' = (IF Before(c)' THEN 1 ELSE 0) /\ call'[c] = q
      BY <1>0, <2>5, <2>6, <3>1, LeaderMoves
    <3>. QED BY <2>5, <3>2 DEF Before
  <2>8. TypeOK' /\ EndingOK'
    BY <1>0, <2>1, <2>4, <2>7 DEF Shape, TypeOK, EndingOK, Rows
  <2>9. RoomOK'
    BY <1>0, <2>1, <2>2, <2>4, <2>7 DEF Shape, RoomOK, ToKeep
  <2>. QED BY <2>4, <2>7, <2>8, <2>9 DEF Shape
<1>14. CASE Answer(c)
  <2>1. call' = Limited(c) /\ UNCHANGED <<version, tokens, issued, ending, ended, alarm, late, rewound>>
    BY <1>14 DEF Answer
  <2>2. /\ call' \in [Calls -> Call] /\ OneLeader' /\ (\A d \in Calls : CallOK(d)')
        /\ ToInsert' = 0 /\ ToInsert \in {0, 1}
    BY <1>0, <2>1, LeaderEnds
  <2>3. cookie' \in [Browsers -> 0..issued]
    BY <1>0, <1>14 DEF Answer, Shape, TypeOK
  <2>4. TypeOK' /\ RowsOK' /\ EndingOK'
    BY <2>1, <2>2, <2>3 DEF Shape, TypeOK, RowsOK, EndingOK, Rows
  <2>5. RoomOK'
    BY <1>0, <2>1, <2>2 DEF Shape, RoomOK, ToKeep
  <2>. QED BY <2>2, <2>4, <2>5 DEF Shape
<1>. QED BY <1>4, <1>5, <1>6, <1>7, <1>8, <1>10, <1>11, <1>12, <1>13, <1>14 DEF RenewalStep

\* What does not renew keeps the shape as well.
LEMMA OtherShape ==
  ASSUME Shape, Next, \A c \in Calls : ~RenewalStep(c)
  PROVE  Shape'
<1>0. /\ issued \in Nat /\ MaxTokens \in Nat /\ issued <= MaxTokens /\ version \in Nat
      /\ ToInsert \in {0, 1} /\ ToKeep \in {0, 1}
  BY MaxTokensAssumption DEF Shape, TypeOK, ToInsert, ToKeep
<1>1. ASSUME NEW b \in Browsers, SignIn(b)
      PROVE  Shape'
  <2>1. /\ Inserts(NewRow(version, issued + 1)) /\ cookie' = [cookie EXCEPT ![b] = issued + 1]
        /\ UNCHANGED <<version, call, ending, ended, alarm, late, rewound>>
    BY <1>1 DEF SignIn
  <2>2. issued + ToInsert + ToKeep < MaxTokens
    BY <1>1, RoomForOne DEF SignIn
  <2>3. issued' = issued + 1 /\ issued' \in 0..MaxTokens /\ tokens' \in [1..issued' -> Token] /\ RowsOK'
    BY <1>0, <2>1, <2>2, InsertsRow
  <2>4. (\A d \in Calls : CallOK(d)') /\ OneLeader' /\ call' \in [Calls -> Call] /\ ToInsert' = ToInsert
    BY <1>0, <2>1, <2>3, CallsStay
  <2>5. TypeOK' /\ EndingOK' /\ RoomOK'
    BY <1>0, <2>1, <2>2, <2>3, <2>4 DEF Shape, TypeOK, EndingOK, RoomOK, ToKeep, Rows
  <2>. QED BY <2>3, <2>4, <2>5 DEF Shape
<1>2. CASE KeepBrowser
  <2>1. /\ Inserts(NewRow(version, issued + 1)) /\ cookie' = [cookie EXCEPT ![ending.browser] = issued + 1]
        /\ ending' = Quiet(ending.browser) /\ ended' = ended \cup ending.covers
        /\ UNCHANGED <<version, call, alarm, late, rewound>>
    BY <1>2 DEF KeepBrowser, Returns
  <2>2. issued + ToInsert + 1 <= MaxTokens
    BY <1>0, <1>2 DEF KeepBrowser, Shape, EndingOK, RoomOK, ToKeep
  <2>3. issued' = issued + 1 /\ issued' \in 0..MaxTokens /\ tokens' \in [1..issued' -> Token] /\ RowsOK'
    <3>1. issued < MaxTokens /\ issued + 1 \in 1..(issued + 1)
      BY <1>0, <2>2
    <3>. QED BY <1>0, <2>1, <3>1, InsertsRow
  <2>4. (\A d \in Calls : CallOK(d)') /\ OneLeader' /\ call' \in [Calls -> Call] /\ ToInsert' = ToInsert
    BY <1>0, <2>1, <2>3, CallsStay
  <2>5. ending' \in Ending /\ ending'.kind = "reset" /\ ending'.step = "idle" /\ ending'.covers = {}
    BY <2>1 DEF Shape, TypeOK, Ending, Quiet, Kinds
  <2>6. ended' \subseteq Rows /\ Rows \subseteq Ids /\ Rows \subseteq Rows'
    <3>1. ended \subseteq Rows /\ ending.covers \subseteq Rows
      BY DEF Shape, EndingOK
    <3>2. Rows \subseteq Ids /\ Rows \subseteq Rows'
      BY <1>0, <2>3 DEF Rows, Ids
    <3>. QED BY <2>1, <3>1, <3>2
  <2>7. cookie' \in [Browsers -> 0..issued']
    <3>1. cookie \in [Browsers -> 0..issued] /\ issued + 1 \in 0..issued' /\ 0..issued \subseteq 0..issued'
      BY <1>0, <2>3 DEF Shape, TypeOK
    <3>. QED BY <2>1, <3>1
  <2>8. TypeOK'
    BY <2>1, <2>3, <2>4, <2>5, <2>6, <2>7 DEF Shape, TypeOK
  <2>9. EndingOK'
    BY <2>5, <2>6 DEF EndingOK
  <2>10. RoomOK'
    BY <1>0, <2>2, <2>3, <2>4, <2>5 DEF RoomOK, ToKeep
  <2>. QED BY <2>3, <2>4, <2>8, <2>9, <2>10 DEF Shape
<1>3. ASSUME NEW b \in Browsers, EndBrowser(b)
      PROVE  Shape'
  <2>1. /\ cookie[b] \in Rows /\ tokens' = [tokens EXCEPT ![cookie[b]].revoked = TRUE]
        /\ cookie' = [cookie EXCEPT ![b] = None]
        /\ UNCHANGED <<version, issued, call, ending, ended, alarm, late, rewound>>
    BY <1>0, <1>3 DEF EndBrowser, Shape, TypeOK, Rows, None
  <2>2. (\A d \in Calls : CallOK(d)') /\ OneLeader' /\ ToInsert' = ToInsert
    BY <1>0, <2>1, CallsStay
  <2>3. TypeOK'
    <3>1. tokens' \in [1..issued -> Token]
      BY <2>1 DEF Shape, TypeOK, Token, Rows
    <3>2. cookie' \in [Browsers -> 0..issued]
      BY <1>0, <2>1 DEF Shape, TypeOK, None
    <3>. QED BY <2>1, <3>1, <3>2 DEF Shape, TypeOK
  <2>4. RowsOK'
    BY <1>0, <2>1 DEF Shape, TypeOK, RowsOK, Rows, Token
  <2>. QED BY <2>1, <2>2, <2>3, <2>4 DEF Shape, EndingOK, RoomOK, ToKeep, Rows
<1>4. ASSUME NEW b \in Browsers, NEW c \in Calls, Renew(b, c)
      PROVE  Shape'
  <2>. DEFINE q == [Free(b) EXCEPT !.step = Joins, !.token = cookie[b]]
  <2>1. /\ call[c].step = "idle" /\ cookie[b] \in Rows /\ call' = [call EXCEPT ![c] = q]
        /\ Joins = "limit" => Room
        /\ UNCHANGED <<version, tokens, issued, cookie, ending, ended, alarm, late, rewound>>
    BY <1>0, <1>4 DEF Renew, At, Shape, TypeOK, Rows, None
  <2>2. Joins \in {"waiting", "limit"} /\ (Joins = "limit" <=> \A d \in Calls : ~Leads(d))
    BY DEF Joins, Flight, Leads
  <2>3. q \in Call /\ q.step = Joins /\ q.token = cookie[b] /\ q.new = 0
    <3>1. Joins \in Steps \cup {"idle", "waiting"} /\ cookie[b] \in Ids \cup {None} /\ None = 0
      BY <1>0, <2>1, <2>2 DEF Steps, Rows, Ids, None
    <3>2. Free(b) \in Call /\ Free(b).new = 0
      BY DEF Free, Call, None
    <3>. HIDE DEF Joins
    <3>. QED BY <3>1, <3>2 DEF Call
  <2>. HIDE DEF q
  <2>4. /\ call'[c] = q /\ call' \in [Calls -> Call]
        /\ \A d \in Calls : d # c => call'[d] = call[d]
    BY <2>1, <2>3 DEF Shape, TypeOK
  <2>5. OneLeader' /\ \A d \in Calls : CallOK(d)'
    <3>1. CallOK(c)'
      BY <1>0, <2>1, <2>2, <2>3, <2>4 DEF CallOK, Rows, None
    <3>2. ASSUME NEW d \in Calls, d # c
          PROVE  CallOK(d)'
      BY <2>1, <2>4, <3>2 DEF Shape, CallOK, Rows
    <3>3. OneLeader'
      BY <2>2, <2>3, <2>4 DEF Shape, OneLeader, Leads, Steps
    <3>. QED BY <3>1, <3>2, <3>3
  <2>6. issued + ToInsert' + ToKeep <= MaxTokens
    <3>1. CASE Joins = "limit"
      <4>1. issued + ToInsert + ToKeep < MaxTokens
        BY <2>1, <3>1, RoomForOne
      <4>2. ToInsert' \in {0, 1}
        BY DEF ToInsert
      <4>3. \A i, k, m, o, n \in Int : i + o + k < m /\ o \in {0, 1} /\ n \in {0, 1} => i + n + k <= m
        OBVIOUS
      <4>4. ToInsert' \in Int
        BY <4>2
      <4>5. ToInsert \in Int /\ ToKeep \in Int /\ issued \in Int /\ MaxTokens \in Int
        BY <1>0
      <4>6. ToInsert \in {0, 1}
        BY <1>0
      <4>. QED BY <4>1, <4>2, <4>3, <4>4, <4>5, <4>6
    <3>2. CASE Joins = "waiting"
      <4>1. ~Before(c)' /\ ~Before(c) /\ \A d \in Calls : d # c => (Before(d)' <=> Before(d))
        BY <2>1, <2>3, <2>4, <3>2 DEF Before, Steps
      <4>2. ToInsert' = ToInsert
        BY <4>1 DEF ToInsert
      <4>. QED BY <1>0, <4>2 DEF Shape, RoomOK
    <3>. QED BY <2>2, <3>1, <3>2
  <2>7. TypeOK' /\ RowsOK' /\ EndingOK' /\ RoomOK'
    BY <2>1, <2>4, <2>6 DEF Shape, TypeOK, RowsOK, EndingOK, RoomOK, ToKeep, Rows
  <2>. QED BY <2>5, <2>7 DEF Shape
<1>5. ASSUME NEW t \in Rows, GraceEnds(t)
      PROVE  Shape'
  <2>1. /\ tokens' = [tokens EXCEPT ![t].used = "old"]
        /\ UNCHANGED <<version, issued, cookie, call, ending, ended, alarm, late, rewound>>
    BY <1>5 DEF GraceEnds
  <2>2. (\A d \in Calls : CallOK(d)') /\ OneLeader' /\ ToInsert' = ToInsert
    BY <1>0, <2>1, CallsStay
  <2>3. TypeOK'
    BY <2>1 DEF Shape, TypeOK, Token, Grace
  <2>4. RowsOK'
    BY <2>1 DEF Shape, TypeOK, RowsOK, Rows, Token
  <2>. QED BY <2>1, <2>2, <2>3, <2>4 DEF Shape, EndingOK, RoomOK, ToKeep, Rows
<1>6. ASSUME NEW kind \in Kinds, NEW b \in Browsers, EndAll(kind, b)
      PROVE  Shape'
  <2>1. /\ ending.step = "idle"
        /\ kind = "change" => Room
        /\ ending' = [step |-> "write", kind |-> kind, browser |-> b, version |-> version,
                      covers |-> SignIns]
        /\ UNCHANGED <<version, tokens, issued, cookie, call, ended, alarm, late, rewound>>
    BY <1>6 DEF EndAll
  <2>2. (\A d \in Calls : CallOK(d)') /\ OneLeader' /\ ToInsert' = ToInsert
    BY <1>0, <2>1, CallsStay
  <2>3. SignIns \subseteq Rows
    BY DEF SignIns, Shape, RowsOK, Rows
  <2>4. TypeOK' /\ RowsOK'
    BY <1>0, <2>1, <2>3 DEF Shape, TypeOK, RowsOK, Rows, Ending, Ids
  <2>5. EndingOK'
    BY <2>1, <2>3 DEF Shape, EndingOK, Rows
  <2>6. RoomOK'
    <3>0. ToKeep = 0 /\ ToKeep' = IF kind = "change" THEN 1 ELSE 0
      BY <2>1 DEF Shape, EndingOK, ToKeep
    <3>1. CASE kind = "change"
      <4>1. issued + ToInsert + ToKeep < MaxTokens
        BY <2>1, <3>1, RoomForOne
      <4>. QED BY <1>0, <2>1, <2>2, <3>0, <3>1, <4>1 DEF RoomOK
    <3>2. CASE kind # "change"
      BY <1>0, <2>1, <2>2, <3>0, <3>2 DEF Shape, RoomOK
    <3>. QED BY <3>1, <3>2
  <2>. QED BY <2>2, <2>4, <2>5, <2>6 DEF Shape
<1>7. CASE WriteVersion
  <2>1. /\ ending.step = "write" /\ ending' = [ending EXCEPT !.step = "revoke"]
        /\ version' = ending.version + 1 /\ rewound' \in BOOLEAN
        /\ UNCHANGED <<tokens, issued, cookie, call, ended, alarm, late>>
    BY <1>7 DEF WriteVersion, SetVersion
  <2>2. (\A d \in Calls : CallOK(d)') /\ OneLeader' /\ ToInsert' = ToInsert
    BY <1>0, <2>1, CallsStay
  <2>3. ending \in Ending /\ ending' \in Ending /\ ending'.step = "revoke"
        /\ ending'.kind = ending.kind /\ ending'.covers = ending.covers /\ version' \in Nat
    BY <2>1 DEF Shape, TypeOK, Ending
  <2>. QED BY <2>1, <2>2, <2>3 DEF Shape, TypeOK, RowsOK, EndingOK, RoomOK, ToKeep, Rows
<1>8. CASE RevokeAll
  <2>1. /\ ending.step = "revoke" /\ tokens' = RevokedAll
        /\ UNCHANGED <<version, issued, call, alarm, late, rewound>>
        /\ \/ ending.kind = "change" /\ ending' = [ending EXCEPT !.step = "insert"] /\ ended' = ended
           \/ ending' = Quiet(ending.browser) /\ ended' = ended \cup ending.covers
        /\ cookie' \in {cookie, [cookie EXCEPT ![ending.browser] = None]}
    BY <1>8 DEF RevokeAll, Returns
  <2>2. (\A d \in Calls : CallOK(d)') /\ OneLeader' /\ ToInsert' = ToInsert
    BY <1>0, <2>1, CallsStay
  <2>3. tokens' \in [1..issued -> Token] /\ RowsOK'
    BY <2>1, RevokesRows DEF Shape, RowsOK, Rows
  <2>4. /\ ending' \in Ending /\ ending'.covers \subseteq Rows /\ ended' \subseteq Rows
        /\ ending'.step = "idle" => ending'.kind = "reset"
        /\ ending'.step = "insert" => ending'.kind = "change"
        /\ ending'.kind = "change" => ending.kind = "change"
    BY <2>1 DEF Shape, TypeOK, EndingOK, Ending, Quiet, Kinds
  <2>5. TypeOK' /\ EndingOK' /\ RoomOK'
    BY <1>0, <2>1, <2>2, <2>3, <2>4 DEF Shape, TypeOK, EndingOK, RoomOK, ToKeep, Rows, Ids, None
  <2>. QED BY <2>2, <2>3, <2>5 DEF Shape
<1>. QED BY <1>1, <1>2, <1>3, <1>4, <1>5, <1>6, <1>7, <1>8 DEF Next, Rows

\* Every step keeps the shape.
LEMMA ShapeStep == Shape /\ [Next]_vars => Shape'
<1>1. ASSUME Shape, UNCHANGED vars
      PROVE  Shape'
  BY <1>1 DEF vars, Shape, TypeOK, RowsOK, OneLeader, CallOK, EndingOK, RoomOK, Rows, Leads,
     ToInsert, ToKeep, Before
<1>. QED BY <1>1, RenewalShape, OtherShape

\* Nobody has signed in yet.
LEMMA InitShape == Init => Shape
<1>. SUFFICES ASSUME Init
     PROVE  Shape
  OBVIOUS
<1>1. /\ issued = 0 /\ tokens = <<>> /\ Rows = {} /\ MaxTokens \in Nat
      /\ \A c \in Calls : call[c].step = "idle" /\ call[c].new = 0
      /\ ending.step = "idle" /\ ending.kind = "reset" /\ ending.covers = {} /\ ended = {}
  BY MaxTokensAssumption DEF Init, Rows, Free, Quiet, None
<1>2. call \in [Calls -> Call] /\ ending \in Ending
  BY DEF Init, Free, Quiet, Call, Ending, Steps, Kinds, None
<1>3. tokens \in [1..issued -> Token]
  BY <1>1
<1>4. cookie \in [Browsers -> 0..issued]
  BY <1>1 DEF Init, None
<1>5. TypeOK
  <2>1. issued \in 0..MaxTokens /\ ended \subseteq Ids /\ version \in Nat
    BY <1>1 DEF Init
  <2>2. alarm \in BOOLEAN /\ late \in BOOLEAN /\ rewound \in BOOLEAN
    BY DEF Init
  <2>. QED BY <1>2, <1>3, <1>4, <2>1, <2>2 DEF TypeOK
<1>6. RowsOK /\ OneLeader /\ (\A c \in Calls : CallOK(c)) /\ EndingOK /\ RoomOK
  BY <1>1 DEF RowsOK, OneLeader, Leads, Steps, CallOK, EndingOK, RoomOK, ToInsert, ToKeep, Before, None
<1>. QED BY <1>5, <1>6 DEF Shape

\* Whatever overlaps, the state keeps its shape.
LEMMA AlwaysShape == Spec => []Shape
BY InitShape, ShapeStep, PTL DEF Spec

\* refreshFlight, refresh and the handlers that end sessions keep every variable
\* well typed, and never run out of the rows reserved for them.
THEOREM TypeCorrect == Spec => []TypeOK
<1>1. Shape => TypeOK
  BY DEF Shape
<1>. QED BY <1>1, AlwaysShape, PTL

-----------------------------------------------------------------------------
(* Why what ended stays ended: a row is never younger than the version it   *)
(* descends from, and a sign-out moves the version past all it covers.      *)

\* Between the version check and the insertion, a renewal carries the version of its token.
Carries(c) == call[c].step \in Steps \ {"limit", "user", "link", "answer"} => call[c].version = Row(c).version

Outdated ==
  ~rewound =>
    /\ \A t \in Rows : tokens[t].version <= version
    /\ \A t \in Rows : tokens[t].signIn \in ended => tokens[t].version < version
    /\ ending.step # "idle" =>
         \A t \in Rows : tokens[t].signIn \in ending.covers => tokens[t].version <= ending.version
    /\ ending.step \in {"revoke", "insert"} => ending.version < version

Behind == (\A c \in Calls : Carries(c)) /\ Outdated

\* What Inserts does to the rows that are there.
LEMMA InsertsOne ==
  ASSUME issued \in Nat, NEW row, Inserts(row)
  PROVE  /\ Rows' = Rows \cup {issued + 1} /\ tokens'[issued + 1] = row
         /\ issued + 1 \notin Rows /\ \A t \in Rows : tokens'[t] = tokens[t]
BY DEF Inserts, Rows

\* No statement changes the version or the origin of a row.
RowsKept ==
  /\ Rows \subseteq Rows'
  /\ \A t \in Rows : tokens'[t].version = tokens[t].version /\ tokens'[t].signIn = tokens[t].signIn

\* So it is for every step of a renewal and of an ending.
LEMMA RowsStay == Shape /\ Next => RowsKept
<1>. SUFFICES ASSUME Shape, Next
     PROVE  RowsKept
  OBVIOUS
<1>0. issued \in Nat /\ tokens \in [Rows -> Token]
  BY MaxTokensAssumption DEF Shape, TypeOK, Rows
<1>1. ASSUME NEW row, Inserts(row)
      PROVE  RowsKept
  BY <1>0, <1>1, InsertsOne DEF RowsKept
<1>2. CASE tokens' = RevokedAll /\ issued' = issued
  BY <1>2, RevokesRows DEF Rows, RowsKept
<1>3. CASE UNCHANGED <<tokens, issued>>
  BY <1>3 DEF Rows, RowsKept
<1>4. CASE \E c \in Calls : Claim(c)
  BY <1>0, <1>4 DEF Claim, Token, Rows, RowsKept
<1>5. CASE \E c \in Calls : Link(c)
  BY <1>0, <1>5 DEF Link, Token, Rows, RowsKept
<1>6. CASE \E t \in Rows : GraceEnds(t)
  BY <1>0, <1>6 DEF GraceEnds, Token, Rows, RowsKept
<1>7. CASE \E b \in Browsers : EndBrowser(b)
  BY <1>0, <1>7 DEF EndBrowser, Token, Rows, RowsKept
<1>8. ASSUME NEW c \in Calls, RenewalStep(c)
      PROVE  RowsKept
  <2>1. CASE UNCHANGED <<tokens, issued>> \/ (tokens' = RevokedAll /\ issued' = issued)
    BY <1>2, <1>3, <2>1
  <2>2. CASE \E row : Inserts(row)
    BY <1>1, <2>2
  <2>3. \/ Claim(c) \/ Link(c) \/ \E row : Inserts(row)
        \/ UNCHANGED <<tokens, issued>> \/ (tokens' = RevokedAll /\ issued' = issued)
    BY <1>8 DEF RenewalStep, Limit, ReadUser, ReadRow, Reread, RevokeOnReuse, BumpOnReuse, Insert, Answer, OnlyCall
  <2>. QED BY <1>4, <1>5, <2>1, <2>2, <2>3
<1>9. CASE \/ \E b \in Browsers, c \in Calls : Renew(b, c)
           \/ \E kind \in Kinds, b \in Browsers : EndAll(kind, b)
           \/ WriteVersion
  <2>1. UNCHANGED <<tokens, issued>>
    BY <1>9 DEF Renew, EndAll, WriteVersion
  <2>. QED BY <1>3, <2>1
<1>10. CASE RevokeAll
  BY <1>2, <1>10 DEF RevokeAll
<1>11. CASE KeepBrowser \/ \E b \in Browsers : SignIn(b)
  BY <1>1, <1>11 DEF KeepBrowser, SignIn
<1>. QED BY <1>6, <1>7, <1>8, <1>9, <1>10, <1>11 DEF Next, Rows

\* A step whose new rows descend from old ones, and that does not take the version back.
LEMMA OutdatedKept ==
  ASSUME Shape, Outdated, UNCHANGED <<ending, ended>>, rewound => rewound', version' \in Nat,
         version <= version' \/ rewound', tokens' \in [Rows' -> Token],
         \A t \in Rows' : \E u \in Rows : /\ tokens'[t].version = tokens[u].version
                                          /\ tokens'[t].signIn = tokens[u].signIn
  PROVE  Outdated'
<1>. SUFFICES ASSUME ~rewound'
     PROVE  Outdated'
  BY DEF Outdated
<1>1. ~rewound /\ version <= version' /\ version \in Nat /\ version' \in Nat
  BY DEF Shape, TypeOK
<1>2. /\ \A u \in Rows : tokens[u].version \in Nat
      /\ ending.version \in Nat
  BY DEF Shape, TypeOK, Rows, Token, Ending
<1>3. \A t \in Rows' : tokens'[t].version <= version'
  BY <1>1, <1>2 DEF Outdated
<1>4. \A t \in Rows' : tokens'[t].signIn \in ended' => tokens'[t].version < version'
  BY <1>1, <1>2 DEF Outdated
<1>5. ending'.step # "idle" =>
        \A t \in Rows' : tokens'[t].signIn \in ending'.covers => tokens'[t].version <= ending'.version
  BY <1>1 DEF Outdated
<1>6. ending'.step \in {"revoke", "insert"} => ending'.version < version'
  BY <1>1, <1>2 DEF Outdated
<1>. QED BY <1>3, <1>4, <1>5, <1>6 DEF Outdated

\* Between the check and the insertion no step touches the version a renewal carries.
LEMMA CarriesStep ==
  ASSUME Shape, Behind, Next, NEW c \in Calls
  PROVE  Carries(c)'
<1>. DEFINE Checked == Steps \ {"limit", "user", "link", "answer"}
            Stays(d) == \/ call'[d] = call[d]
                        \/ call'[d].step \notin Checked
                        \/ /\ call[d].step \in Checked
                           /\ call'[d].version = call[d].version /\ call'[d].token = call[d].token
                        \/ /\ call'[d].version = Row(d).version /\ call'[d].token = call[d].token
                           /\ call[d].step = "user"
<1>0. RowsKept /\ call \in [Calls -> Call]
  BY RowsStay DEF Shape, TypeOK
<1>1. ASSUME NEW d \in Calls, RenewalStep(d), d # c
      PROVE  Stays(c)
  <2>1. \A b : Free(b).step = "idle"
    BY DEF Free
  <2>2. call'[c] = call[c] \/ call'[c].step = "idle"
    BY <1>0, <1>1, <2>1 DEF RenewalStep, Limit, ReadUser, ReadRow, Claim, Reread, RevokeOnReuse, BumpOnReuse,
       Insert, Link, Answer, Goes, Refused, Limited
  <2>. QED BY <2>2 DEF Steps
<1>2. ASSUME RenewalStep(c)
      PROVE  Stays(c)
  <2>1. \A b : Free(b).step = "idle"
    BY DEF Free
  <2>2. ASSUME NEW s, Goes(c, s)
        PROVE  call'[c].version = call[c].version /\ call'[c].token = call[c].token /\ call'[c].step = s
    BY <1>0, <2>2 DEF Goes, Call
  <2>3. Refused(c) => call'[c].step = "answer"
    BY <1>0 DEF Refused, Call
  <2>4. CASE Limit(c) \/ Answer(c) \/ BumpOnReuse(c) \/ Link(c)
    <3>1. call'[c].step \in {"user", "idle", "answer"}
      BY <2>1, <2>2, <2>3, <2>4 DEF Limit, Answer, BumpOnReuse, Link, Limited
    <3>. QED BY <3>1 DEF Steps
  <2>5. CASE ReadUser(c)
    <3>1. CASE Row(c).version = version
      BY <1>0, <2>5, <3>1 DEF ReadUser, Call, At
    <3>2. CASE Row(c).version # version
      BY <2>3, <2>5, <3>2 DEF ReadUser
    <3>. QED BY <3>1, <3>2
  <2>6. CASE ReadRow(c) \/ Claim(c) \/ Reread(c) \/ RevokeOnReuse(c)
    <3>1. call[c].step \in Checked /\ (Refused(c) \/ \E s : Goes(c, s))
      BY <2>6 DEF ReadRow, Claim, Reread, RevokeOnReuse, At, Steps
    <3>. QED BY <2>2, <2>3, <3>1
  <2>7. CASE Insert(c)
    BY <1>0, <2>7 DEF Insert, Call
  <2>. QED BY <1>2, <2>4, <2>5, <2>6, <2>7 DEF RenewalStep
<1>3. ASSUME NEW b \in Browsers, NEW d \in Calls, Renew(b, d)
      PROVE  Stays(c)
  <2>1. CASE d = c
    <3>1. call'[c].step \in {"waiting", "limit"}
      BY <1>0, <1>3, <2>1 DEF Renew, Free, Joins
    <3>. QED BY <3>1 DEF Steps
  <2>2. CASE d # c
    BY <1>0, <1>3, <2>2 DEF Renew
  <2>. QED BY <2>1, <2>2
<1>4. ASSUME UNCHANGED call
      PROVE  Stays(c)
  BY <1>4
<1>5. \/ \E d \in Calls : RenewalStep(d)
      \/ \E b \in Browsers, d \in Calls : Renew(b, d)
      \/ UNCHANGED call
  BY DEF Next, SignIn, EndBrowser, GraceEnds, EndAll, WriteVersion, RevokeAll, KeepBrowser
<1>6. Stays(c)
  BY <1>1, <1>2, <1>3, <1>4, <1>5
<1>7. call[c].step # "idle" => call[c].token \in Rows
  BY DEF Shape, CallOK
<1>8. Carries(c)
  BY DEF Behind
<1>. QED BY <1>0, <1>6, <1>7, <1>8 DEF Carries, RowsKept, Row, Steps

\* Every new row is as old as the version, or descends from a row that is.
LEMMA OutdatedStep ==
  ASSUME Shape, Behind, Next, Shape'
  PROVE  Outdated'
<1>0. /\ RowsKept /\ Outdated /\ issued \in Nat /\ version \in Nat /\ version' \in Nat
      /\ tokens' \in [Rows' -> Token] /\ tokens \in [Rows -> Token] /\ ending \in Ending
  BY RowsStay DEF Shape, TypeOK, Rows, Behind
<1>1. ASSUME UNCHANGED <<ending, ended>>, rewound => rewound', version <= version' \/ rewound', Rows' = Rows
      PROVE  Outdated'
  BY <1>0, <1>1, OutdatedKept DEF RowsKept
<1>2. ASSUME NEW c \in Calls, RenewalStep(c)
      PROVE  Outdated'
  <2>1. CASE Insert(c)
    <3>1. Inserts(NewRow(call[c].version, Row(c).signIn)) /\ UNCHANGED <<version, ending, ended, rewound>>
      BY <2>1 DEF Insert, VersionOf
    <3>2. call[c].version = Row(c).version /\ call[c].token \in Rows
      BY <2>1 DEF Insert, At, Behind, Carries, Steps, Shape, CallOK
    <3>3. \A t \in Rows' : \E u \in Rows : /\ tokens'[t].version = tokens[u].version
                                           /\ tokens'[t].signIn = tokens[u].signIn
      BY <1>0, <3>1, <3>2, InsertsOne DEF NewRow, Row
    <3>. QED BY <1>0, <3>1, <3>3, OutdatedKept
  <2>2. CASE BumpOnReuse(c)
    <3>1. /\ UNCHANGED <<issued, ending, ended>> /\ (rewound => rewound')
          /\ version' < version => rewound'
      BY <2>2 DEF BumpOnReuse, SetVersion
    <3>2. version <= version' \/ rewound'
      BY <1>0, <3>1
    <3>. QED BY <1>1, <3>1, <3>2 DEF Rows
  <2>3. CASE ~Insert(c) /\ ~BumpOnReuse(c)
    <3>1. UNCHANGED <<issued, version, ending, ended, rewound>>
      BY <1>2, <2>3 DEF RenewalStep, Limit, ReadUser, ReadRow, Claim, Reread, RevokeOnReuse, Link, Answer, OnlyCall
    <3>. QED BY <1>0, <1>1, <3>1 DEF Rows
  <2>. QED BY <2>1, <2>2, <2>3
<1>3. CASE \/ \E b \in Browsers, c \in Calls : Renew(b, c)
           \/ \E t \in Rows : GraceEnds(t)
           \/ \E b \in Browsers : EndBrowser(b)
  <2>1. UNCHANGED <<issued, version, ending, ended, rewound>>
    BY <1>3 DEF Renew, GraceEnds, EndBrowser
  <2>. QED BY <1>0, <1>1, <2>1 DEF Rows
<1>4. ASSUME NEW b \in Browsers, SignIn(b)
      PROVE  Outdated'
  <2>1. Inserts(NewRow(version, issued + 1)) /\ UNCHANGED <<version, ending, ended, rewound>>
    BY <1>4 DEF SignIn
  <2>2. issued + 1 \notin ended /\ issued + 1 \notin ending.covers
    BY <1>0 DEF Shape, EndingOK, Rows
  <2>. QED BY <1>0, <2>1, <2>2, InsertsOne DEF Outdated, NewRow
<1>5. ASSUME NEW kind \in Kinds, NEW b \in Browsers, EndAll(kind, b)
      PROVE  Outdated'
  <2>1. ending'.version = version /\ ending'.step = "write" /\ UNCHANGED <<version, tokens, issued, ended, rewound>>
    BY <1>5 DEF EndAll
  <2>. QED BY <1>0, <2>1 DEF Outdated, Rows
<1>6. CASE WriteVersion
  <2>1. /\ ending'.covers = ending.covers /\ ending'.version = ending.version /\ ending'.step = "revoke"
        /\ ending.step = "write" /\ version' = ending.version + 1 /\ (rewound => rewound')
        /\ version' < version => rewound'
        /\ UNCHANGED <<tokens, issued, ended>>
    BY <1>0, <1>6 DEF WriteVersion, SetVersion, Ending
  <2>2. \A t \in Rows : tokens[t].version \in Nat
    BY <1>0 DEF Token
  <2>3. ending.version \in Nat
    BY <1>0 DEF Ending
  <2>4. ~rewound' => ~rewound /\ version <= version' /\ ending'.version < version'
    BY <1>0, <2>1, <2>3
  <2>5. ~rewound' => /\ \A t \in Rows : tokens[t].version <= version'
                     /\ \A t \in Rows : tokens[t].signIn \in ended => tokens[t].version < version'
                     /\ \A t \in Rows : tokens[t].signIn \in ending.covers => tokens[t].version <= ending.version
    BY <1>0, <2>1, <2>2, <2>4 DEF Outdated
  <2>. QED BY <2>1, <2>4, <2>5 DEF Outdated, Rows
<1>7. CASE RevokeAll
  <2>1. UNCHANGED <<version, issued, rewound>>
    BY <1>7 DEF RevokeAll
  <2>2. ending.step = "revoke" /\
        \/ ended' = ended /\ ending'.covers = ending.covers /\ ending'.version = ending.version
        \/ ended' = ended \cup ending.covers /\ ending'.step = "idle"
    BY <1>0, <1>7 DEF RevokeAll, Returns, Quiet, Ending
  <2>3. \A t \in Rows : tokens[t].version \in Nat /\ ending.version \in Nat
    BY <1>0 DEF Token, Ending
  <2>. QED BY <1>0, <2>1, <2>2, <2>3 DEF Outdated, Rows, RowsKept
<1>8. CASE KeepBrowser
  <2>1. /\ Inserts(NewRow(version, issued + 1)) /\ UNCHANGED <<version, rewound>>
        /\ ending.step = "insert" /\ ending'.step = "idle" /\ ended' = ended \cup ending.covers
    BY <1>8 DEF KeepBrowser, Returns, Quiet
  <2>2. issued + 1 \notin ended'
    BY <1>0, <2>1 DEF Shape, EndingOK, Rows
  <2>3. \A t \in Rows : tokens[t].version \in Nat /\ ending.version \in Nat
    BY <1>0 DEF Token, Ending
  <2>. QED BY <1>0, <2>1, <2>2, <2>3, InsertsOne DEF Outdated, NewRow
<1>. QED BY <1>2, <1>3, <1>4, <1>5, <1>6, <1>7, <1>8 DEF Next, Rows

\* However sign-outs and renewals overlap, and however many browsers there are:
\* what logout, resetPassword or changePassword ended, nobody renews again.
THEOREM SignOutLasts == Spec => []EndedStaysEnded
<1>1. Init => Shape /\ Behind
  <2>1. ASSUME Init
        PROVE  Behind
    BY <2>1 DEF Init, Behind, Carries, Outdated, Rows, Free, Quiet, Steps
  <2>. QED BY <2>1, InitShape
<1>2. Shape /\ Behind /\ [Next]_vars => Shape' /\ Behind'
  <2>1. ASSUME Shape, Behind, Next
        PROVE  Shape' /\ Behind'
    BY <2>1, ShapeStep, CarriesStep, OutdatedStep DEF Behind
  <2>2. ASSUME Shape, Behind, UNCHANGED vars
        PROVE  Shape' /\ Behind'
    <3>1. Behind'
      BY <2>2 DEF vars, Behind, Carries, Outdated, Rows, Row
    <3>. QED BY <2>2, <3>1, ShapeStep
  <2>. QED BY <2>1, <2>2
<1>3. Shape /\ Behind => EndedStaysEnded
  <2>1. ASSUME Shape, Behind, ~rewound, NEW t \in Rows, Alive(t)
        PROVE  tokens[t].signIn \notin ended
    <3>1. tokens[t].version = version /\ version \in Nat
      BY <2>1 DEF Alive, Shape, TypeOK
    <3>. QED BY <2>1, <3>1 DEF Behind, Outdated
  <2>. QED BY <2>1 DEF EndedStaysEnded, Rows
<1>. QED BY <1>1, <1>2, <1>3, PTL DEF Spec

-----------------------------------------------------------------------------
(* Why the tabs of one browser raise no false alarm: the token a renewal    *)
(* presents, and whatever the browser holds meanwhile, either still waits   *)
(* for its first use or was replaced by one that does.                      *)

\* With two browsers a shared renewal hands one the token of the other, and the alarm can be false.
OneBrowser == \A a, b \in Browsers : a = b

\* Presented again within its grace, the token passes as a retry.
Safe(t) == tokens[t].used = "recent" /\ ~tokens[t].revoked /\ tokens[t].next # None =>
             tokens[tokens[t].next].used = "unused" /\ ~tokens[tokens[t].next].revoked

\* Fresh from a sign-in: it replaces nothing.
Unlinked(t) == tokens[t].used = "unused" /\ \A u \in Rows : tokens[u].next # t

LeaderOK(c) ==
  /\ Safe(call[c].token)
  /\ \A b \in Browsers : cookie[b] \in {None, call[c].token} \/ Unlinked(cookie[b])
  /\ call[c].step = "reread" => Row(c).used # "unused" \/ Row(c).revoked
  /\ call[c].step \notin {"limit", "user", "answer"} /\ Row(c).used = "old" => late
  /\ call[c].step \in {"revoke", "bump"} => late
  /\ call[c].step = "link" =>
       /\ \A b \in Browsers : cookie[b] # call[c].new
       /\ tokens[call[c].new].revoked => Row(c).revoked
  /\ call[c].step \in {"insert", "link"} => Row(c).used # "unused"
  /\ call[c].step \in {"link", "answer"} /\ call[c].new # None =>
       tokens[call[c].new].used = "unused" /\ call[c].new # call[c].token

UnusedIsLast == \A t \in Rows : tokens[t].used = "unused" => tokens[t].next = None
HeldIsSafe == \A b \in Browsers : cookie[b] # None => Safe(cookie[b])

AlarmInv == NoFalseAlarm /\ UnusedIsLast /\ HeldIsSafe /\ \A c \in Calls : Leads(c) => LeaderOK(c)

\* While somebody renews, nobody else begins to.
LEMMA OthersWait ==
  ASSUME Shape, NEW c \in Calls, RenewalStep(c)
  PROVE  Leads(c) /\ \A d \in Calls : d # c => ~Leads(d)'
<1>1. Leads(c)
  BY DEF RenewalStep, Limit, ReadUser, ReadRow, Claim, Reread, RevokeOnReuse, BumpOnReuse,
     Insert, Link, Answer, At, Leads, Steps
<1>2. ASSUME NEW d \in Calls, d # c
      PROVE  ~Leads(d)'
  <2>1. ~Leads(d) /\ call \in [Calls -> Call]
    BY <1>1, <1>2 DEF Shape, OneLeader, TypeOK
  <2>2. \A b : Free(b).step = "idle"
    BY DEF Free
  <2>3. call'[d] = call[d] \/ call'[d].step = "idle"
    BY <1>2, <2>1, <2>2 DEF RenewalStep, Limit, ReadUser, ReadRow, Claim, Reread, RevokeOnReuse, BumpOnReuse,
       Insert, Link, Answer, Goes, Refused, Limited
  <2>. QED BY <2>1, <2>3 DEF Leads, Steps
<1>. QED BY <1>1, <1>2

\* A renewal that leaves the rows and the cookies alone.
LEMMA AlarmLooks ==
  ASSUME Shape, AlarmInv, NEW c \in Calls, RenewalStep(c),
         UNCHANGED <<tokens, issued, cookie, alarm>>, late => late',
         Leads(c)' => LeaderOK(c)'
  PROVE  AlarmInv'
BY OthersWait DEF AlarmInv, NoFalseAlarm, UnusedIsLast, HeldIsSafe, Safe, Rows

\* Looking up the person, the row, and the row again.
LEMMA AlarmReads ==
  ASSUME Shape, AlarmInv, NEW c \in Calls,
         Limit(c) \/ ReadUser(c) \/ ReadRow(c) \/ Reread(c) \/ BumpOnReuse(c)
  PROVE  AlarmInv'
<1>0. /\ RenewalStep(c) /\ Leads(c) /\ LeaderOK(c) /\ call \in [Calls -> Call]
      /\ UNCHANGED <<tokens, issued, cookie, alarm>> /\ (late => late')
  <2>1. RenewalStep(c)
    BY DEF RenewalStep
  <2>2. UNCHANGED <<tokens, issued, cookie, alarm>>
    BY DEF Limit, ReadUser, ReadRow, Reread, BumpOnReuse, OnlyCall
  <2>3. late => late'
    <3>1. CASE ReadUser(c)
      BY <3>1 DEF ReadUser
    <3>2. CASE ~ReadUser(c)
      BY <3>2 DEF Limit, ReadRow, Reread, BumpOnReuse, OnlyCall
    <3>. QED BY <3>1, <3>2
  <2>. QED BY <2>1, <2>2, <2>3, OthersWait DEF AlarmInv, Shape, TypeOK
<1>1. ASSUME NEW s, Goes(c, s)
      PROVE  call'[c].token = call[c].token /\ call'[c].new = call[c].new /\ call'[c].step = s
  BY <1>0, <1>1 DEF Goes, Call
<1>2. ASSUME Refused(c)
      PROVE  call'[c].token = call[c].token /\ call'[c].new = None /\ call'[c].step = "answer"
  BY <1>0, <1>2 DEF Refused, Call
<1>3. ASSUME call'[c].token = call[c].token, Leads(c)',
             call'[c].step \in {"answer", "link"} => call'[c].new = None,
             call'[c].step # "link",
             call'[c].step = "reread" => Row(c).used # "unused" \/ Row(c).revoked,
             call'[c].step \notin {"limit", "user", "answer"} /\ Row(c).used = "old" => late',
             call'[c].step \in {"revoke", "bump"} => late',
             call'[c].step = "insert" => Row(c).used # "unused"
      PROVE  AlarmInv'
  <2>1. LeaderOK(c)'
    <3>1. Safe(call[c].token)' /\ Row(c)' = Row(c)
      BY <1>0, <1>3 DEF LeaderOK, Safe, Row
    <3>2. \A b \in Browsers : cookie'[b] \in {None, call'[c].token} \/ Unlinked(cookie[b])'
      BY <1>0, <1>3 DEF LeaderOK, Unlinked, Rows
    <3>. QED BY <1>0, <1>3, <3>1, <3>2 DEF LeaderOK
  <2>. QED BY <1>0, <2>1, AlarmLooks
<1>4. ASSUME Refused(c)
      PROVE  AlarmInv'
  BY <1>2, <1>3, <1>4 DEF Leads, Steps
<1>5. CASE Limit(c)
  <2>1. CASE Goes(c, "user")
    BY <1>1, <1>3, <2>1 DEF Leads, Steps
  <2>2. CASE call' = Limited(c)
    <3>1. ~Leads(c)'
      BY <2>2 DEF Limited, Leads, Free, Steps
    <3>. QED BY <1>0, <3>1, AlarmLooks
  <2>. QED BY <1>5, <2>1, <2>2 DEF Limit
<1>6. CASE ReadUser(c)
  <2>1. CASE Row(c).version = version
    <3>1. call'[c].step = "row" /\ call'[c].token = call[c].token
      BY <1>0, <1>6, <2>1 DEF ReadUser, Call
    <3>2. Row(c).used = "old" => late'
      BY <1>6 DEF ReadUser
    <3>. QED BY <1>3, <3>1, <3>2 DEF Leads, Steps
  <2>2. CASE Row(c).version # version
    BY <1>4, <1>6, <2>2 DEF ReadUser
  <2>. QED BY <2>1, <2>2
<1>7. CASE ReadRow(c)
  <2>1. CASE Refused(c)
    BY <1>4, <2>1
  <2>2. CASE Goes(c, "claim")
    <3>1. call[c].step = "row" /\ (Row(c).used = "old" => late')
      BY <1>0, <1>7 DEF ReadRow, At, LeaderOK
    <3>. QED BY <1>1, <1>3, <2>2, <3>1 DEF Leads, Steps
  <2>. QED BY <1>7, <2>1, <2>2 DEF ReadRow
<1>8. CASE Reread(c)
  <2>0. call[c].step = "reread" /\ (Row(c).used = "old" => late') /\ (Row(c).used # "unused" \/ Row(c).revoked)
    BY <1>0, <1>8 DEF Reread, At, LeaderOK
  <2>1. CASE Refused(c)
    BY <1>4, <2>1
  <2>2. CASE Benign(Row(c)) /\ Goes(c, "insert")
    <3>1. Row(c).used # "unused"
      BY <2>2 DEF Benign
    <3>. QED BY <1>1, <1>3, <2>0, <2>2, <3>1 DEF Leads, Steps
  <2>3. CASE ~Row(c).revoked /\ ~Benign(Row(c)) /\ Goes(c, "revoke")
    <3>1. Row(c).used # "recent"
      BY <1>0, <2>3 DEF LeaderOK, Safe, Benign, Row
    <3>2. Row(c).used \in {"unused", "recent", "old"}
      BY <1>0, <2>0 DEF Shape, TypeOK, CallOK, Leads, Steps, Row, Rows, Token, Grace
    <3>3. late'
      BY <2>0, <2>3, <3>1, <3>2
    <3>. QED BY <1>1, <1>3, <2>3, <3>3 DEF Leads, Steps
  <2>. QED BY <1>8, <2>1, <2>2, <2>3 DEF Reread
<1>9. CASE BumpOnReuse(c)
  BY <1>4, <1>9 DEF BumpOnReuse
<1>. QED BY <1>5, <1>6, <1>7, <1>8, <1>9

\* The one conditional UPDATE that claims a token.
LEMMA AlarmClaims ==
  ASSUME Shape, AlarmInv, NEW c \in Calls, Claim(c)
  PROVE  AlarmInv'
<1>. DEFINE k == call[c].token
<1>0. /\ RenewalStep(c) /\ Leads(c) /\ LeaderOK(c) /\ call[c].step = "claim" /\ k \in Rows
      /\ call \in [Calls -> Call] /\ tokens \in [Rows -> Token] /\ \A b \in Browsers : cookie[b] \in Rows \cup {None}
      /\ \A d \in Calls : d # c => ~Leads(d)'
  <2>1. RenewalStep(c) /\ call[c].step = "claim"
    BY DEF RenewalStep, Claim, At
  <2>2. \A b \in Browsers : cookie[b] \in Rows \cup {None}
    BY MaxTokensAssumption DEF Shape, TypeOK, Rows, None
  <2>. QED BY <2>1, <2>2, OthersWait DEF AlarmInv, Shape, TypeOK, CallOK, Steps, Rows
<1>1. CASE Claimable(c)
  <2>1. /\ tokens' = [tokens EXCEPT ![k].used = "recent"] /\ Goes(c, "insert")
        /\ UNCHANGED <<issued, cookie, alarm, late>>
    BY <1>1 DEF Claim
  <2>2. /\ tokens[k].used = "unused" /\ tokens[k].next = None
    BY <1>0, <1>1 DEF Claimable, Row, AlarmInv, UnusedIsLast
  <2>3. /\ tokens'[k].used = "recent" /\ tokens'[k].next = None /\ tokens'[k].revoked = tokens[k].revoked
        /\ \A t \in Rows : t # k => tokens'[t] = tokens[t]
        /\ \A t \in Rows : tokens'[t].next = tokens[t].next
        /\ call'[c].step = "insert" /\ call'[c].token = k
    BY <1>0, <2>1, <2>2 DEF Goes, Call, Token
  <2>4. Safe(k)'
    BY <2>3 DEF Safe
  <2>5. \A b \in Browsers : cookie[b] \in {None, k} \/ (Unlinked(cookie[b])' /\ Safe(cookie[b])')
    <3>1. ASSUME NEW b \in Browsers, cookie[b] \notin {None, k}
          PROVE  Unlinked(cookie[b])' /\ Safe(cookie[b])'
      <4>1. Unlinked(cookie[b]) /\ cookie[b] \in Rows
        BY <1>0, <3>1 DEF LeaderOK
      <4>2. tokens'[cookie[b]].used = "unused" /\ \A u \in Rows' : tokens'[u].next # cookie[b]
        BY <2>1, <2>3, <3>1, <4>1 DEF Unlinked, Rows
      <4>. QED BY <2>1, <4>2 DEF Unlinked, Safe
    <3>. QED BY <3>1
  <2>6. LeaderOK(c)'
    <3>1. Row(c)' = tokens'[k]
      BY <2>3 DEF Row
    <3>. QED BY <2>1, <2>3, <2>4, <2>5, <3>1 DEF LeaderOK
  <2>7. HeldIsSafe'
    BY <2>1, <2>3, <2>4, <2>5 DEF HeldIsSafe, Safe
  <2>8. UnusedIsLast'
    BY <2>1, <2>3 DEF AlarmInv, UnusedIsLast, Rows
  <2>9. NoFalseAlarm'
    BY <2>1 DEF AlarmInv, NoFalseAlarm
  <2>. QED BY <1>0, <2>6, <2>7, <2>8, <2>9 DEF AlarmInv
<1>2. CASE ~Claimable(c)
  <2>1. Goes(c, "reread") /\ UNCHANGED <<tokens, issued, cookie, alarm, late>>
    BY <1>2 DEF Claim
  <2>2. call'[c].step = "reread" /\ call'[c].token = k
    BY <1>0, <2>1 DEF Goes, Call
  <2>3. LeaderOK(c)'
    <3>1. Safe(k)' /\ Row(c)' = Row(c) /\ (Row(c).used # "unused" \/ Row(c).revoked) /\ (Row(c).used = "old" => late)
      BY <1>0, <1>2, <2>1, <2>2 DEF LeaderOK, Safe, Row, Claimable
    <3>2. \A b \in Browsers : cookie'[b] \in {None, k} \/ Unlinked(cookie[b])'
      BY <1>0, <2>1 DEF LeaderOK, Unlinked, Rows
    <3>. QED BY <2>1, <2>2, <3>1, <3>2 DEF LeaderOK
  <2>. QED BY <1>0, <2>1, <2>3, AlarmLooks
<1>. QED BY <1>1, <1>2

\* Everything is revoked at once.
LEMMA RevokedIsSafe ==
  ASSUME Shape, AlarmInv, tokens' = RevokedAll, issued' = issued, NEW t \in Rows
  PROVE  Safe(t)' /\ (Unlinked(t) => Unlinked(t)')
<1>1. tokens'[t].revoked /\ tokens'[t].used = tokens[t].used
  BY RevokesRows
<1>2. \A u \in Rows' : tokens'[u].next = tokens[u].next
  BY RevokesRows DEF Rows
<1>. QED BY <1>1, <1>2 DEF Safe, Unlinked, Rows

\* The alarm itself.
LEMMA AlarmRings ==
  ASSUME Shape, AlarmInv, NEW c \in Calls, RevokeOnReuse(c)
  PROVE  AlarmInv'
<1>0. /\ RenewalStep(c) /\ Leads(c) /\ LeaderOK(c) /\ call[c].step = "revoke" /\ call[c].token \in Rows
      /\ call \in [Calls -> Call] /\ \A b \in Browsers : cookie[b] \in Rows \cup {None}
      /\ \A d \in Calls : d # c => ~Leads(d)'
  <2>1. RenewalStep(c) /\ call[c].step = "revoke"
    BY DEF RenewalStep, RevokeOnReuse, At
  <2>2. \A b \in Browsers : cookie[b] \in Rows \cup {None}
    BY MaxTokensAssumption DEF Shape, TypeOK, Rows, None
  <2>. QED BY <2>1, <2>2, OthersWait DEF AlarmInv, Shape, TypeOK, CallOK, Steps
<1>1. tokens' = RevokedAll /\ Goes(c, "bump") /\ UNCHANGED <<issued, cookie, late>> /\ late
  BY <1>0 DEF RevokeOnReuse, LeaderOK
<1>2. call'[c].step = "bump" /\ call'[c].token = call[c].token
  BY <1>0, <1>1 DEF Goes, Call
<1>3. \A t \in Rows : Safe(t)' /\ (Unlinked(t) => Unlinked(t)')
  BY <1>1, RevokedIsSafe
<1>4. LeaderOK(c)'
  <2>1. Safe(call[c].token)'
    BY <1>0, <1>2, <1>3 DEF Safe
  <2>2. \A b \in Browsers : cookie[b] \in {None, call[c].token} \/ Unlinked(cookie[b])'
    BY <1>0, <1>1, <1>3 DEF LeaderOK, Unlinked
  <2>. QED BY <1>1, <1>2, <2>1, <2>2 DEF LeaderOK
<1>5. UnusedIsLast'
  BY <1>1, RevokesRows DEF AlarmInv, UnusedIsLast, Rows
<1>6. HeldIsSafe' /\ NoFalseAlarm'
  BY <1>0, <1>1, <1>3 DEF HeldIsSafe, NoFalseAlarm
<1>. QED BY <1>0, <1>4, <1>5, <1>6 DEF AlarmInv

\* A new row is nobody's replacement yet, and changes nothing for the others.
LEMMA NewRowIsSafe ==
  ASSUME Shape, AlarmInv, NEW v, NEW o, Inserts(NewRow(v, o))
  PROVE  /\ \A t \in Rows : (Safe(t) => Safe(t)') /\ (Unlinked(t) => Unlinked(t)')
         /\ \A t \in Rows' \ Rows : Safe(t)' /\ Unlinked(t)'
         /\ UnusedIsLast'
<1>0. /\ issued \in Nat /\ \A t \in Rows : tokens[t].next \in Rows \cup {None}
  BY MaxTokensAssumption DEF Shape, TypeOK, RowsOK, Rows, None
<1>1. /\ Rows' = Rows \cup {issued + 1} /\ tokens'[issued + 1] = NewRow(v, o)
      /\ issued + 1 \notin Rows /\ \A t \in Rows : tokens'[t] = tokens[t]
  BY <1>0, InsertsOne
<1>2. issued + 1 # None /\ issued' = issued + 1
  BY <1>0 DEF None, Inserts
<1>3. \A t \in Rows : Safe(t) => Safe(t)'
  BY <1>0, <1>1 DEF Safe
<1>4. \A t \in Rows : Unlinked(t) => Unlinked(t)'
  <2>1. \A t \in Rows : t # None
    BY <1>0 DEF Rows, None
  <2>. QED BY <1>1, <2>1 DEF Unlinked, NewRow
<1>5. /\ tokens'[issued + 1].used = "unused" /\ tokens'[issued + 1].next = None
      /\ \A u \in Rows' : tokens'[u].next # issued + 1
  BY <1>0, <1>1, <1>2 DEF NewRow
<1>6. \A t \in Rows' \ Rows : Safe(t)' /\ Unlinked(t)'
  BY <1>1, <1>5 DEF Safe, Unlinked
<1>7. UnusedIsLast'
  BY <1>1, <1>5 DEF AlarmInv, UnusedIsLast
<1>. QED BY <1>3, <1>4, <1>6, <1>7

\* The replacement of a claimed token is inserted.
LEMMA AlarmInserts ==
  ASSUME Shape, Shape', AlarmInv, NEW c \in Calls, Insert(c)
  PROVE  AlarmInv'
<1>0. /\ RenewalStep(c) /\ Leads(c) /\ LeaderOK(c) /\ call[c].step = "insert" /\ call[c].token \in Rows
      /\ call \in [Calls -> Call] /\ (\A b \in Browsers : cookie[b] \in Rows \cup {None}) /\ issued \in Nat
      /\ \A d \in Calls : d # c => ~Leads(d)'
  <2>1. RenewalStep(c) /\ call[c].step = "insert"
    BY DEF RenewalStep, Insert, At
  <2>2. (\A b \in Browsers : cookie[b] \in Rows \cup {None}) /\ issued \in Nat
    BY MaxTokensAssumption DEF Shape, TypeOK, Rows, None
  <2>. QED BY <2>1, <2>2, OthersWait DEF AlarmInv, Shape, TypeOK, CallOK, Steps
<1>1. /\ Inserts(NewRow(call[c].version, Row(c).signIn)) /\ UNCHANGED <<cookie, alarm, late>>
      /\ call'[c].step = "link" /\ call'[c].new = issued + 1 /\ call'[c].token = call[c].token
  BY <1>0 DEF Insert, VersionOf, Call
<1>2. /\ Rows' = Rows \cup {issued + 1} /\ tokens'[issued + 1] = NewRow(call[c].version, Row(c).signIn)
      /\ issued + 1 \notin Rows /\ issued + 1 # None /\ \A t \in Rows : tokens'[t] = tokens[t]
  BY <1>0, <1>1, InsertsOne DEF None
<1>3. UnusedIsLast' /\ \A t \in Rows : (Safe(t) => Safe(t)') /\ (Unlinked(t) => Unlinked(t)')
  BY <1>1, NewRowIsSafe
<1>4. LeaderOK(c)'
  <2>1. Safe(call[c].token)'
    BY <1>0, <1>1, <1>3 DEF LeaderOK, Safe
  <2>2. \A b \in Browsers : cookie'[b] \in {None, call'[c].token} \/ Unlinked(cookie[b])'
    BY <1>0, <1>1, <1>3 DEF LeaderOK, Unlinked
  <2>3. \A b \in Browsers : cookie'[b] # call'[c].new
    BY <1>0, <1>1, <1>2
  <2>4. Row(c)' = Row(c) /\ (Row(c).used = "old" => late) /\ Row(c).used # "unused"
    BY <1>0, <1>1, <1>2 DEF LeaderOK, Row
  <2>5. /\ tokens'[call'[c].new].used = "unused" /\ ~tokens'[call'[c].new].revoked
        /\ call'[c].new # call'[c].token
    BY <1>0, <1>1, <1>2 DEF NewRow
  <2>. QED BY <1>1, <2>1, <2>2, <2>3, <2>4, <2>5 DEF LeaderOK
<1>5. HeldIsSafe' /\ NoFalseAlarm'
  <2>1. \A b \in Browsers : cookie[b] # None => Safe(cookie[b])
    BY DEF AlarmInv, HeldIsSafe
  <2>. QED BY <1>0, <1>1, <1>3, <2>1 DEF AlarmInv, HeldIsSafe, NoFalseAlarm, Safe
<1>. QED BY <1>0, <1>3, <1>4, <1>5 DEF AlarmInv

\* The token learns what replaced it, unless somebody was there before.
LEMMA AlarmLinks ==
  ASSUME Shape, AlarmInv, NEW c \in Calls, Link(c)
  PROVE  AlarmInv'
<1>. DEFINE k == call[c].token
            n == call[c].new
<1>0. /\ RenewalStep(c) /\ Leads(c) /\ LeaderOK(c) /\ call[c].step = "link" /\ k \in Rows /\ n \in Rows /\ n # None
      /\ call \in [Calls -> Call] /\ tokens \in [Rows -> Token]
      /\ \A b \in Browsers : cookie[b] \in Rows \cup {None}
      /\ \A d \in Calls : d # c => ~Leads(d)'
  <2>1. RenewalStep(c) /\ call[c].step = "link"
    BY DEF RenewalStep, Link, At
  <2>2. \A b \in Browsers : cookie[b] \in Rows \cup {None}
    BY MaxTokensAssumption DEF Shape, TypeOK, Rows, None
  <2>3. k \in Rows /\ n \in Rows /\ n # None
    BY <2>1, MaxTokensAssumption DEF Shape, TypeOK, CallOK, Rows, None
  <2>. QED BY <2>1, <2>2, <2>3, OthersWait DEF AlarmInv, Shape, TypeOK, Rows
<1>1. /\ tokens' = [tokens EXCEPT ![k].next = IF @ = None THEN n ELSE @]
      /\ UNCHANGED <<issued, cookie, alarm, late>>
      /\ call'[c].step = "answer" /\ call'[c].new = n /\ call'[c].token = k
  BY <1>0 DEF Link, Goes, Call
<1>2. /\ \A t \in Rows : tokens'[t].used = tokens[t].used /\ tokens'[t].revoked = tokens[t].revoked
      /\ \A t \in Rows : t # k => tokens'[t].next = tokens[t].next
      /\ tokens'[k].next = IF tokens[k].next = None THEN n ELSE tokens[k].next
  BY <1>0, <1>1 DEF Token
<1>3. tokens[n].used = "unused" /\ n # k /\ (tokens[n].revoked => tokens[k].revoked) /\ tokens[k].used # "unused"
  BY <1>0 DEF LeaderOK, Row
<1>4. \A t \in Rows : tokens[t].next \in Rows \cup {None}
  BY MaxTokensAssumption DEF Shape, TypeOK, RowsOK, Rows, None
<1>5. Safe(k)'
  <2>1. CASE tokens[k].next = None
    BY <1>0, <1>1, <1>2, <1>3, <2>1 DEF Safe
  <2>2. CASE tokens[k].next # None
    BY <1>0, <1>1, <1>2, <1>4, <2>2 DEF LeaderOK, Safe
  <2>. QED BY <2>1, <2>2
<1>6. ASSUME NEW b \in Browsers, cookie[b] \notin {None, k}
      PROVE  Unlinked(cookie[b])' /\ Safe(cookie[b])'
  <2>1. Unlinked(cookie[b]) /\ cookie[b] # n /\ cookie[b] \in Rows
    BY <1>0, <1>6 DEF LeaderOK
  <2>2. tokens'[cookie[b]].used = "unused" /\ \A u \in Rows : tokens'[u].next # cookie[b]
    BY <1>2, <2>1 DEF Unlinked
  <2>. QED BY <1>1, <2>2 DEF Unlinked, Safe, Rows
<1>7. LeaderOK(c)'
  BY <1>0, <1>1, <1>2, <1>3, <1>5, <1>6 DEF LeaderOK
<1>8. HeldIsSafe'
  BY <1>1, <1>5, <1>6 DEF HeldIsSafe, Safe
<1>9. UnusedIsLast' /\ NoFalseAlarm'
  BY <1>1, <1>2, <1>3 DEF AlarmInv, UnusedIsLast, NoFalseAlarm, Rows
<1>. QED BY <1>0, <1>7, <1>8, <1>9 DEF AlarmInv

\* The answer hands out a token nobody has used.
LEMMA AlarmAnswers ==
  ASSUME Shape, AlarmInv, NEW c \in Calls, Answer(c)
  PROVE  AlarmInv'
<1>0. RenewalStep(c) /\ Leads(c) /\ LeaderOK(c) /\ call[c].step = "answer" /\ \A d \in Calls : d # c => ~Leads(d)'
  <2>1. RenewalStep(c) /\ call[c].step = "answer"
    BY DEF RenewalStep, Answer, At
  <2>. QED BY <2>1, OthersWait DEF AlarmInv
<1>1. /\ \A b \in Browsers : cookie'[b] \in {cookie[b], call[c].new}
      /\ call' = Limited(c) /\ UNCHANGED <<tokens, issued, alarm, late>>
  BY DEF Answer
<1>2. ~Leads(c)'
  BY <1>1 DEF Limited, Leads, Free, Steps
<1>3. HeldIsSafe'
  BY <1>0, <1>1 DEF AlarmInv, HeldIsSafe, LeaderOK, Safe
<1>4. UnusedIsLast' /\ NoFalseAlarm'
  BY <1>1 DEF AlarmInv, UnusedIsLast, NoFalseAlarm, Rows
<1>. QED BY <1>0, <1>2, <1>3, <1>4 DEF AlarmInv

\* A browser signs in, or in again after the change of its password.
LEMMA AlarmSignsIn ==
  ASSUME Shape, AlarmInv, NEW v, NEW o, Inserts(NewRow(v, o)), UNCHANGED <<call, alarm, late>>,
         \A b \in Browsers : cookie'[b] \in {cookie[b], issued + 1}
  PROVE  AlarmInv'
<1>0. /\ issued \in Nat /\ \A b \in Browsers : cookie[b] \in Rows \cup {None}
      /\ \A c \in Calls : call[c].new \in Rows \cup {None}
  BY MaxTokensAssumption DEF Shape, TypeOK, CallOK, Rows, None
<1>1. /\ Rows' = Rows \cup {issued + 1} /\ tokens'[issued + 1] = NewRow(v, o)
      /\ issued + 1 \notin Rows /\ issued + 1 # None /\ \A t \in Rows : tokens'[t] = tokens[t]
  BY <1>0, InsertsOne DEF None
<1>2. /\ UnusedIsLast' /\ \A t \in Rows : (Safe(t) => Safe(t)') /\ (Unlinked(t) => Unlinked(t)')
      /\ \A t \in Rows' \ Rows : Safe(t)' /\ Unlinked(t)'
  BY NewRowIsSafe
<1>3. ASSUME NEW c \in Calls, Leads(c)
      PROVE  LeaderOK(c)'
  <2>0. LeaderOK(c) /\ call[c].token \in Rows
    BY <1>3 DEF AlarmInv, Shape, CallOK, Leads, Steps
  <2>1. Safe(call[c].token)'
    BY <1>2, <2>0 DEF LeaderOK, Safe
  <2>2. \A b \in Browsers : cookie'[b] \in {None, call'[c].token} \/ Unlinked(cookie[b])'
    BY <1>0, <1>1, <1>2, <2>0 DEF LeaderOK, Unlinked
  <2>3. call[c].step = "link" => \A b \in Browsers : cookie'[b] # call[c].new
    BY <1>0, <1>1, <2>0 DEF LeaderOK
  <2>4. Row(c)' = Row(c)
    BY <1>1, <2>0 DEF Row
  <2>5. call[c].new # None => tokens'[call[c].new] = tokens[call[c].new]
    BY <1>0, <1>1
  <2>6. call[c].step = "link" => call[c].new # None
    BY DEF Shape, CallOK
  <2>. QED BY <2>0, <2>1, <2>2, <2>3, <2>4, <2>5, <2>6 DEF LeaderOK
<1>4. HeldIsSafe'
  <2>1. ASSUME NEW b \in Browsers, cookie'[b] # None
        PROVE  Safe(cookie[b])'
    <3>1. CASE cookie'[b] = issued + 1
      BY <1>1, <1>2, <3>1 DEF Safe
    <3>2. CASE cookie'[b] = cookie[b]
      BY <1>0, <1>2, <2>1, <3>2 DEF AlarmInv, HeldIsSafe, Safe
    <3>. QED BY <3>1, <3>2
  <2>. QED BY <2>1 DEF HeldIsSafe
<1>5. NoFalseAlarm'
  BY DEF AlarmInv, NoFalseAlarm
<1>6. \A c \in Calls : Leads(c)' => Leads(c)
  BY DEF Leads
<1>. QED BY <1>2, <1>3, <1>4, <1>5, <1>6 DEF AlarmInv

\* Everything is revoked by a handler that ends every session.
LEMMA AlarmEnds ==
  ASSUME Shape, AlarmInv, RevokeAll
  PROVE  AlarmInv'
<1>0. /\ \A b \in Browsers : cookie[b] \in Rows \cup {None}
      /\ \A c \in Calls : call[c].new \in Rows \cup {None}
  BY MaxTokensAssumption DEF Shape, TypeOK, CallOK, Rows, None
<1>1. /\ tokens' = RevokedAll /\ UNCHANGED <<issued, call, alarm, late>>
      /\ \A b \in Browsers : cookie'[b] \in {cookie[b], None}
  <2>1. tokens' = RevokedAll /\ UNCHANGED <<issued, call, alarm, late>>
    BY DEF RevokeAll
  <2>2. \A b \in Browsers : cookie'[b] \in {cookie[b], None}
    BY DEF RevokeAll, Shape, TypeOK
  <2>. QED BY <2>1, <2>2
<1>2. \A t \in Rows : Safe(t)' /\ (Unlinked(t) => Unlinked(t)')
  BY <1>1, RevokedIsSafe
<1>3. ASSUME NEW c \in Calls, Leads(c)
      PROVE  LeaderOK(c)'
  <2>0. LeaderOK(c) /\ call[c].token \in Rows /\ (call[c].step = "link" => call[c].new \in Rows)
    BY <1>0, <1>3 DEF AlarmInv, Shape, CallOK, Leads, Steps
  <2>1. Safe(call[c].token)'
    BY <1>1, <1>2, <2>0 DEF Safe
  <2>2. \A b \in Browsers : cookie'[b] \in {None, call'[c].token} \/ Unlinked(cookie[b])'
    BY <1>0, <1>1, <1>2, <2>0 DEF LeaderOK, Unlinked
  <2>3. call[c].step = "link" => \A b \in Browsers : cookie'[b] # call[c].new
    BY <1>1, <2>0 DEF LeaderOK, Shape, CallOK
  <2>4. Row(c)'.used = Row(c).used /\ Row(c)'.revoked
    BY <1>1, <2>0, RevokesRows DEF Row
  <2>5. call[c].new # None => tokens'[call[c].new].used = tokens[call[c].new].used
    BY <1>0, <1>1, RevokesRows
  <2>. QED BY <1>1, <2>0, <2>1, <2>2, <2>3, <2>4, <2>5 DEF LeaderOK
<1>4. UnusedIsLast'
  BY <1>1, RevokesRows DEF AlarmInv, UnusedIsLast, Rows
<1>5. HeldIsSafe' /\ NoFalseAlarm'
  BY <1>0, <1>1, <1>2 DEF AlarmInv, HeldIsSafe, NoFalseAlarm, Safe
<1>6. \A c \in Calls : Leads(c)' => Leads(c)
  BY <1>1 DEF Leads
<1>. QED BY <1>3, <1>4, <1>5, <1>6 DEF AlarmInv

\* A token is too old for a retry, when nobody renews.
LEMMA AlarmAges ==
  ASSUME Shape, AlarmInv, NEW t \in Rows, GraceEnds(t)
  PROVE  AlarmInv'
<1>0. tokens \in [Rows -> Token]
  BY DEF Shape, TypeOK, Rows
<1>1. /\ tokens[t].used = "recent" /\ \A c \in Calls : call[c].step = "idle"
      /\ tokens' = [tokens EXCEPT ![t].used = "old"]
      /\ UNCHANGED <<issued, cookie, call, alarm, late>>
  BY DEF GraceEnds, At
<1>2. /\ tokens'[t].used = "old" /\ \A u \in Rows : tokens'[u].next = tokens[u].next
      /\ \A u \in Rows : u # t => tokens'[u] = tokens[u]
  BY <1>0, <1>1 DEF Token
<1>3. \A u \in Rows : Safe(u) => Safe(u)'
  <2>1. \A u \in Rows : tokens[u].next \in Rows \cup {None}
    BY MaxTokensAssumption DEF Shape, TypeOK, RowsOK, Rows, None
  <2>. QED BY <1>1, <1>2, <2>1 DEF Safe
<1>4. \A b \in Browsers : cookie[b] \in Rows \cup {None}
  BY MaxTokensAssumption DEF Shape, TypeOK, Rows, None
<1>5. HeldIsSafe'
  BY <1>1, <1>3, <1>4 DEF AlarmInv, HeldIsSafe, Safe
<1>6. UnusedIsLast' /\ NoFalseAlarm'
  BY <1>1, <1>2 DEF AlarmInv, UnusedIsLast, NoFalseAlarm, Rows
<1>7. \A c \in Calls : ~Leads(c)'
  BY <1>1 DEF Leads, Steps
<1>. QED BY <1>5, <1>6, <1>7 DEF AlarmInv

\* The only browser gives up the token it holds.
LEMMA AlarmLeaves ==
  ASSUME Shape, AlarmInv, OneBrowser, NEW b \in Browsers, EndBrowser(b)
  PROVE  AlarmInv'
<1>. DEFINE h == cookie[b]
<1>0. /\ tokens \in [Rows -> Token] /\ h \in Rows /\ cookie \in [Browsers -> 0..issued]
      /\ \A c \in Calls : call[c].new \in Rows \cup {None}
  BY MaxTokensAssumption DEF EndBrowser, Shape, TypeOK, CallOK, Rows, None
<1>1. /\ tokens' = [tokens EXCEPT ![h].revoked = TRUE] /\ \A o \in Browsers : cookie'[o] = None
      /\ UNCHANGED <<issued, call, alarm, late>> /\ h # None
  BY <1>0 DEF EndBrowser, OneBrowser
<1>2. /\ \A t \in Rows : tokens'[t].next = tokens[t].next /\ tokens'[t].used = tokens[t].used
      /\ \A t \in Rows : t # h => tokens'[t] = tokens[t]
      /\ tokens'[h].revoked
  BY <1>0, <1>1 DEF Token
<1>3. ASSUME NEW c \in Calls, Leads(c)
      PROVE  LeaderOK(c)'
  <2>0. LeaderOK(c) /\ call[c].token \in Rows /\ (call[c].step = "link" => call[c].new \in Rows)
    BY <1>0, <1>3 DEF AlarmInv, Shape, CallOK, Leads, Steps
  <2>1. Safe(call[c].token)'
    <3>1. CASE call[c].token = h
      BY <1>1, <1>2, <3>1 DEF Safe
    <3>2. CASE call[c].token # h
      <4>1. tokens[call[c].token].next # h
        BY <1>1, <2>0, <3>2 DEF LeaderOK, Unlinked
      <4>2. tokens[call[c].token].next \in Rows \cup {None}
        BY <2>0, MaxTokensAssumption DEF Shape, TypeOK, RowsOK, Rows, None
      <4>. QED BY <1>1, <1>2, <2>0, <3>2, <4>1, <4>2 DEF LeaderOK, Safe
    <3>. QED BY <3>1, <3>2
  <2>2. Row(c)'.used = Row(c).used /\ (Row(c).revoked => Row(c)'.revoked)
    BY <1>1, <1>2, <2>0 DEF Row
  <2>3. call[c].step = "link" => call[c].new # h /\ tokens'[call[c].new] = tokens[call[c].new]
    BY <1>2, <2>0 DEF LeaderOK
  <2>4. call[c].new # None => tokens'[call[c].new].used = tokens[call[c].new].used
    BY <1>0, <1>2
  <2>5. call[c].step = "link" => call[c].new # None
    BY DEF Shape, CallOK
  <2>. QED BY <1>1, <2>0, <2>1, <2>2, <2>3, <2>4, <2>5 DEF LeaderOK
<1>4. UnusedIsLast' /\ HeldIsSafe' /\ NoFalseAlarm'
  BY <1>1, <1>2 DEF AlarmInv, UnusedIsLast, HeldIsSafe, NoFalseAlarm, Rows
<1>5. \A c \in Calls : Leads(c)' => Leads(c)
  BY <1>1 DEF Leads
<1>. QED BY <1>3, <1>4, <1>5 DEF AlarmInv

\* The only browser comes with the token it holds.
LEMMA AlarmBegins ==
  ASSUME Shape, AlarmInv, OneBrowser, NEW b \in Browsers, NEW c \in Calls, Renew(b, c)
  PROVE  AlarmInv'
<1>0. call \in [Calls -> Call]
  BY DEF Shape, TypeOK
<1>1. /\ UNCHANGED <<tokens, issued, cookie, alarm, late>> /\ cookie[b] # None
      /\ call'[c].step \in {"limit", "waiting"} /\ call'[c].token = cookie[b]
      /\ \A d \in Calls : d # c => call'[d] = call[d]
  BY <1>0 DEF Renew, Joins, Free
<1>2. ASSUME NEW d \in Calls, Leads(d)'
      PROVE  LeaderOK(d)'
  <2>1. CASE d = c
    <3>1. Safe(cookie[b])
      BY <1>1 DEF AlarmInv, HeldIsSafe
    <3>2. Safe(call[c].token)'
      BY <1>1, <3>1 DEF Safe
    <3>3. call'[c].step = "limit"
      BY <1>1, <1>2, <2>1 DEF Leads, Steps
    <3>4. \A a \in Browsers : cookie'[a] = call'[c].token
      BY <1>1 DEF OneBrowser
    <3>. QED BY <2>1, <3>2, <3>3, <3>4 DEF LeaderOK
  <2>2. CASE d # c
    <3>1. LeaderOK(d) /\ call'[d] = call[d]
      BY <1>1, <1>2, <2>2 DEF AlarmInv, Leads
    <3>. QED BY <1>1, <3>1 DEF LeaderOK, Safe, Unlinked, Row, Rows
  <2>. QED BY <2>1, <2>2
<1>3. UnusedIsLast' /\ HeldIsSafe' /\ NoFalseAlarm'
  BY <1>1 DEF AlarmInv, UnusedIsLast, HeldIsSafe, NoFalseAlarm, Safe, Rows
<1>. QED BY <1>2, <1>3 DEF AlarmInv

\* Steps that touch neither tokens nor cookies nor renewals.
LEMMA AlarmStays ==
  ASSUME AlarmInv, UNCHANGED <<tokens, issued, cookie, call, alarm, late>>
  PROVE  AlarmInv'
<1>1. \A c \in Calls : Leads(c)' => LeaderOK(c)'
  BY DEF AlarmInv, Leads, LeaderOK, Safe, Unlinked, Row, Rows
<1>2. UnusedIsLast' /\ HeldIsSafe' /\ NoFalseAlarm'
  BY DEF AlarmInv, UnusedIsLast, HeldIsSafe, NoFalseAlarm, Safe, Rows
<1>. QED BY <1>1, <1>2 DEF AlarmInv

\* However the tabs of a browser renew at once and whatever answers are lost, the
\* reuse detection of refresh signs nobody out unless a token came back too late.
THEOREM TabsRaiseNoAlarm == ASSUME OneBrowser PROVE Spec => []NoFalseAlarm
<1>1. Init => Shape /\ AlarmInv
  <2>1. ASSUME Init
        PROVE  AlarmInv
    <3>1. Rows = {} /\ alarm = FALSE /\ (\A b \in Browsers : cookie[b] = None) /\ \A c \in Calls : ~Leads(c)
      BY <2>1 DEF Init, Rows, Leads, Free, Steps
    <3>. QED BY <3>1 DEF AlarmInv, NoFalseAlarm, UnusedIsLast, HeldIsSafe
  <2>. QED BY <2>1, InitShape
<1>2. Shape /\ AlarmInv /\ [Next]_vars => Shape' /\ AlarmInv'
  <2>0. ASSUME Shape, AlarmInv, [Next]_vars
        PROVE  Shape'
    BY <2>0, ShapeStep
  <2>1. ASSUME Shape, AlarmInv, NEW c \in Calls, RenewalStep(c), Shape'
        PROVE  AlarmInv'
    BY <2>1, AlarmReads, AlarmClaims, AlarmRings, AlarmInserts, AlarmLinks, AlarmAnswers DEF RenewalStep
  <2>2. ASSUME Shape, AlarmInv, NEW b \in Browsers, SignIn(b)
        PROVE  AlarmInv'
    <3>1. /\ Inserts(NewRow(version, issued + 1)) /\ UNCHANGED <<call, alarm, late>>
          /\ \A a \in Browsers : cookie'[a] \in {cookie[a], issued + 1}
      BY <2>2 DEF SignIn, Shape, TypeOK
    <3>. QED BY <2>2, <3>1, AlarmSignsIn
  <2>3. ASSUME Shape, AlarmInv, KeepBrowser
        PROVE  AlarmInv'
    <3>1. /\ Inserts(NewRow(version, issued + 1)) /\ UNCHANGED <<call, alarm, late>>
          /\ \A a \in Browsers : cookie'[a] \in {cookie[a], issued + 1}
      BY <2>3 DEF KeepBrowser, Shape, TypeOK
    <3>. QED BY <2>3, <3>1, AlarmSignsIn
  <2>4. ASSUME AlarmInv, \/ \E kind \in Kinds, b \in Browsers : EndAll(kind, b)
                         \/ WriteVersion \/ UNCHANGED vars
        PROVE  AlarmInv'
    <3>1. UNCHANGED <<tokens, issued, cookie, call, alarm, late>>
      BY <2>4 DEF EndAll, WriteVersion, vars
    <3>. QED BY <2>4, <3>1, AlarmStays
  <2>5. ASSUME Shape, AlarmInv, \E t \in 1..issued : GraceEnds(t)
        PROVE  AlarmInv'
    BY <2>5, AlarmAges DEF Rows
  <2>. QED BY <2>0, <2>1, <2>2, <2>3, <2>4, <2>5, AlarmEnds, AlarmLeaves, AlarmBegins DEF Next
<1>3. Shape /\ AlarmInv => NoFalseAlarm
  BY DEF AlarmInv
<1>. QED BY <1>1, <1>2, <1>3, PTL DEF Spec
=============================================================================
