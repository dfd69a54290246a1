---------------------------- MODULE AccountSessions ----------------------------
(* api/auth.py, api/account.py and api/deps.py: accounts, one-time codes,       *)
(* sessions and saved settings under simultaneous requests.                     *)
(*                                                                              *)
(* A request that reads, decides and commits is two steps, Begin and Commit,    *)
(* with other requests in between; one without a read that matters is a single  *)
(* step. A code and a session are known by their place in creation order, a     *)
(* token by its session. A code is compared by its hash, taken to be free of    *)
(* collisions. Time is what it does: the cooldown of a code passes, a code      *)
(* expires.                                                                     *)
EXTENDS Naturals, Sequences, FiniteSets, FiniteSetsExt

CONSTANTS
    Emails,         \* addresses people sign up with
    Requests,       \* requests served at once
    MaxAttempts,    \* settings.otp_max_attempts
    Fields,         \* columns of account_settings that one form sets
    Values, Default,        \* of a setting; what a new row has
    MaxCodes, MaxSessions, MaxWrites        \* bounds

ASSUME AccountAssumption ==
    /\ "nobody" \notin Emails
    /\ Default \in Values
    /\ MaxAttempts \in Nat \ {0}

VARIABLES
    account,        \* account[e]: the row of users with that email
    codes,          \* verification_codes
    sessions,       \* account_sessions
    revokedTokens,  \* revoked_tokens, by session
    settings,       \* account_settings of the signed-in user
    loaded,         \* loaded[r]: the settings as r's session loaded them
    asked,          \* ghost: what was last asked for each setting, and answered
    passed,         \* ghost: settings another request committed since r loaded
    contested,      \* ghost: settings last asked for by a request passed on them
    writes,         \* settings requests committed
    request,        \* request[r]: what r is serving
    overlapped      \* ghost: two requests about one account at once

settingsVars == <<settings, loaded, asked, passed, contested, writes>>
accountVars == <<account, codes, sessions, revokedTokens, settingsVars, request, overlapped>>

Signup == "signup_verification"
Login == "login_otp"
NoAccount == [status |-> "none", provider |-> "none", verified |-> FALSE]
Idle == [pc |-> "idle", user |-> "nobody", code |-> 0, typed |-> 0, attempts |-> 0,
         purpose |-> Signup, seen |-> {}]
NoSettings == [stored |-> FALSE, value |-> [f \in Fields |-> Default]]

(* The unused codes of an account for one purpose; a newer code has a higher    *)
(* place.                                                                       *)
Unused(e, purpose) ==
    {k \in 1..Len(codes) : codes[k].user = e /\ codes[k].purpose = purpose /\ ~codes[k].consumed}
Newest(ks) == IF ks = {} THEN 0 ELSE Max(ks)

(* What an account must be for a code of a purpose.                             *)
Eligible(e, purpose) ==
    account[e].status = IF purpose = Signup THEN "pending" ELSE "active"

NewCode(e, purpose) ==
    [user |-> e, purpose |-> purpose, consumed |-> FALSE, attempts |-> 0, fresh |-> TRUE,
     expired |-> FALSE, delivered |-> FALSE, guessed |-> 0, spent |-> 0]

Open(r, e, work) ==
    /\ request[r] = Idle
    /\ request' = [request EXCEPT ![r] = work]
    /\ overlapped' = (overlapped \/ \E q \in Requests : request[q].user = e)
Close(r) == request' = [request EXCEPT ![r] = Idle]

Purposes == {Signup, Login}
Accounts == [status : {"none", "pending", "active"}, provider : {"none", "password", "google"}, verified : BOOLEAN]
Codes == [user : Emails, purpose : Purposes, consumed : BOOLEAN, attempts : Nat, fresh : BOOLEAN,
          expired : BOOLEAN, delivered : BOOLEAN, guessed : Nat, spent : Nat]
Stages == {"signing up", "joining", "mailing", "issuing", "requesting", "verifying", "using", "updating", "creating"}
Calls == [pc : Stages, user : Emails, code : Nat, typed : Nat, attempts : Nat, purpose : Purposes, seen : SUBSET Nat]

(* Type invariant: a request names a code or a session there is.                *)
AccountTypeOK ==
    /\ account \in [Emails -> Accounts]
    /\ codes \in Seq(Codes)
    /\ sessions \in Seq([user : Emails, revoked : BOOLEAN])
    /\ revokedTokens \subseteq 1..Len(sessions)
    /\ request \in [Requests -> {Idle} \cup Calls]
    /\ overlapped \in BOOLEAN
    /\ \A r \in Requests :
        /\ request[r].pc \in {"mailing", "verifying"} => request[r].code \in 1..Len(codes)
        /\ request[r].pc = "using" => request[r].code \in 1..Len(sessions)
Serving(r, pc) == request[r].pc = pc

-------------------------------------------------------------------------------
AccountInit ==
    /\ account = [e \in Emails |-> NoAccount]
    /\ codes = <<>>
    /\ sessions = <<>>
    /\ revokedTokens = {}
    /\ settings = NoSettings
    /\ loaded = [r \in Requests |-> NoSettings.value]
    /\ asked = NoSettings.value
    /\ passed = [r \in Requests |-> {}]
    /\ contested = {}
    /\ writes = 0
    /\ request = [r \in Requests |-> Idle]
    /\ overlapped = FALSE

(* signup: nobody has the address when it is looked up.                         *)
BeginSignup(r, e) ==
    /\ account[e] = NoAccount
    /\ Open(r, e, [Idle EXCEPT !.pc = "signing up", !.user = e])
    /\ UNCHANGED <<account, codes, sessions, revokedTokens, settingsVars>>

(* The account and its first code are committed together, or the unique index   *)
(* on the address refuses both.                                                 *)
CommitSignup(r) ==
    LET e == request[r].user
    IN  /\ Serving(r, "signing up")
        /\ Len(codes) < MaxCodes
        /\ IF account[e] = NoAccount
           THEN /\ account' = [account EXCEPT ![e] = [status |-> "pending", provider |-> "password", verified |-> FALSE]]
                /\ codes' = Append(codes, NewCode(e, Signup))
                /\ request' = [request EXCEPT ![r].pc = "mailing", ![r].code = Len(codes) + 1]
           ELSE Close(r) /\ UNCHANGED <<account, codes>>
        /\ UNCHANGED <<sessions, revokedTokens, settingsVars, overlapped>>

(* google_sign_in for an address nobody has, the identity being verified; one   *)
(* with a password account is refused.                                          *)
BeginGoogle(r, e) ==
    /\ account[e] = NoAccount
    /\ Open(r, e, [Idle EXCEPT !.pc = "joining", !.user = e])
    /\ UNCHANGED <<account, codes, sessions, revokedTokens, settingsVars>>

CommitGoogle(r) ==
    LET e == request[r].user
    IN  /\ Serving(r, "joining")
        /\ IF account[e] = NoAccount
           THEN /\ account' = [account EXCEPT ![e] = [status |-> "active", provider |-> "google", verified |-> TRUE]]
                /\ request' = [request EXCEPT ![r].pc = "issuing"]
           ELSE Close(r) /\ UNCHANGED account
        /\ UNCHANGED <<codes, sessions, revokedTokens, settingsVars, overlapped>>

(* Mutant: the status of the account is not asked.                              *)
Enter_Unverified(r, e, provider) ==
    /\ account[e].provider = provider
    /\ Open(r, e, [Idle EXCEPT !.pc = "issuing", !.user = e])
    /\ UNCHANGED <<account, codes, sessions, revokedTokens, settingsVars>>

(* login, and google_sign_in of a known account: committed, then _token_for.    *)
Enter(r, e, provider) ==
    /\ account[e].status = "active" /\ account[e].provider = provider
    /\ Open(r, e, [Idle EXCEPT !.pc = "issuing", !.user = e])
    /\ UNCHANGED <<account, codes, sessions, revokedTokens, settingsVars>>

-------------------------------------------------------------------------------
(* _issue_otp: the unused codes are read; a fresh one among them refuses.       *)
BeginCode(r, e, purpose) ==
    LET unused == Unused(e, purpose)
    IN  /\ Eligible(e, purpose)
        /\ unused # {} => ~codes[Newest(unused)].fresh
        /\ Open(r, e, [Idle EXCEPT !.pc = "requesting", !.user = e, !.purpose = purpose, !.seen = unused])
        /\ UNCHANGED <<account, codes, sessions, revokedTokens, settingsVars>>

(* They are consumed and the new code is stored, in one commit.                 *)
CommitCode(r) ==
    /\ Serving(r, "requesting")
    /\ Len(codes) < MaxCodes
    /\ codes' = Append([k \in 1..Len(codes) |->
                          [codes[k] EXCEPT !.consumed = @ \/ k \in request[r].seen]],
                       NewCode(request[r].user, request[r].purpose))
    /\ request' = [request EXCEPT ![r].pc = "mailing", ![r].code = Len(codes) + 1]
    /\ UNCHANGED <<account, sessions, revokedTokens, settingsVars, overlapped>>

(* _send_otp_or_raise, after the commit: a mail that fails leaves the code.     *)
Deliver(r, sent) ==
    /\ Serving(r, "mailing")
    /\ codes' = IF sent THEN [codes EXCEPT ![request[r].code].delivered = TRUE] ELSE codes
    /\ Close(r)
    /\ UNCHANGED <<account, sessions, revokedTokens, settingsVars, overlapped>>

Usable(k) == k # 0 /\ ~codes[k].expired /\ codes[k].attempts < MaxAttempts

(* _verify_otp takes the newest unused code; `typed` is a code that was mailed, *)
(* or none of them.                                                             *)
BeginVerify(r, e, purpose, typed) ==
    LET code == Newest(Unused(e, purpose))
    IN  /\ Eligible(e, purpose)
        /\ Usable(code)
        /\ typed # 0 => codes[typed].delivered
        /\ Open(r, e, [Idle EXCEPT !.pc = "verifying", !.user = e, !.purpose = purpose, !.code = code,
                                   !.typed = typed, !.attempts = codes[code].attempts + 1])
        /\ UNCHANGED <<account, codes, sessions, revokedTokens, settingsVars>>

(* Mutant: a wrong guess is answered without a commit.                          *)
CommitVerify_Uncounted(r) ==
    LET q == request[r]
    IN  /\ Serving(r, "verifying")
        /\ IF q.typed # q.code
           THEN codes' = [codes EXCEPT ![q.code].guessed = @ + 1] /\ Close(r) /\ UNCHANGED account
           ELSE /\ codes' = [codes EXCEPT ![q.code].consumed = TRUE, ![q.code].spent = @ + 1]
                /\ account' = IF q.purpose = Signup
                              THEN [account EXCEPT ![q.user].status = "active", ![q.user].verified = TRUE]
                              ELSE account
                /\ request' = [request EXCEPT ![r].pc = "issuing"]
        /\ UNCHANGED <<sessions, revokedTokens, settingsVars, overlapped>>

(* A wrong one commits the attempt; the right one consumes the code and, for a  *)
(* signup, activates the account. The session follows in a commit of its own.   *)
CommitVerify(r) ==
    LET q == request[r]
    IN  /\ Serving(r, "verifying")
        /\ IF q.typed # q.code
           THEN /\ codes' = [codes EXCEPT ![q.code].attempts = q.attempts, ![q.code].guessed = @ + 1]
                /\ Close(r)
                /\ UNCHANGED account
           ELSE /\ codes' = [codes EXCEPT ![q.code].attempts = q.attempts, ![q.code].consumed = TRUE,
                                          ![q.code].spent = @ + 1]
                /\ account' = IF q.purpose = Signup
                              THEN [account EXCEPT ![q.user].status = "active", ![q.user].verified = TRUE]
                              ELSE account
                /\ request' = [request EXCEPT ![r].pc = "issuing"]
        /\ UNCHANGED <<sessions, revokedTokens, settingsVars, overlapped>>

(* _token_for: the session row and its token; or the database fails and what    *)
(* was committed before stands.                                                 *)
Issue(r, stored) ==
    /\ Serving(r, "issuing")
    /\ stored => Len(sessions) < MaxSessions
    /\ sessions' = IF stored THEN Append(sessions, [user |-> request[r].user, revoked |-> FALSE])
                             ELSE sessions
    /\ Close(r)
    /\ UNCHANGED <<account, codes, revokedTokens, settingsVars, overlapped>>

-------------------------------------------------------------------------------
(* get_current_user: the token and its session, both unrevoked.                 *)
Accepted(s) ==
    /\ s \notin revokedTokens
    /\ ~sessions[s].revoked
    /\ account[sessions[s].user].status = "active"

(* A request made with session s passes the check; it is then some handler's.   *)
Access(r, s) ==
    /\ Accepted(s)
    /\ Open(r, sessions[s].user, [Idle EXCEPT !.pc = "using", !.user = sessions[s].user, !.code = s])
    /\ UNCHANGED <<account, codes, sessions, revokedTokens, settingsVars>>

(* The unique index on the token refuses to revoke twice; nothing is stored.    *)
Revoke(s) ==
    IF s \in revokedTokens THEN UNCHANGED <<revokedTokens, sessions>>
    ELSE /\ revokedTokens' = revokedTokens \cup {s}
         /\ sessions' = [sessions EXCEPT ![s].revoked = TRUE]

Logout(r) ==
    /\ Serving(r, "using")
    /\ Revoke(request[r].code)
    /\ Close(r)
    /\ UNCHANGED <<account, codes, settingsVars, overlapped>>

(* revoke_other_session: any of the user's sessions but the current one.        *)
RevokeOther(r, s) ==
    /\ Serving(r, "using")
    /\ s # request[r].code /\ sessions[s].user = request[r].user
    /\ ~sessions[s].revoked
    /\ Revoke(s)
    /\ Close(r)
    /\ UNCHANGED <<account, codes, settingsVars, overlapped>>

(* update_profile and update_preferences: the row is looked up, created if      *)
(* missing.                                                                     *)
BeginSettings(r) ==
    /\ Serving(r, "using")
    /\ request' = [request EXCEPT ![r].pc = IF settings.stored THEN "updating" ELSE "creating"]
    /\ loaded' = [loaded EXCEPT ![r] = settings.value]
    /\ UNCHANGED <<account, codes, sessions, revokedTokens, settings, asked, passed, contested, writes,
                   overlapped>>

Editing(r) == Serving(r, "updating") \/ Serving(r, "creating")

(* Mutant: the row is written as it was loaded, with the fields of the request.  *)
CommitSettings_WholeRow(r, fs, new) ==
    /\ Serving(r, "updating") \/ (Serving(r, "creating") /\ ~settings.stored)
    /\ writes < MaxWrites
    /\ writes' = writes + 1
    /\ settings' = [stored |-> TRUE, value |-> [f \in Fields |-> IF f \in fs THEN new[f] ELSE loaded[r][f]]]
    /\ asked' = [f \in Fields |-> IF f \in fs THEN new[f] ELSE asked[f]]
    /\ passed' = [q \in Requests |-> IF q # r /\ Editing(q) THEN passed[q] \cup fs ELSE {}]
    /\ contested' = (contested \ fs) \cup (fs \cap passed[r])
    /\ loaded' = [loaded EXCEPT ![r] = NoSettings.value]
    /\ Close(r)
    /\ UNCHANGED <<account, codes, sessions, revokedTokens, overlapped>>

(* The fields of the request are set and committed: the ORM writes a column only *)
(* if its value differs from the one that was loaded.                            *)
CommitSettings(r, fs, new) ==
    /\ Serving(r, "updating") \/ (Serving(r, "creating") /\ ~settings.stored)
    /\ writes < MaxWrites
    /\ writes' = writes + 1
    /\ settings' = [stored |-> TRUE,
                    value |-> [f \in Fields |-> IF f \in fs /\ new[f] # loaded[r][f] THEN new[f]
                                                                                     ELSE settings.value[f]]]
    /\ asked' = [f \in Fields |-> IF f \in fs THEN new[f] ELSE asked[f]]
    /\ passed' = [q \in Requests |-> IF q # r /\ Editing(q) THEN passed[q] \cup fs ELSE {}]
    /\ contested' = (contested \ fs) \cup (fs \cap passed[r])
    /\ loaded' = [loaded EXCEPT ![r] = NoSettings.value]
    /\ Close(r)
    /\ UNCHANGED <<account, codes, sessions, revokedTokens, overlapped>>

(* A handler that stores nothing here, or one whose INSERT lost.                *)
Leave(r) ==
    /\ Serving(r, "using") \/ (Serving(r, "creating") /\ settings.stored)
    /\ loaded' = [loaded EXCEPT ![r] = NoSettings.value]
    /\ passed' = [passed EXCEPT ![r] = {}]
    /\ Close(r)
    /\ UNCHANGED <<account, codes, sessions, revokedTokens, settings, asked, contested, writes, overlapped>>

(* Time: a code leaves its cooldown, a code expires.                            *)
Cool(k) == codes[k].fresh /\ codes' = [codes EXCEPT ![k].fresh = FALSE]
Expire(k) == ~codes[k].expired /\ codes' = [codes EXCEPT ![k].expired = TRUE]
Time ==
    /\ \E k \in 1..Len(codes) : Cool(k) \/ Expire(k)
    /\ UNCHANGED <<account, sessions, revokedTokens, settingsVars, request, overlapped>>

AccountNext ==
    \/ \E r \in Requests, e \in Emails :
        \/ BeginSignup(r, e) \/ BeginGoogle(r, e)
        \/ \E provider \in {"password", "google"} : Enter(r, e, provider)
        \/ \E purpose \in {Signup, Login} :
            \/ BeginCode(r, e, purpose)
            \/ \E typed \in {0} \cup Unused(e, purpose) : BeginVerify(r, e, purpose, typed)
    \/ \E r \in Requests :
        \/ CommitSignup(r) \/ CommitGoogle(r) \/ CommitCode(r) \/ CommitVerify(r)
        \/ \E ok \in BOOLEAN : Deliver(r, ok) \/ Issue(r, ok)
        \/ \E s \in 1..Len(sessions) : Access(r, s) \/ RevokeOther(r, s)
        \/ Logout(r) \/ BeginSettings(r) \/ Leave(r)
        \/ \E fs \in (SUBSET Fields) \ {{}} : \E new \in [fs -> Values] : CommitSettings(r, fs, new)
    \/ Time

AccountSpec == AccountInit /\ [][AccountNext]_accountVars

-------------------------------------------------------------------------------
(* One code signs in once, and no code takes more wrong guesses than allowed,   *)
(* as long as the requests about an account come one at a time.                 *)
CodesAreSpentOnce ==
    ~overlapped => \A k \in 1..Len(codes) : codes[k].spent <= 1
GuessesAreBounded ==
    ~overlapped => \A k \in 1..Len(codes) : codes[k].guessed <= MaxAttempts

(* A new code leaves no older one usable: whichever is unused is the last sent. *)
OneCodeOpen ==
    ~overlapped => \A e \in Emails, purpose \in {Signup, Login} : Cardinality(Unused(e, purpose)) <= 1

(* The codes of an account guard it: one open at a time, spent once, and guessed *)
(* no oftener than allowed.                                                      *)
CodesGuardTheAccount == CodesAreSpentOnce /\ GuessesAreBounded /\ OneCodeOpen

(* A session belongs to an active account whose address somebody proved to own, *)
(* however the account began and whatever was requested at once.                *)
SessionsAreVerified ==
    \A s \in 1..Len(sessions) : LET a == account[sessions[s].user]
                                IN  a.status = "active" /\ a.verified

(* The two records of a revocation agree: what the account page lists as        *)
(* revoked is what the check refuses.                                           *)
RevocationsAgree == \A s \in 1..Len(sessions) : sessions[s].revoked <=> s \in revokedTokens

(* Every setting has the value last asked for: requests that set other fields,  *)
(* or that created the row at once, take nothing back. Only a request that was  *)
(* passed on a field may find it at the other's value: what it asked was what it *)
(* had loaded, and was not written.                                             *)
SettingsKeepEveryWrite == \A f \in Fields \ contested : settings.value[f] = asked[f]

(* What the account page shows is what the requests before it did.              *)
AccountPageIsTrue == RevocationsAgree /\ SettingsKeepEveryWrite

===============================================================================
