------------------------------ MODULE SsoLogin ------------------------------
(***************************************************************************)
(* One HTTP conversation of the OUC provider with the school (ouc/sso.go): *)
(* a login with the student's password, a handoff to an academic service   *)
(* with the cookies of an earlier login, a probe of a cached session, or a *)
(* query (SchoolQuery, which sends its request).                           *)
(* The school answers every request with any page or redirect.             *)
(*                                                                         *)
(* A URL is one of: the identity service over https ("id"), the portal,    *)
(* the service asked for ("target"), another allowed host ("sibling"), the *)
(* identity service's address of old over http ("legacy", on port 8071     *)
(* with one allowed https service), anything else ("outside").             *)
(***************************************************************************)
EXTENDS Integers, FiniteSets

CONSTANT MaxRequests    \* requests of one chain of redirects: 10 in the code

ASSUME MaxRequestsAssumption == MaxRequests \in Nat \ {0}

Url == {"id", "portal", "target", "sibling", "legacy", "outside"}
Conversation == {"login", "verify", "accessTarget", "accessPortal", "probe", "query"}

VARIABLES
    conversation,
    at,          \* the step of the conversation whose request is under way
    request,     \* the request under way: its method, URL and body
    hops,        \* requests of this chain so far
    ended,       \* the page the last chain ended on, and its URL
    posted,      \* how often each form was sent
    outcome

vars == <<conversation, at, request, hops, ended, posted, outcome>>

(* What the code reads on a page: the login form's action; the error the   *)
(* page's script declares, a code and what its message speaks of; texts    *)
(* anywhere on the page; marks of its controls; the portal identity.       *)
Class == {"expired", "restricted", "challenge", "invalid"}
Mark ==
    {"secured",     \* a security configuration that can be read
     "control",     \* a visible input for a challenge
     "offered",     \* resetWarn, with a control to continue
     "structured",  \* JSON, not a document
     "instruction", "heading",     \* visible text that asks for a challenge
     "login",       \* an input for the username or the password
     "action", "named", "password", "entry"}    \* of the academic login form
Page ==
    [form : Url \cup {"none"}, code : {"none", "expired"}, message : SUBSET Class,
     text : SUBSET {"expired", "invalid", "rejected"}, marks : SUBSET Mark,
     identity : {"own", "other", "none"}]
Blank ==
    [form |-> "none", code |-> "none", message |-> {}, text |-> {}, marks |-> {},
     identity |-> "none"]
NoRequest == [method |-> "none", url |-> "none", body |-> "none"]
Nowhere == [url |-> "none", page |-> Blank]

(* classifyLoginResponseError: the first class the message speaks of.      *)
Classified(message) ==
    IF message = {} THEN "none"
    ELSE IF "expired" \in message THEN "expired"
    ELSE IF "restricted" \in message THEN "restricted"
    ELSE IF "challenge" \in message THEN "challenge"
    ELSE "invalid"

(* detectInteractiveChallenge.                                             *)
Interactive(page) ==
    /\ "structured" \notin page.marks
    /\ \/ {"control", "instruction"} \cap page.marks # {}
       \/ "heading" \in page.marks /\ "login" \notin page.marks

(* isAcademicLoginPage.                                                    *)
AcademicLogin(page) ==
    \/ "action" \in page.marks
    \/ "password" \in page.marks /\ {"named", "entry"} \cap page.marks # {}

(* The pages a step tells apart: each reads some of the page only.         *)
Pages(forms, codes, messages, texts, marks, identities) ==
    [form : forms, code : codes, message : messages, text : texts, marks : marks,
     identity : identities]
Codes == {"none", "expired"}
Texts == SUBSET {"expired", "invalid", "rejected"}
FormPages ==
    Pages(Url \cup {"none"}, {"none"}, {{}}, {{}}, SUBSET {"secured", "control"}, {"none"})
ChallengePages ==
    Pages({"none"}, {"none"}, {{}}, {{}, {"rejected"}},
          SUBSET {"control", "structured", "instruction", "heading", "login"},
          {"own", "none"})
AnswerPages ==
    Pages({"none"}, Codes, SUBSET Class, Texts, {{}}, {"own", "other"})
    \cup ChallengePages
WarningPages ==
    Pages(Url \cup {"none"}, Codes, {{}}, {{}, {"expired"}}, SUBSET {"offered"}, {"none"})
ServicePages ==
    Pages({"none"}, {"none"}, {{}}, {{}, {"rejected"}},
          SUBSET {"action", "named", "password", "entry"}, {"none"})
PagesAt(step) ==
    CASE step \in {"form", "existing"}     -> FormPages
      [] step \in {"submit", "handoff"}    -> AnswerPages \cup WarningPages
      [] step = "continue"                 -> AnswerPages
      [] step \in {"access", "probe"}      -> ServicePages
      [] step = "query"                    -> ServicePages \cup ChallengePages

TypeOK ==
    /\ conversation \in Conversation
    /\ at \in {"start", "form", "existing", "submit", "handoff", "continue",
               "access", "probe", "prepared", "query", "done"}
    /\ request.url \in Url \cup {"none"}
    /\ hops \in 0 .. MaxRequests
    /\ ended.page \in Page
    /\ posted \in [{"password", "continue", "values"} -> Nat]

Init ==
    /\ conversation \in Conversation
    /\ at = "start" /\ request = NoRequest /\ hops = 0 /\ ended = Nowhere
    /\ posted = [password |-> 0, continue |-> 0, values |-> 0]
    /\ outcome = "none"

-----------------------------------------------------------------------------
(* Redirects.                                                              *)

AllowedHost(url) == url \in {"id", "portal", "target", "sibling"}

(* rewriteLegacySSORedirect.                                               *)
Rewritten(url) == IF url = "legacy" THEN "id" ELSE url

(* How the client treats a redirect: the request's own rules, then         *)
(* CheckRedirect.  "stop" takes the redirect for the answer.               *)
StopsPost == at = "submit"
StopsOutside == at = "form"
ReplaysPost(status) == FALSE
StopsReplay(status) == request.method = "POST" /\ status = "replays"
Policy(status, location) ==
    IF StopsPost /\ request.method = "POST" THEN "stop"
    ELSE IF hops = MaxRequests THEN "error"
    ELSE IF StopsReplay(status) THEN "stop"
    ELSE IF ~AllowedHost(Rewritten(location)) THEN "error"
    ELSE IF StopsOutside /\ Rewritten(location) # "id" THEN "stop"
    ELSE "follow"

(* 301, 302 and 303 turn a POST into a GET; 307 and 308 repeat it.         *)
Next30x(status, location) ==
    IF status = "replays" THEN [request EXCEPT !.url = Rewritten(location)]
    ELSE [method |-> "GET", url |-> Rewritten(location), body |-> "none"]

Posts(body) == [posted EXCEPT ![body] = @ + 1]
Send(step, r) ==
    /\ at' = step /\ request' = r /\ hops' = 1
    /\ posted' = IF r.body = "none" THEN posted ELSE Posts(r.body)
    /\ UNCHANGED outcome
Get(url) == [method |-> "GET", url |-> url, body |-> "none"]
Post(url, body) == [method |-> "POST", url |-> url, body |-> body]

End(result) ==
    /\ at' = "done" /\ request' = NoRequest /\ hops' = 0 /\ outcome' = result
    /\ UNCHANGED posted

(* serviceLoginURL: each conversation but the probe begins at the identity *)
(* service.                                                                *)
Begin ==
    /\ at = "start" /\ conversation # "query"
    /\ CASE conversation \in {"login", "verify"} -> Send("form", Get("id"))
         [] conversation = "probe"               -> Send("probe", Get("target"))
         [] OTHER                                -> Send("access", Get("id"))
    /\ UNCHANGED <<conversation, ended>>

Follow ==
    /\ request # NoRequest
    /\ \E status \in {"turns", "replays"}, location \in Url :
        /\ Policy(status, location) = "follow"
        /\ request' = Next30x(status, location)
        /\ posted' = IF request'.body = "none" THEN posted ELSE Posts(request'.body)
    /\ hops' = hops + 1
    /\ UNCHANGED <<conversation, at, ended, outcome>>

(* A transport failure, a time limit or a cancellation; a status that is   *)
(* an error, a page too large, a redirect the policy refuses.              *)
Fail ==
    /\ request # NoRequest
    /\ \E error \in {"retryable", "canceled", "unavailable"} : End(error)
    /\ UNCHANGED <<conversation, ended>>

-----------------------------------------------------------------------------
(* authenticate.                                                           *)

(* The login page, or the page of a service that knows the session.        *)
SubmitAnywhere(page) == page.form # "none"
Submits(page) == page.form = "id"       \* an https action of the identity service
Authenticate(url, page) ==
    IF url # "id" THEN End("success")
    ELSE IF page.form = "none" \/ "secured" \notin page.marks THEN End("unavailable")
    ELSE IF "control" \in page.marks THEN End("challenge")
    ELSE IF ~Submits(page) THEN End("unavailable")
    ELSE Send("submit", Post(page.form, "password")) \/ End("unavailable")

(* continuePasswordExpiryWarning.                                          *)
Expired(page) == page.code = "expired" \/ "expired" \in page.text
ContinueAt(page) == "offered" \in page.marks /\ page.form = "id"

(* What a page says of the credential, in the order the code looks.        *)
Verdict(url, page) ==
    IF page.message # {} THEN Classified(page.message)
    ELSE IF "invalid" \in page.text THEN "invalid"
    ELSE IF url = "id" /\ Interactive(page) THEN "challenge"
    ELSE IF url = "id" THEN "unavailable"
    ELSE IF "rejected" \in page.text THEN "unresolved"
    ELSE "success"

(* Verify takes a session only with the student's own portal identity.     *)
Concludes(url, page) ==
    LET verdict == Verdict(url, page)
    IN  IF conversation = "verify" /\ verdict = "success" /\ page.identity # "own"
        THEN "unavailable" ELSE verdict

Answered(url, page) ==
    IF Expired(page) /\ ContinueAt(page) THEN
        Send("continue", Post(page.form, "continue"))
    ELSE IF Expired(page) THEN End("expired")
    ELSE End(Concludes(url, page))

(* After the continuation the answer must not say expired again.           *)
TrustsContinuation(url, page) == End(Concludes(url, page))
Continued(url, page) ==
    IF Expired(page) THEN End("expired") ELSE End(Concludes(url, page))

-----------------------------------------------------------------------------
(* accessService and probeUndergraduateSession.                            *)

Expected == IF conversation = "accessPortal" THEN "portal" ELSE "target"
Access(url, page) ==
    IF url = Expected /\ "rejected" \in page.text THEN "target_rejected"
    ELSE IF url = Expected THEN "granted"
    ELSE IF url \in {"id", "portal"} THEN "identity_rejected"
    ELSE "target_rejected"

(* Anything but a page of the target behind its login form.                *)
Probed(url, page) == IF url = "target" /\ ~AcademicLogin(page) THEN "valid" ELSE "rejected"

(* A query's answer: a challenge, a session the school rejects, a page of  *)
(* no host it should be, or one to parse.                                  *)
Answer(url, page) ==
    IF Interactive(page) THEN "challenge"
    ELSE IF url \in {"id", "portal"} THEN "rejected"
    ELSE IF url = "target" /\ AcademicLogin(page) THEN "rejected"
    ELSE IF url # "target" THEN "unavailable"
    ELSE "accepted"

-----------------------------------------------------------------------------
(* A chain ends on a page.                                                 *)

Reads(url, page) ==
    CASE at \in {"form", "existing"}  -> Authenticate(url, page)
      [] at \in {"submit", "handoff"} -> Answered(url, page)
      [] at = "continue"              -> Continued(url, page)
      [] at = "access"                -> End(Access(url, page))
      [] at = "probe"                 -> End(Probed(url, page))
      [] at = "query"                 -> End(Answer(url, page))
Arrive ==
    /\ request # NoRequest
    /\ \E page \in PagesAt(at) :
        /\ ended' = [url |-> request.url, page |-> page]
        /\ Reads(request.url, page)
    /\ UNCHANGED conversation

(* A chain stops at a redirect.  The login page's and the form's are the   *)
(* handoff to go on with, as they were sent; any other is read as a page.  *)
HandsOff == at \in {"form", "submit"}
Stop ==
    /\ request # NoRequest
    /\ \E status \in {"turns", "replays"}, location \in Url :
        /\ Policy(status, location) = "stop"
        /\ IF HandsOff /\ AllowedHost(location) THEN
               /\ Send(IF at = "form" THEN "existing" ELSE "handoff", Get(location))
               /\ UNCHANGED ended
           ELSE IF HandsOff THEN End("unavailable") /\ UNCHANGED ended
           ELSE /\ ended' = [url |-> request.url, page |-> Blank]
                /\ Reads(request.url, Blank)
    /\ UNCHANGED conversation

Next == Begin \/ Follow \/ Fail \/ Arrive \/ Stop

Spec == Init /\ [][Next]_vars

-----------------------------------------------------------------------------
(* Properties.                                                             *)

(* newSessionClient's comment: refuse what "would replay the               *)
(* password-bearing POST".  A form with the password or the continuation   *)
(* is only ever sent to the identity service, and a query's values to the  *)
(* service they are for, whatever redirects they meet.                     *)
FormsStayHome ==
    request.body # "none" => request.url = IF request.body = "values" THEN "target" ELSE "id"

(* Each form is sent at most once in a conversation, and the continuation  *)
(* only after the password.                                                *)
FormsSentOnce ==
    /\ posted.password <= 1 /\ posted.values <= 1
    /\ posted.continue <= posted.password

(* An expired password never gives a session: a login that sent one ends   *)
(* in success on an allowed page that says neither expired nor invalid.    *)
ExpiredStaysExpired ==
    outcome = "success" /\ posted.password = 1 =>
        /\ AllowedHost(ended.url) /\ ended.url # "id"
        /\ ~Expired(ended.page)
        /\ "invalid" \notin ended.page.text
=============================================================================
