-------------------------- MODULE SchoolQueryProofs --------------------------
(***************************************************************************)
(* Proofs about a query of the OUC provider and about the conversations of *)
(* SsoLogin that give it a session, for any limit on redirects, any pages, *)
(* any operations, periods, timetables, tables and catalogs: forms stay    *)
(* home and are sent once, an expired password gives no session, the       *)
(* request of an operation is complete, timetables and records are kept,   *)
(* and a catalog is read once.                                             *)
(*                                                                         *)
(* LoginInv counts the forms by the step of the conversation, and says     *)
(* that a request goes to an allowed host and has a body only as the POST  *)
(* that sends a form, which no redirect repeats.  It holds of both         *)
(* specifications, the conversations alone and with the queries they are   *)
(* for.  QueryInv adds what a prepared request is made of, how much of a   *)
(* catalog has been read, and that what was listed or taught is what was   *)
(* shown.                                                                  *)
(*                                                                         *)
(* What the parsers keep of a table is the rows at some of its places, in  *)
(* order.  Most of the lemmas are about that: Kept is as long as there are *)
(* places, has what is at them, and keeping twice is keeping once, at the  *)
(* places of the places (KeptTwice).                                       *)
(***************************************************************************)
EXTENDS SchoolQuery, TimetableProofs

-----------------------------------------------------------------------------
(* The invariant of a conversation.                                        *)

Fresh == {"form", "existing", "access", "probe"}
Under == Fresh \cup {"submit", "handoff", "continue", "query"}
Form == {"password", "continue", "values"}
Requests == [method : {"none", "GET", "POST"}, url : Url \cup {"none"}, body : Form \cup {"none"}]

RequestOK ==
    /\ request \in Requests
    /\ request # NoRequest => at \in Under /\ AllowedHost(request.url)
    /\ request.body # "none" => request.method = "POST"
    /\ FormsStayHome
Counted ==
    /\ posted \in [Form -> Nat]
    /\ at \in Fresh \cup {"start", "prepared", "query"} =>
           posted.password = 0 /\ posted.continue = 0
    /\ at \notin {"query", "done"} => posted.values = 0
    /\ at \in {"submit", "handoff"} => posted.password = 1 /\ posted.continue = 0
    /\ at = "continue" => posted.password = 1 /\ posted.continue = 1
    /\ FormsSentOnce
LoginInv ==
    /\ at \in Under \cup {"start", "prepared", "done"}
    /\ at # "done" => outcome = "none"
    /\ at \in {"start", "prepared", "done"} => request = NoRequest
    /\ RequestOK
    /\ Counted
    /\ ExpiredStaysExpired

(* A page that may give a session to a login that has sent a password.     *)
Fit(e) ==
    /\ AllowedHost(e.url) /\ e.url # "id"
    /\ ~Expired(e.page)
    /\ "invalid" \notin e.page.text

-----------------------------------------------------------------------------
(* A conversation ends: in success after a password only on a fit page.    *)
LEMMA Ends ==
    ASSUME LoginInv, NEW result, End(result), at # "done",
           result = "success" /\ posted.password = 1 => Fit(ended')
    PROVE  LoginInv'
<1>1. /\ at' = "done" /\ request' = NoRequest /\ outcome' = result
      /\ posted' = posted
  BY DEF End
<1>2. RequestOK'
  BY <1>1 DEF RequestOK, Requests, NoRequest, FormsStayHome, Form
<1>3. Counted'
  BY <1>1 DEF LoginInv, Counted, FormsSentOnce, Fresh
<1>4. ExpiredStaysExpired'
  BY <1>1 DEF ExpiredStaysExpired, Fit, AllowedHost, Expired
<1> QED
  BY <1>1, <1>2, <1>3, <1>4 DEF LoginInv

(* The conversation goes on with a GET.                                    *)
LEMMA Goes ==
    ASSUME LoginInv, NEW step \in Under, NEW url \in Url, Send(step, Get(url)),
           AllowedHost(url),
           \/ at \in Fresh \cup {"start"} /\ step \in Fresh
           \/ at = "submit" /\ step = "handoff"
    PROVE  LoginInv'
<1>1. /\ at' = step /\ request' = Get(url)
      /\ posted' = posted /\ outcome' = outcome
  BY DEF Send, Get
<1>2. at # "done" /\ step \notin {"start", "prepared", "done"}
  BY DEF Fresh, Under
<1>3. RequestOK'
  BY <1>1 DEF RequestOK, Requests, Get, FormsStayHome, Form
<1>4. Counted'
  BY <1>1 DEF LoginInv, Counted, FormsSentOnce, Fresh
<1>5. ExpiredStaysExpired'
  BY <1>1, <1>2 DEF LoginInv, ExpiredStaysExpired
<1> QED
  BY <1>1, <1>2, <1>3, <1>4, <1>5 DEF LoginInv

(* A form is sent, to the identity service: the password first.            *)
LEMMA Forms ==
    ASSUME LoginInv, NEW body \in {"password", "continue"}, NEW step,
           Send(step, Post("id", body)),
           \/ at \in Fresh /\ body = "password" /\ step = "submit"
           \/ at \in {"submit", "handoff"} /\ body = "continue" /\ step = "continue"
    PROVE  LoginInv'
<1>1. /\ at' = step /\ request' = Post("id", body)
      /\ posted' = [posted EXCEPT ![body] = @ + 1] /\ outcome' = outcome
  BY DEF Send, Post, Posts
<1>2. at # "done" /\ step \in {"submit", "continue"}
  BY DEF Fresh
<1>3. RequestOK'
  BY <1>1, <1>2 DEF RequestOK, Requests, Post, FormsStayHome, Form, Under, Fresh, Url, AllowedHost
<1>4. posted' \in [Form -> Nat]
  BY <1>1 DEF LoginInv, Counted, Form
<1>5. Counted'
  <2>1. CASE body = "password"
    BY <1>1, <1>4, <2>1 DEF LoginInv, Counted, FormsSentOnce, Fresh, Form
  <2>2. CASE body = "continue"
    BY <1>1, <1>4, <2>2 DEF LoginInv, Counted, FormsSentOnce, Fresh, Form
  <2> QED
    BY <2>1, <2>2
<1>6. ExpiredStaysExpired'
  BY <1>1, <1>2 DEF LoginInv, ExpiredStaysExpired
<1> QED
  BY <1>1, <1>2, <1>3, <1>5, <1>6 DEF LoginInv, Under

-----------------------------------------------------------------------------
(* A page is read.                                                         *)

LEMMA VerdictFit ==
    ASSUME NEW url, NEW page, Concludes(url, page) = "success", ~Expired(page),
           AllowedHost(url)
    PROVE  Fit([url |-> url, page |-> page])
<1>1. Verdict(url, page) = "success"
  BY DEF Concludes
<1>2. Classified(page.message) # "success"
  BY DEF Classified
<1>3. page.message = {} /\ "invalid" \notin page.text /\ url # "id"
  BY <1>1, <1>2 DEF Verdict
<1> QED
  BY <1>3 DEF Fit

LEMMA ReadsKeeps ==
    ASSUME LoginInv, request # NoRequest, NEW page,
           ended' = [url |-> request.url, page |-> page], Reads(request.url, page)
    PROVE  LoginInv'
<1> DEFINE url == request.url
<1>1. /\ at \in Under /\ at # "done" /\ AllowedHost(url)
  BY DEF LoginInv, RequestOK
<1>2. CASE at \in {"form", "existing"}
  <2>1. Authenticate(url, page) /\ posted.password = 0 /\ at \in Fresh
    BY <1>2 DEF Reads, LoginInv, Counted, Fresh
  <2>2. \/ \E result : End(result)
        \/ Send("submit", Post("id", "password"))
    BY <2>1 DEF Authenticate, Submits
  <2> QED
    BY <1>1, <2>1, <2>2, Ends, Forms
<1>3. CASE at \in {"submit", "handoff"}
  <2>1. Answered(url, page)
    BY <1>3 DEF Reads
  <2>2. CASE Expired(page) /\ ContinueAt(page)
    <3>1. Send("continue", Post("id", "continue"))
      BY <2>1, <2>2 DEF Answered, ContinueAt
    <3> QED
      BY <3>1, <1>3, Forms
  <2>3. CASE Expired(page) /\ ~ContinueAt(page)
    <3>1. End("expired")
      BY <2>1, <2>3 DEF Answered
    <3> QED
      BY <3>1, <1>1, Ends
  <2>4. CASE ~Expired(page)
    <3>1. End(Concludes(url, page))
      BY <2>1, <2>4 DEF Answered
    <3>2. Concludes(url, page) = "success" => Fit(ended')
      BY <1>1, <2>4, VerdictFit
    <3> QED
      BY <3>1, <3>2, <1>1, Ends
  <2> QED
    BY <2>2, <2>3, <2>4
<1>4. CASE at = "continue"
  <2>1. Continued(url, page)
    BY <1>4 DEF Reads
  <2>2. CASE Expired(page)
    <3>1. End("expired")
      BY <2>1, <2>2 DEF Continued
    <3> QED
      BY <3>1, <1>1, Ends
  <2>3. CASE ~Expired(page)
    <3>1. End(Concludes(url, page))
      BY <2>1, <2>3 DEF Continued
    <3>2. Concludes(url, page) = "success" => Fit(ended')
      BY <1>1, <2>3, VerdictFit
    <3> QED
      BY <3>1, <3>2, <1>1, Ends
  <2> QED
    BY <2>2, <2>3
<1>5. CASE at \in {"access", "probe", "query"}
  <2>1. posted.password = 0
    BY <1>5 DEF LoginInv, Counted, Fresh
  <2>2. \E result : End(result)
    BY <1>5 DEF Reads
  <2> QED
    BY <2>1, <2>2, <1>1, Ends
<1> QED
  BY <1>1, <1>2, <1>3, <1>4, <1>5 DEF Under, Fresh

-----------------------------------------------------------------------------
(* A redirect is followed to an allowed host, without the body of a form.  *)
LEMMA Followed ==
    ASSUME LoginInv, request # NoRequest, NEW status \in {"turns", "replays"},
           NEW location \in Url, Policy(status, location) = "follow"
    PROVE  /\ AllowedHost(Rewritten(location))
           /\ Next30x(status, location) \in Requests
           /\ Next30x(status, location).body = "none"
           /\ Next30x(status, location).url = Rewritten(location)
<1>1. /\ AllowedHost(Rewritten(location))
      /\ ~(request.method = "POST" /\ status = "replays")
  BY DEF Policy, StopsReplay
<1>2. Rewritten(location) \in Url
  BY DEF Rewritten, Url
<1>3. request \in Requests /\ (request.body # "none" => request.method = "POST")
  BY DEF LoginInv, RequestOK
<1>4. CASE status = "replays"
  BY <1>1, <1>2, <1>3, <1>4 DEF Next30x, Requests
<1>5. CASE status = "turns"
  BY <1>1, <1>2, <1>5 DEF Next30x, Requests
<1> QED
  BY <1>1, <1>4, <1>5

LEMMA StepKeeps ==
    ASSUME LoginInv, [Next]_vars
    PROVE  LoginInv'
<1>1. CASE Begin
  <2>1. /\ at = "start" /\ request = NoRequest
    BY <1>1 DEF Begin, LoginInv
  <2>2. \E step \in {"form", "probe", "access"}, url \in {"id", "target"} : Send(step, Get(url))
    BY <1>1 DEF Begin
  <2> QED
    BY <2>1, <2>2, Goes DEF Fresh, Under, Url, AllowedHost
<1>2. CASE Follow
  <2>1. PICK status \in {"turns", "replays"}, location \in Url :
            /\ Policy(status, location) = "follow"
            /\ request' = Next30x(status, location)
            /\ posted' = IF request'.body = "none" THEN posted ELSE Posts(request'.body)
    BY <1>2 DEF Follow
  <2>2. /\ request # NoRequest
        /\ at' = at /\ ended' = ended /\ outcome' = outcome
    BY <1>2 DEF Follow
  <2>3. /\ AllowedHost(request'.url) /\ request' \in Requests /\ request'.body = "none"
    BY <2>1, <2>2, Followed
  <2>4. posted' = posted
    BY <2>1, <2>3
  <2>5. at \in Under /\ at \notin {"start", "prepared", "done"}
    BY <2>2 DEF LoginInv, RequestOK
  <2>6. RequestOK'
    BY <2>2, <2>3, <2>5 DEF RequestOK, FormsStayHome, AllowedHost
  <2>7. Counted' /\ ExpiredStaysExpired'
    BY <2>2, <2>4 DEF LoginInv, Counted, FormsSentOnce, ExpiredStaysExpired
  <2> QED
    BY <2>2, <2>5, <2>6, <2>7 DEF LoginInv
<1>3. CASE Fail
  <2>1. request # NoRequest /\ \E error \in {"retryable", "canceled", "unavailable"} : End(error)
    BY <1>3 DEF Fail
  <2> QED
    BY <2>1, Ends DEF LoginInv
<1>4. CASE Arrive
  <2>1. request # NoRequest /\ \E page : /\ ended' = [url |-> request.url, page |-> page]
                                         /\ Reads(request.url, page)
    BY <1>4 DEF Arrive
  <2> QED
    BY <2>1, ReadsKeeps
<1>5. CASE Stop
  <2>1. /\ request # NoRequest
        /\ \E location \in Url :
            IF HandsOff /\ AllowedHost(location) THEN
                Send(IF at = "form" THEN "existing" ELSE "handoff", Get(location))
            ELSE IF HandsOff THEN End("unavailable")
            ELSE /\ ended' = [url |-> request.url, page |-> Blank]
                 /\ Reads(request.url, Blank)
    BY <1>5 DEF Stop
  <2>2. PICK location \in Url :
            \/ /\ HandsOff /\ AllowedHost(location)
               /\ Send(IF at = "form" THEN "existing" ELSE "handoff", Get(location))
            \/ End("unavailable")
            \/ /\ ended' = [url |-> request.url, page |-> Blank]
               /\ Reads(request.url, Blank)
    BY <2>1
  <2>3. CASE /\ HandsOff /\ AllowedHost(location)
             /\ Send(IF at = "form" THEN "existing" ELSE "handoff", Get(location))
    BY <2>3, Goes DEF HandsOff, Under, Fresh
  <2>4. CASE End("unavailable")
    BY <2>1, <2>4, Ends DEF LoginInv
  <2>5. CASE ended' = [url |-> request.url, page |-> Blank] /\ Reads(request.url, Blank)
    BY <2>1, <2>5, ReadsKeeps
  <2> QED
    BY <2>2, <2>3, <2>4, <2>5
<1>6. CASE UNCHANGED vars
  <2>1. /\ at' = at /\ request' = request /\ ended' = ended
        /\ posted' = posted /\ outcome' = outcome
    BY <1>6 DEF vars
  <2> QED
    BY <2>1 DEF LoginInv, RequestOK, FormsStayHome, Counted, FormsSentOnce, ExpiredStaysExpired
<1> QED
  BY <1>1, <1>2, <1>3, <1>4, <1>5, <1>6 DEF Next

LEMMA InitHolds == Init => LoginInv
<1> SUFFICES ASSUME Init PROVE LoginInv
  OBVIOUS
<1>1. RequestOK
  BY DEF Init, RequestOK, Requests, NoRequest, FormsStayHome, Form
<1>2. Counted
  BY DEF Init, Counted, FormsSentOnce, Form, Fresh
<1>3. ExpiredStaysExpired
  BY DEF Init, ExpiredStaysExpired
<1> QED
  BY <1>1, <1>2, <1>3 DEF Init, LoginInv

LEMMA LoginInvariant == Spec => []LoginInv
<1>1. LoginInv /\ [Next]_vars => LoginInv'
  BY StepKeeps
<1> QED
  BY <1>1, InitHolds, PTL DEF Spec

-----------------------------------------------------------------------------
(* newSessionClient's redirect rules: the password and the continuation    *)
(* are sent to the identity service alone, whatever redirects they meet.   *)
THEOREM FormsStayHomeAlways == Spec => []FormsStayHome
<1>1. LoginInv => FormsStayHome
  BY DEF LoginInv, RequestOK
<1> QED
  BY <1>1, LoginInvariant, PTL

(* authenticate: no page and no chain of redirects makes a conversation    *)
(* send a form twice, or continue before it has sent the password.         *)
THEOREM FormsSentOnceAlways == Spec => []FormsSentOnce
<1>1. LoginInv => FormsSentOnce
  BY DEF LoginInv, Counted
<1> QED
  BY <1>1, LoginInvariant, PTL

(* continuePasswordExpiryWarning: a login with an expired or refused       *)
(* password never ends in success.                                         *)
THEOREM ExpiredGivesNoSession == Spec => []ExpiredStaysExpired
<1>1. LoginInv => ExpiredStaysExpired
  BY DEF LoginInv
<1> QED
  BY <1>1, LoginInvariant, PTL

-----------------------------------------------------------------------------
(* The request of a query.                                                 *)

IsQuery(q) ==
    \E kind \in QueryKinds, o \in Operations, period \in Periods :
        /\ ValidEndpoint(kind, o) /\ o.path # "none"
        /\ ~AcademicRequest(o, period, Extra(kind, o)).error
        /\ q = [kind |-> kind, operation |-> o, period |-> period,
                made |-> AcademicRequest(o, period, Extra(kind, o))]
AskedOK ==
    /\ asked # NotAsked => IsQuery(asked)
    /\ at = "prepared" => asked # NotAsked

(* academicPeriodValues: a period that fits the parameters it is mapped to *)
(* gives each of them its own part.                                        *)
LEMMA PartsMapped ==
    ASSUME NEW o \in Operation, NEW period \in Seq(STRING), period # <<>>,
           ValidPeriodParameters(o), PeriodFits(o, period), o.periods # <<>>
    PROVE  /\ DOMAIN MappedPeriod(o, period) = ToSet(PeriodParameters(o))
           /\ \A i \in DOMAIN o.periods :
                 /\ PeriodParameters(o)[i] \in ToSet(PeriodParameters(o)) \ {NoName}
                 /\ MappedPeriod(o, period)[PeriodParameters(o)[i]] = period[i]
<1> DEFINE names == PeriodParameters(o)
<1>1. /\ Len(o.periods) \in 2..4 /\ IsInjective(names)
      /\ \A n \in ToSet(names) : ValidParameterName(n)
      /\ Len(Parts(o, period)) = Len(o.periods)
      /\ DOMAIN names = DOMAIN o.periods
  BY DEF ValidPeriodParameters, PeriodFits, PeriodParameters
<1>2. Parts(o, period) = period
  <2>1. Len(<<"whole">>) = 1
    OBVIOUS
  <2>2. Len(Parts(o, period)) # 1
    <3>1. \A n \in 2..4 : n # 1
      OBVIOUS
    <3> QED BY <1>1, <3>1
  <2> QED BY <2>1, <2>2 DEF Parts
<1>3. MappedPeriod(o, period) =
         [n \in ToSet(names) |-> period[CHOOSE i \in DOMAIN o.periods : names[i] = n]]
  BY <1>2 DEF MappedPeriod
<1> HIDE DEF names
<1>4. ASSUME NEW i \in DOMAIN o.periods
      PROVE  /\ names[i] \in ToSet(names)
             /\ (CHOOSE j \in DOMAIN o.periods : names[j] = names[i]) = i
  <2>1. \A j \in DOMAIN o.periods : names[j] = names[i] => j = i
    BY <1>1 DEF IsInjective
  <2> QED BY <2>1, <1>1 DEF ToSet
<1> DEFINE part == [n \in ToSet(names) |->
                       period[CHOOSE i \in DOMAIN o.periods : names[i] = n]]
<1>5. DOMAIN part = ToSet(names)
  OBVIOUS
<1>6. ASSUME NEW i \in DOMAIN o.periods PROVE part[names[i]] = period[i]
  BY <1>4
<1>7. ASSUME NEW i \in DOMAIN o.periods PROVE names[i] # NoName
  BY <1>1, <1>4 DEF ValidParameterName, NoName, Plain
<1> HIDE DEF part
<1>8. MappedPeriod(o, period) = part
  BY <1>3 DEF part
<1> QED BY <1>4, <1>5, <1>6, <1>7, <1>8 DEF names

(* validateFixedParameters: what it lets pass is not named like the        *)
(* period, but for the blanks it does not trim.                            *)
LEMMA FixedApart ==
    ASSUME NEW o, ValidFixedParameters(o), ~FixedUnseen(o)
    PROVE  o.fixed \cap PeriodNames(o) = {}
BY DEF ValidFixedParameters, FixedUnseen

(* academicCatalogRequest and undergraduateSelectionFailureRequestValues:  *)
(* what is asked for is told where the extra values are.                   *)
LEMMA ExtraIsTold ==
    ASSUME NEW kind, NEW o \in Operation, NEW values,
           kind = "catalog" => ValidCatalogPagination(o) /\ PagedApart(o),
           \A n \in DOMAIN Extra(kind, o) : Tells(values, n, Extra(kind, o)[n])
    PROVE  ToldExtra(kind, o, values)
<1>1. CASE kind = "catalog"
  <2> DEFINE extra == CatalogValues(o)
  <2>1. Extra(kind, o) = extra
    BY <1>1 DEF Extra
  <2>2. \A n \in DOMAIN extra : Tells(values, n, extra[n])
    <3> HIDE DEF extra
    <3> QED BY <2>1
  <2>3. o.page \in Written /\ o.sizeName \in Written
    BY DEF Operation
  <2>4. o.page # o.sizeName /\ ~o.page.blanks /\ ~o.sizeName.blanks
    BY <1>1 DEF PagedApart
  <2>5. TrimSpace(o.page) = o.page /\ TrimSpace(o.sizeName) = o.sizeName
    BY <2>3, <2>4 DEF TrimSpace, Plain, Written
  <2>6. o.page # NoName
    BY <1>1, <2>5 DEF ValidCatalogPagination, ValidParameterName, NoName, Plain
  <2>7. /\ o.page \in DOMAIN extra /\ extra[o.page] = "pageNumber"
        /\ o.sizeName # NoName => o.sizeName \in DOMAIN extra /\ extra[o.sizeName] = "pageSize"
    <3> HIDE DEF NoName
    <3> QED BY <2>4, <2>6 DEF CatalogValues
  <2> HIDE DEF extra
  <2>8. ToldPage(o, values)
    BY <2>2, <2>5, <2>7 DEF ToldPage
  <2> QED BY <1>1, <2>8 DEF ToldExtra
<1>2. CASE kind = "supplement"
  <2>1. Extra(kind, o) = SupplementValues
    BY <1>2 DEF Extra
  <2> QED BY <1>2, <2>1 DEF ToldExtra
<1>3. CASE kind # "catalog" /\ kind # "supplement"
  BY <1>3 DEF ToldExtra
<1> QED BY <1>1, <1>2, <1>3

(* academicRequestWithValues, of a validated operation.                    *)
LEMMA RequestTells ==
    ASSUME NEW kind, NEW o \in Operation, NEW period \in Seq(STRING),
           ValidEndpoint(kind, o), o.path # "none",
           ~AcademicRequest(o, period, Extra(kind, o)).error,
           ~InPath(o, period), ~FixedUnseen(o),
           DOMAIN Extra(kind, o) \cap PeriodNames(o) = {}
    PROVE  Told(o, period, Extra(kind, o),
                AcademicRequest(o, period, Extra(kind, o)).values)
<1> DEFINE extra == Extra(kind, o)
           mapped == MappedPeriod(o, period)
           fixed == [n \in o.fixed |-> "fixed"]
           values == AcademicRequest(o, period, extra).values
<1>1. /\ PeriodFits(o, period) /\ period # <<>>
      /\ values = Override(Override(mapped, fixed), extra)
  BY DEF AcademicRequest, InPath, Carried
<1>2. /\ ValidPeriodParameters(o) /\ ValidFixedParameters(o)
  BY DEF ValidEndpoint, ValidOperation
<1>3. /\ DOMAIN values = DOMAIN mapped \cup o.fixed \cup DOMAIN extra
      /\ \A n \in o.fixed \ DOMAIN extra : values[n] = "fixed"
      /\ \A n \in DOMAIN mapped \ (o.fixed \cup DOMAIN extra) : values[n] = mapped[n]
  <2> HIDE DEF mapped, extra, values
  <2> QED BY <1>1 DEF Override
<1>4. PeriodNames(o) \cap (o.fixed \cup DOMAIN extra) = {}
  BY <1>2, FixedApart
<1>5. ASSUME o.periods = <<>>, PeriodParameter(o) # NoName
      PROVE  Tells(values, PeriodParameter(o), "whole")
  <2>1. mapped = [n \in {PeriodParameter(o)} |-> "whole"]
    BY <1>1, <1>5 DEF MappedPeriod
  <2>2. DOMAIN mapped = {PeriodParameter(o)} /\ mapped[PeriodParameter(o)] = "whole"
    BY <2>1
  <2>3. PeriodParameter(o) \in PeriodNames(o)
    BY <1>5 DEF PeriodNames
  <2> QED
    <3> HIDE DEF mapped, extra, values
    <3> QED BY <2>2, <2>3, <1>3, <1>4 DEF Tells
<1>6. ASSUME o.periods # <<>>, NEW i \in DOMAIN o.periods
      PROVE  Tells(values, PeriodParameters(o)[i], period[i])
  <2> DEFINE name == PeriodParameters(o)[i]
  <2>1. /\ DOMAIN mapped = ToSet(PeriodParameters(o)) /\ mapped[name] = period[i]
        /\ name \in ToSet(PeriodParameters(o)) \ {NoName}
    BY <1>1, <1>2, <1>6, PartsMapped
  <2>2. name \in PeriodNames(o)
    <3> HIDE DEF name
    <3> QED BY <2>1 DEF PeriodNames
  <2> HIDE DEF mapped, extra, values, name
  <2>3. Tells(values, name, period[i])
    BY <2>1, <2>2, <1>3, <1>4 DEF Tells
  <2> QED BY <2>3 DEF name
<1> QED
  <2> HIDE DEF mapped, extra, values
  <2>1. Told(o, period, extra, values)
    BY <1>3, <1>5, <1>6 DEF Told, Tells
  <2> QED BY <2>1 DEF extra, values

(* What is asked for is carried by every query, and by a form whose path   *)
(* does not contain the period.                                            *)
LEMMA ExtraCarried ==
    ASSUME NEW o, NEW period, NEW extra,
           ~AcademicRequest(o, period, extra).error,
           ~InPath(o, period) \/ o.encoding = "query"
    PROVE  \A n \in DOMAIN extra : Tells(AcademicRequest(o, period, extra).values, n, extra[n])
<1> DEFINE all == Override(Override(MappedPeriod(o, period), [n \in o.fixed |-> "fixed"]), extra)
<1>1. AcademicRequest(o, period, extra).values = Carried(o, period, all, extra)
  BY DEF AcademicRequest
<1>2. Carried(o, period, all, extra) \in {all, extra}
  <2> HIDE DEF all
  <2> QED BY DEF Carried
<1>3. \A n \in DOMAIN extra : n \in DOMAIN all /\ all[n] = extra[n]
  BY DEF Override
<1> HIDE DEF all
<1> QED BY <1>1, <1>2, <1>3 DEF Tells

LEMMA QueriesComplete ==
    ASSUME AskedOK
    PROVE  QueryComplete
<1> SUFFICES ASSUME asked # NotAsked, asked.kind = "catalog" => PagedApart(asked.operation)
             PROVE  LET o == asked.operation
                        more == Extra(asked.kind, o)
                    IN  /\ /\ asked.period # <<>> /\ ~InPath(o, asked.period)
                           /\ ~FixedUnseen(o)
                           /\ DOMAIN more \cap PeriodNames(o) = {}
                           => Told(o, asked.period, more, asked.made.values)
                        /\ ~InPath(o, asked.period) \/ o.encoding = "query"
                           => ToldExtra(asked.kind, o, asked.made.values)
  BY DEF QueryComplete
<1>1. PICK kind \in QueryKinds, o \in Operations, period \in Periods :
        /\ ValidEndpoint(kind, o) /\ o.path # "none"
        /\ ~AcademicRequest(o, period, Extra(kind, o)).error
        /\ asked = [kind |-> kind, operation |-> o, period |-> period,
                    made |-> AcademicRequest(o, period, Extra(kind, o))]
  BY DEF AskedOK, IsQuery
<1>2. /\ asked.kind = kind /\ asked.operation = o /\ asked.period = period
      /\ asked.made = AcademicRequest(o, period, Extra(kind, o))
  BY <1>1
<1>3. o \in Operation /\ period \in Seq(STRING)
  BY ConfigurationAssumption
<1> DEFINE more == Extra(kind, o)
           values == AcademicRequest(o, period, more).values
<1>4. ASSUME ~InPath(o, period), ~FixedUnseen(o), DOMAIN more \cap PeriodNames(o) = {}
      PROVE  Told(o, period, more, values)
  BY <1>1, <1>3, <1>4, RequestTells
<1>5. ASSUME ~InPath(o, period) \/ o.encoding = "query"
      PROVE  ToldExtra(kind, o, values)
  <2>1. \A n \in DOMAIN more : Tells(values, n, more[n])
    BY <1>1, <1>5, ExtraCarried
  <2>2. kind = "catalog" => ValidCatalogPagination(o) /\ PagedApart(o)
    BY <1>1, <1>2 DEF ValidEndpoint
  <2> HIDE DEF values
  <2> QED BY <2>1, <2>2, <1>3, ExtraIsTold
<1> QED BY <1>2, <1>4, <1>5

-----------------------------------------------------------------------------
(* Steps of a query.                                                       *)

(* A conversation of SsoLogin prepares no query.                           *)
LEMMA ReadsGoOn ==
    ASSUME NEW url, NEW page, Reads(url, page),
           at \in Under
    PROVE  at' # "prepared"
<1>1. CASE at \in {"form", "existing"}
  <2>1. Authenticate(url, page)
    BY <1>1 DEF Reads
  <2>2. \/ \E result : End(result)
        \/ Send("submit", Post(page.form, "password"))
    BY <2>1 DEF Authenticate
  <2> QED BY <2>2 DEF End, Send
<1>2. CASE at \in {"submit", "handoff", "continue"}
  <2>1. Answered(url, page) \/ Continued(url, page)
    BY <1>2 DEF Reads
  <2>2. \/ \E result : End(result)
        \/ Send("continue", Post(page.form, "continue"))
    BY <2>1 DEF Answered, Continued
  <2> QED BY <2>2 DEF End, Send
<1>3. CASE at \in {"access", "probe", "query"}
  <2>1. \E result : End(result)
    BY <1>3 DEF Reads
  <2> QED BY <2>1 DEF End
<1> QED BY <1>1, <1>2, <1>3 DEF Under, Fresh

LEMMA SchoolGoesOn ==
    ASSUME LoginInv, Next
    PROVE  at' # "prepared"
<1>1. CASE Begin
  <2>1. \E step \in {"form", "probe", "access"} : at' = step
    BY <1>1 DEF Begin, Send
  <2> QED BY <2>1
<1>2. CASE Follow
  BY <1>2 DEF Follow, LoginInv
<1>3. CASE Fail
  BY <1>3 DEF Fail, End
<1>4. CASE Arrive
  <2>1. request # NoRequest /\ \E page : Reads(request.url, page)
    BY <1>4 DEF Arrive
  <2> QED BY <2>1, ReadsGoOn DEF LoginInv, RequestOK
<1>5. CASE Stop
  <2>1. /\ request # NoRequest
        /\ \/ \E location : Send(IF at = "form" THEN "existing" ELSE "handoff", Get(location))
           \/ End("unavailable")
           \/ Reads(request.url, Blank)
    BY <1>5 DEF Stop
  <2> QED BY <2>1, ReadsGoOn DEF LoginInv, RequestOK, Send, End
<1> QED BY <1>1, <1>2, <1>3, <1>4, <1>5 DEF Next

LEMMA PrepareKeeps ==
    ASSUME LoginInv, AskedOK, Prepare
    PROVE  LoginInv' /\ AskedOK'
<1>1. at = "start"
  BY DEF Prepare
<1>2. \/ End("unavailable") /\ asked' = asked
      \/ /\ at' = "prepared" /\ request' = request /\ posted' = posted /\ outcome' = outcome
         /\ IsQuery(asked') /\ asked'.kind # "none"
  <2>1. PICK kind \in QueryKinds, o \in Operations, period \in Periods :
            /\ ValidEndpoint(kind, o) /\ o.path # "none"
            /\ IF AcademicRequest(o, period, Extra(kind, o)).error
               THEN End("unavailable") /\ UNCHANGED asked
               ELSE /\ asked' = [kind |-> kind, operation |-> o, period |-> period,
                                 made |-> AcademicRequest(o, period, Extra(kind, o))]
                    /\ at' = "prepared"
                    /\ UNCHANGED <<request, hops, posted, outcome>>
    BY Zenon DEF Prepare
  <2>2. kind # "none"
    BY DEF QueryKinds
  <2>3. CASE AcademicRequest(o, period, Extra(kind, o)).error
    BY <2>1, <2>3
  <2>4. CASE ~AcademicRequest(o, period, Extra(kind, o)).error
    <3>1. IsQuery(asked')
      BY <2>1, <2>4, Zenon DEF IsQuery
    <3>2. asked'.kind # "none"
      BY <2>1, <2>2, <2>4
    <3> QED BY <2>1, <2>4, <3>1, <3>2
  <2> QED BY <2>3, <2>4
<1>3. CASE End("unavailable") /\ asked' = asked
  <2>1. LoginInv'
    BY <1>1, <1>3, Ends
  <2>2. AskedOK'
    BY <1>3 DEF AskedOK, End, IsQuery
  <2> QED BY <2>1, <2>2
<1>4. CASE /\ at' = "prepared" /\ request' = request /\ posted' = posted /\ outcome' = outcome
           /\ IsQuery(asked') /\ asked'.kind # "none"
  <2>1. LoginInv'
    BY <1>1, <1>4 DEF LoginInv, RequestOK, FormsStayHome, Counted, FormsSentOnce, Fresh,
                      ExpiredStaysExpired
  <2>2. AskedOK'
    BY <1>4 DEF AskedOK, IsQuery, NotAsked
  <2> QED BY <2>1, <2>2
<1> QED BY <1>2, <1>3, <1>4

LEMMA SubmitKeeps ==
    ASSUME LoginInv, AskedOK, SubmitQuery
    PROVE  LoginInv' /\ AskedOK'
<1> DEFINE hasBody == asked.made.method = "POST" /\ DOMAIN asked.made.values # {}
           body == IF hasBody THEN "values" ELSE "none"
<1>1. /\ at = "prepared" /\ at' = "query" /\ outcome' = outcome /\ asked' = NotAsked
      /\ request' = [method |-> asked.made.method, url |-> "target", body |-> body]
      /\ posted' = IF body = "none" THEN posted ELSE Posts(body)
  BY DEF SubmitQuery, Send
<1>2. asked.made.method \in {"GET", "POST"}
  <2>1. PICK kind \in QueryKinds, o \in Operations, period \in Periods :
          /\ ValidEndpoint(kind, o) /\ o.path # "none"
          /\ ~AcademicRequest(o, period, Extra(kind, o)).error
          /\ asked = [kind |-> kind, operation |-> o, period |-> period,
                      made |-> AcademicRequest(o, period, Extra(kind, o))]
    BY <1>1 DEF AskedOK, IsQuery
  <2>2. asked.made.method = o.method
    BY <2>1 DEF AcademicRequest
  <2>3. o.method \in {"GET", "POST"}
    BY <2>1 DEF ValidEndpoint, ValidOperation
  <2> QED BY <2>2, <2>3
<1>3. RequestOK'
  <2> HIDE DEF hasBody
  <2>1. hasBody => asked.made.method = "POST"
    BY DEF hasBody
  <2> QED BY <1>1, <1>2, <2>1
          DEF RequestOK, Requests, Form, Url, Under, AllowedHost, FormsStayHome, NoRequest
<1>4. /\ posted' \in [Form -> Nat]
      /\ posted'.password = 0 /\ posted'.continue = 0 /\ posted'.values \in {0, 1}
  <2>1. posted \in [Form -> Nat] /\ posted.password = 0 /\ posted.continue = 0 /\ posted.values = 0
    BY <1>1 DEF LoginInv, Counted
  <2>2. posted' \in {posted, [posted EXCEPT !["values"] = @ + 1]}
    <3> HIDE DEF hasBody
    <3> QED BY <1>1 DEF Posts
  <2> QED BY <2>1, <2>2 DEF Form
<1>5. Counted'
  BY <1>1, <1>4 DEF Counted, Fresh, FormsSentOnce
<1>6. ExpiredStaysExpired' /\ at' \in Under /\ outcome' = "none"
  BY <1>1 DEF LoginInv, ExpiredStaysExpired, Under
<1>7. LoginInv'
  BY <1>1, <1>3, <1>5, <1>6 DEF LoginInv
<1> QED BY <1>1, <1>7 DEF AskedOK, IsQuery

(* The answer is read when the conversation is over.                       *)
LEMMA ReadKeeps ==
    ASSUME LoginInv, AskedOK, UNCHANGED asked, Accepted \/ UNCHANGED vars
    PROVE  LoginInv' /\ AskedOK'
<1>1. CASE UNCHANGED vars
  <2>1. LoginInv'
    BY <1>1, StepKeeps
  <2> QED BY <1>1, <2>1 DEF AskedOK, IsQuery, vars
<1>2. CASE Accepted
  <2>1. /\ at' = at /\ request' = request /\ posted' = posted
        /\ outcome = "accepted" /\ outcome' = outcome
    BY <1>2 DEF Accepted
  <2>2. LoginInv'
    BY <2>1 DEF LoginInv, RequestOK, FormsStayHome, Counted, FormsSentOnce, ExpiredStaysExpired
  <2> QED BY <2>1, <2>2 DEF AskedOK, IsQuery
<1> QED BY <1>1, <1>2

-----------------------------------------------------------------------------
(* All places of a sequence: it is kept as it is.                          *)
LEMMA AllKept ==
    ASSUME NEW n \in Nat
    PROVE  /\ IsFiniteSet(1..n) /\ Cardinality(1..n) = n
           /\ \A k \in 1..n : Nth(1..n, k) = k
<1>1. IsFiniteSet(1..n) /\ Cardinality(1..n) = n
  BY FS_Interval
<1>2. ASSUME NEW k \in 1..n PROVE Nth(1..n, k) = k
  <2>1. Below(1..n, k) = 1..k
    BY DEF Below
  <2>2. Cardinality(1..k) = k
    BY FS_Interval
  <2>3. 1..n \in SUBSET Nat
    OBVIOUS
  <2> QED BY <2>1, <2>2, <2>3, <1>1, NthPlace
<1> QED BY <1>1, <1>2

LEMMA KeptWhole ==
    ASSUME NEW n \in Nat, NEW s, s = [k \in 1..n |-> s[k]]
    PROVE  Kept(s, 1..n) = s
<1>1. Kept(s, 1..n) = [k \in 1..n |-> s[Nth(1..n, k)]]
  BY AllKept DEF Kept
<1>2. \A k \in 1..n : s[Nth(1..n, k)] = s[k]
  BY AllKept
<1> QED BY <1>1, <1>2

-----------------------------------------------------------------------------
(* The pages of a catalog.                                                 *)

LEMMA MinOfTwo ==
    ASSUME NEW a \in Int, NEW b \in Int
    PROVE  Min({a, b}) = IF a <= b THEN a ELSE b
BY DEF Min

LEMMA MaxOfTwo ==
    ASSUME NEW a \in Int, NEW b \in Int
    PROVE  Max({a, b}) = IF a <= b THEN b ELSE a
BY DEF Max

LEMMA Quotient ==
    ASSUME NEW a \in Nat, NEW b \in Nat \ {0}
    PROVE  /\ a \div b \in Nat
           /\ b * (a \div b) <= a /\ a < b * (a \div b) + b
OBVIOUS

(* catalogPageCount.                                                       *)
LEMMA PageCounted ==
    ASSUME NEW total \in Nat, NEW size \in Nat \ {0}
    PROVE  /\ PageCount(total, size) \in Nat
           /\ total <= PageCount(total, size) * size
           /\ PageCount(total, size) * size < total + size
<1> DEFINE count == (total + size - 1) \div size
<1>1. total + size - 1 \in Nat
  OBVIOUS
<1>2. /\ count \in Nat
      /\ size * count <= total + size - 1 /\ total + size - 1 < size * count + size
  BY <1>1, Quotient
<1>3. size * count = count * size /\ size * count \in Int
  BY <1>2
<1> HIDE DEF count
<1> QED BY <1>2, <1>3 DEF PageCount, count

LEMMA MoreOfMore ==
    ASSUME NEW p \in Nat, NEW a \in Nat, NEW b \in Nat, a <= b
    PROVE  p * a <= p * b /\ a * p <= b * p
<1>1. p * (b - a) \in Nat
  OBVIOUS
<1>2. p * b = p * a + p * (b - a) /\ b * p = p * b /\ a * p = p * a
  OBVIOUS
<1> QED BY <1>1, <1>2

(* A page has the rows after those of the pages before it, and a page that *)
(* is full or follows the others ends where it should.                     *)
RowCount(c, p) == LET rest == c.rows - (p - 1) * c.size
                  IN  IF rest <= 0 THEN 0 ELSE IF rest <= c.size THEN rest ELSE c.size

CatalogRow(k) == [key |-> {k}, name |-> "course", cells |-> 9,
                  period |-> "", year |-> 2025, term |-> "autumn"]

LEMMA RowsOfPage ==
    ASSUME NEW c \in SchoolCatalog, NEW p \in Nat \ {0}
    PROVE  /\ (p - 1) * c.size \in Nat /\ p * c.size = (p - 1) * c.size + c.size
           /\ RowCount(c, p) \in Nat
           /\ DOMAIN RowsOf(c, p) = 1..RowCount(c, p)
           /\ Len(RowsOf(c, p)) = RowCount(c, p)
           /\ RowsOf(c, p) = [i \in 1..RowCount(c, p) |-> RowsOf(c, p)[i]]
           /\ \A i \in 1..RowCount(c, p) :
                 RowsOf(c, p)[i] = CatalogRow((p - 1) * c.size + i)
<1> DEFINE before == (p - 1) * c.size
           row(i) == CatalogRow(before + i)
<1>1. /\ c.rows \in Nat /\ c.size \in Nat /\ c.size # 0
  BY DEF SchoolCatalog
<1>2. before \in Nat /\ p * c.size = before + c.size
  BY <1>1
<1>3. RowCount(c, p) \in Nat
  <2> HIDE DEF before
  <2> QED BY <1>1, <1>2 DEF RowCount, before
<1>4. Min({c.size, Max({0, c.rows - before})}) = RowCount(c, p)
  <2> DEFINE rest == c.rows - before
  <2>1. rest \in Int
    BY <1>1, <1>2
  <2>2. RowCount(c, p) = IF rest <= 0 THEN 0 ELSE IF rest <= c.size THEN rest ELSE c.size
    BY DEF RowCount
  <2> HIDE DEF rest
  <2>3. Max({0, rest}) = IF 0 <= rest THEN rest ELSE 0
    BY <2>1, MaxOfTwo
  <2>4. Max({0, rest}) \in Int
    BY <2>1, <2>3
  <2>5. Min({c.size, Max({0, rest})}) =
           IF c.size <= Max({0, rest}) THEN c.size ELSE Max({0, rest})
    BY <1>1, <2>4, MinOfTwo
  <2>6. Min({c.size, Max({0, rest})}) = RowCount(c, p)
    BY <1>1, <2>1, <2>2, <2>3, <2>5
  <2> QED BY <2>6 DEF rest
<1>5. RowsOf(c, p) = [i \in 1..RowCount(c, p) |-> row(i)]
  BY <1>4 DEF RowsOf, CatalogRow
<1>6. /\ DOMAIN RowsOf(c, p) = 1..RowCount(c, p)
      /\ \A i \in 1..RowCount(c, p) : RowsOf(c, p)[i] = row(i)
      /\ RowsOf(c, p) = [i \in 1..RowCount(c, p) |-> RowsOf(c, p)[i]]
  <2> HIDE DEF row
  <2> QED BY <1>5
<1>7. Len(RowsOf(c, p)) = RowCount(c, p)
  <2> HIDE DEF row
  <2> QED BY <1>3, <1>5
<1> QED BY <1>2, <1>3, <1>6, <1>7

LEMMA EntriesOfPage ==
    ASSUME NEW c \in SchoolCatalog, NEW p \in Nat \ {0}, NEW count, NEW total
    PROVE  /\ CatalogPage(p, count, total, RowsOf(c, p)).entries =
                 [i \in 1..RowCount(c, p) |-> {(p - 1) * c.size + i}]
           /\ CatalogPage(p, count, total, RowsOf(c, p)).hasMore = (p < count)
           /\ CatalogPage(p, count, total, RowsOf(c, p)).total = total
<1>1. CatalogPage(p, count, total, RowsOf(c, p)).entries =
         [i \in DOMAIN RowsOf(c, p) |-> RowsOf(c, p)[i].key]
  BY DEF CatalogPage
<1>2. /\ DOMAIN RowsOf(c, p) = 1..RowCount(c, p)
      /\ \A i \in 1..RowCount(c, p) : RowsOf(c, p)[i].key = {(p - 1) * c.size + i}
  <2>1. \A k : CatalogRow(k).key = {k}
    BY DEF CatalogRow
  <2> QED BY <2>1, RowsOfPage
<1> QED BY <1>1, <1>2 DEF CatalogPage

(* parseUndergraduateCatalogPage.                                          *)
LastPage(c, p) == c.rows <= p * c.size
PageIs(c, p, size, read) ==
    /\ read.entries = [i \in 1..RowCount(c, p) |-> {(p - 1) * c.size + i}]
    /\ ~read.hasMore /\ SizeKnown(c, size) => LastPage(c, p) /\ read.total = c.rows

LEMMA UndergraduatePage ==
    ASSUME NEW c \in SchoolCatalog, NEW p \in Nat \ {0}, NEW size \in Nat \ {0},
           c.level = "undergraduate", ~ReadPage(c, p, size).error
    PROVE  PageIs(c, p, size, ReadPage(c, p, size))
<1> DEFINE own == IF "size" \in c.tells THEN c.size ELSE size
           count == PageCount(c.rows, own)
<1>1. /\ c.rows \in Nat /\ c.size \in Nat \ {0} /\ own \in Nat \ {0}
  BY DEF SchoolCatalog
<1>2. OwnSize(AnswerOf(c, p), size) = own
  <2>1. AnswerOf(c, p).limit = IF "size" \in c.tells THEN c.size ELSE NotStated
    BY DEF AnswerOf, IfTold
  <2> QED BY <2>1, <1>1 DEF OwnSize, NotStated
<1>3. ReadPage(c, p, size) = CatalogPage(p, count, c.rows, RowsOf(c, p))
  <2>1. /\ AnswerOf(c, p).total = c.rows /\ AnswerOf(c, p).rows = RowsOf(c, p)
    BY DEF AnswerOf
  <2>2. ReadPage(c, p, size) = ParseUndergraduateCatalogPage("period", p, size, AnswerOf(c, p))
    BY DEF ReadPage
  <2>3. ReadPage(c, p, size) \in {CatalogPage(p, count, c.rows, RowsOf(c, p)), CatalogError}
    <3> HIDE DEF own
    <3> QED BY <2>1, <2>2, <1>2 DEF ParseUndergraduateCatalogPage
  <2> QED BY <2>3 DEF CatalogError
<1>4. ASSUME ~(p < count), SizeKnown(c, size) PROVE LastPage(c, p)
  <2>1. own <= c.size
    BY <1>1, <1>4 DEF SizeKnown
  <2> HIDE DEF own
  <2>2. count \in Nat /\ c.rows <= count * own
    BY <1>1, PageCounted
  <2>3. count <= p
    BY <1>4, <2>2
  <2>4. count * own <= p * own /\ p * own <= p * c.size
    BY <1>1, <2>1, <2>2, <2>3, MoreOfMore
  <2>5. count * own \in Int /\ p * own \in Int /\ p * c.size \in Int
    BY <1>1, <2>2
  <2> HIDE DEF count
  <2> QED BY <1>1, <2>2, <2>4, <2>5 DEF LastPage
<1> QED
  <2> HIDE DEF count, own
  <2>1. /\ ReadPage(c, p, size).entries = [i \in 1..RowCount(c, p) |-> {(p - 1) * c.size + i}]
        /\ ReadPage(c, p, size).hasMore = (p < count)
        /\ ReadPage(c, p, size).total = c.rows
    BY <1>3, EntriesOfPage
  <2> QED BY <2>1, <1>4 DEF PageIs

LEMMA UnionAtMost ==
    ASSUME NEW S, NEW T, IsFiniteSet(S), IsFiniteSet(T), NEW a \in Nat, NEW b \in Nat,
           Cardinality(S) \in 0..a, Cardinality(T) \in 0..b
    PROVE  IsFiniteSet(S \cup T) /\ Cardinality(S \cup T) \in 0..(a + b)
<1>1. /\ IsFiniteSet(S \cup T)
      /\ Cardinality(S \cup T) = Cardinality(S) + Cardinality(T) - Cardinality(S \cap T)
  BY FS_Union
<1>2. IsFiniteSet(S \cap T)
  BY FS_Subset
<1>3. Cardinality(S \cap T) \in Nat /\ Cardinality(S \cup T) \in Nat
  BY <1>1, <1>2, FS_CardinalityType
<1> QED BY <1>1, <1>3

(* graduateTableRows, of the one table of a graduate's page, whose rows    *)
(* have a cell for every header.                                           *)
LEMMA NineHeaders == Cardinality(CatalogHeaders) \in 0..9
<1> DEFINE first == {"year", "term", "number"}
           second == {"name", "department", "language"}
           third == {"teacher", "time", "note"}
<1>1. \A x, y, z : IsFiniteSet({x, y, z}) /\ Cardinality({x, y, z}) \in 0..3
  <2> TAKE x, y, z
  <2>1. IsFiniteSet({x}) /\ Cardinality({x}) = 1
    BY FS_Singleton
  <2>2. IsFiniteSet({x} \cup {y}) /\ Cardinality({x} \cup {y}) \in 0..2
    BY <2>1, FS_AddElement
  <2>3. IsFiniteSet({x} \cup {y} \cup {z}) /\ Cardinality({x} \cup {y} \cup {z}) \in 0..3
    BY <2>2, FS_AddElement
  <2>4. {x} \cup {y} \cup {z} = {x, y, z}
    OBVIOUS
  <2> QED BY <2>3, <2>4
<1>2. /\ IsFiniteSet(first) /\ Cardinality(first) \in 0..3
      /\ IsFiniteSet(second) /\ Cardinality(second) \in 0..3
      /\ IsFiniteSet(third) /\ Cardinality(third) \in 0..3
  BY <1>1
<1>3. CatalogHeaders = (first \cup second) \cup third
  BY DEF CatalogHeaders
<1> HIDE DEF first, second, third
<1>4. /\ IsFiniteSet(first \cup second)
      /\ Cardinality(first \cup second) \in 0..(3 + 3)
  BY <1>2, UnionAtMost, 3 \in Nat
<1>5. Cardinality((first \cup second) \cup third) \in 0..((3 + 3) + 3)
  <2>1. 3 \in Nat /\ 3 + 3 \in Nat
    OBVIOUS
  <2> QED BY <2>1, <1>2, <1>4, UnionAtMost
<1> QED BY <1>3, <1>5

LEMMA GraduateTable ==
    ASSUME NEW c \in SchoolCatalog, NEW p \in Nat \ {0}
    PROVE  GraduateRows(<<[headers |-> CatalogHeaders, rows |-> RowsOf(c, p)]>>, CatalogHeaders)
              = {RowsOf(c, p)}
<1> DEFINE table == [headers |-> CatalogHeaders, rows |-> RowsOf(c, p)]
           tables == <<table>>
           m == RowCount(c, p)
           fitting == {t \in DOMAIN tables : CatalogHeaders \subseteq tables[t].headers}
           full == {i \in DOMAIN table.rows : table.rows[i].cells >= Cardinality(table.headers)}
<1>1. fitting = {1} /\ tables[1] = table
  OBVIOUS
<1>2. Min({1}) = 1
  BY DEF Min
<1>3. full = 1..m
  <2>1. table.rows = RowsOf(c, p) /\ table.headers = CatalogHeaders
    OBVIOUS
  <2>2. \A k : CatalogRow(k).cells = 9
    BY DEF CatalogRow
  <2>3. /\ DOMAIN RowsOf(c, p) = 1..m
        /\ \A i \in 1..m : RowsOf(c, p)[i].cells = 9
    BY <2>2, RowsOfPage
  <2>4. 9 >= Cardinality(CatalogHeaders)
    BY NineHeaders
  <2> HIDE DEF table
  <2> QED BY <2>1, <2>3, <2>4
<1>4. Kept(RowsOf(c, p), 1..m) = RowsOf(c, p)
  BY RowsOfPage, KeptWhole
<1>5. GraduateRows(tables, CatalogHeaders) =
         IF fitting = {} THEN {}
         ELSE {Kept(tables[Min(fitting)].rows,
                    {i \in DOMAIN tables[Min(fitting)].rows :
                        tables[Min(fitting)].rows[i].cells >=
                            Cardinality(tables[Min(fitting)].headers)})}
  BY DEF GraduateRows
<1>6. GraduateRows(tables, CatalogHeaders) = {Kept(table.rows, full)}
  <2> HIDE DEF tables, table
  <2> QED BY <1>1, <1>2, <1>5
<1>7. table.rows = RowsOf(c, p)
  OBVIOUS
<1> QED
  <2> HIDE DEF full, m
  <2> QED BY <1>3, <1>4, <1>6, <1>7

(* graduateCatalogPageCount: the last page linked to is the last there is, *)
(* unless that is the page itself and it has no link.                      *)
LEMMA LinkedPages ==
    ASSUME NEW P \in Nat, NEW p \in Nat \ {0}, NEW told \in BOOLEAN,
           p = Max(((1..P) \ (IF told THEN {} ELSE {p})) \cup {0})
    PROVE  p = P
<1> DEFINE links == (1..P) \ (IF told THEN {} ELSE {p})
           S == links \cup {0}
<1>1. S \in SUBSET (0..P) /\ S # {}
  OBVIOUS
<1>2. Max(S) \in S /\ \A y \in S : y <= Max(S)
  <2> HIDE DEF S
  <2> QED BY <1>1, MaxIsGreatest
<1>3. p \in 1..P
  BY <1>2
<1>4. P # p => P \in links
  BY <1>3
<1>5. P # p => P <= p
  <2>1. p = Max(links \cup {0})
    OBVIOUS
  <2> HIDE DEF links
  <2> QED BY <1>2, <1>4, <2>1
<1> QED BY <1>3, <1>5

(* parseGraduateCatalogPage.                                               *)
LEMMA GraduatePage ==
    ASSUME NEW c \in SchoolCatalog, NEW p \in Nat \ {0}, NEW size \in Nat \ {0},
           c.level # "undergraduate", ~ReadPage(c, p, size).error
    PROVE  PageIs(c, p, size, ReadPage(c, p, size))
<1> DEFINE answer == AnswerOf(c, p)
           rows == RowsOf(c, p)
           P == PagesOf(c)
           count == GraduatePageCount(answer)
           total == IF answer.total # NotStated THEN answer.total
                    ELSE IF p = count THEN (count - 1) * size + Len(rows)
                    ELSE 0
           told == "linked" \in c.tells
<1>1. /\ c.rows \in Nat /\ c.size \in Nat \ {0}
  BY DEF SchoolCatalog
<1>2. /\ answer.total = IF "total" \in c.tells THEN c.rows ELSE NotStated
      /\ answer.pages = IF "pages" \in c.tells THEN P ELSE NotStated
      /\ answer.links = (1..P) \ (IF told THEN {} ELSE {p})
  BY DEF AnswerOf, IfTold
<1>3. GraduateRows(answer.tables, CatalogHeaders) = {rows}
  <2>1. answer.tables = <<[headers |-> CatalogHeaders, rows |-> rows]>>
    BY DEF AnswerOf
  <2> QED BY <2>1, GraduateTable
<1>4. /\ ReadPage(c, p, size) = CatalogPage(p, count, total, rows)
      /\ rows # <<>> /\ p <= count
  <2> DEFINE found == GraduateRows(answer.tables, CatalogHeaders)
             read == IF found = {} THEN <<>> ELSE CHOOSE r \in found : TRUE
             stated == IF answer.total # NotStated THEN answer.total
                       ELSE IF p = count THEN (count - 1) * size + Len(read)
                       ELSE 0
  <2> HIDE DEF answer, rows
  <2>1. read = rows
    <3>1. (CHOOSE r \in {rows} : TRUE) = rows
      OBVIOUS
    <3> QED BY <1>3, <3>1
  <2>2. ReadPage(c, p, size) = ParseGraduateCatalogPage(<<2025, "autumn">>, p, size, answer)
    BY DEF ReadPage, answer
  <2>3. \/ /\ ReadPage(c, p, size) = CatalogPage(p, count, stated, read)
           /\ read # <<>> /\ p <= count
        \/ ReadPage(c, p, size) = CatalogError
    BY <2>2, Zenon DEF ParseGraduateCatalogPage
  <2>4. CatalogError.error
    BY DEF CatalogError
  <2>5. stated = total
    <3> HIDE DEF read, count
    <3> QED BY <2>1
  <2> HIDE DEF read, stated, total, count
  <2> QED BY <2>1, <2>3, <2>4, <2>5
<1>5. P \in Nat /\ c.rows <= P * c.size
  BY <1>1, PageCounted DEF PagesOf, PageCount
<1>6. count = IF "pages" \in c.tells THEN P ELSE Max(answer.links \cup {0})
  <2>1. P # NotStated
    BY <1>5 DEF NotStated
  <2> HIDE DEF answer, P
  <2> QED BY <1>2, <2>1 DEF GraduatePageCount
<1>7. count \in Nat
  <2>1. answer.links \cup {0} \in SUBSET (0..P) /\ answer.links \cup {0} # {}
    BY <1>2, <1>5
  <2>2. Max(answer.links \cup {0}) \in 0..P
    <3> HIDE DEF answer, P
    <3> QED BY <1>5, <2>1, MaxIsGreatest
  <2> HIDE DEF answer, P, count
  <2> QED BY <1>5, <1>6, <2>2
<1>8. ASSUME ~(p < count) PROVE p = count /\ p = P
  <2>1. p = count
    <3> HIDE DEF count
    <3> QED BY <1>4, <1>7, <1>8
  <2>2. told \in BOOLEAN
    OBVIOUS
  <2> HIDE DEF answer, P, count, told
  <2>3. CASE "pages" \in c.tells
    BY <1>6, <2>1, <2>3
  <2>4. CASE "pages" \notin c.tells
    BY <1>2, <1>5, <1>6, <2>1, <2>2, <2>4, LinkedPages
  <2> QED BY <2>1, <2>3, <2>4
<1>9. ASSUME ~(p < count), SizeKnown(c, size) PROVE LastPage(c, p) /\ total = c.rows
  <2>1. LastPage(c, p)
    <3> HIDE DEF P, count
    <3> QED BY <1>5, <1>8, <1>9 DEF LastPage
  <2>2. CASE "total" \in c.tells
    <3>1. answer.total = c.rows /\ answer.total # NotStated
      BY <1>1, <1>2, <2>2 DEF NotStated
    <3> QED
      <4> HIDE DEF answer, count, rows
      <4> QED BY <2>1, <3>1
  <2>3. CASE "total" \notin c.tells
    <3>1. answer.total = NotStated /\ c.size = size
      BY <1>2, <1>9, <2>3 DEF SizeKnown
    <3>2. total = (p - 1) * c.size + Len(rows)
      <4> HIDE DEF answer, count, rows
      <4> QED BY <1>8, <1>9, <3>1
    <3>3. /\ (p - 1) * c.size \in Nat /\ p * c.size = (p - 1) * c.size + c.size
          /\ Len(rows) = RowCount(c, p) /\ DOMAIN rows = 1..RowCount(c, p)
      BY RowsOfPage
    <3>4. RowCount(c, p) # 0
      <4>1. \A f : f = [i \in 1..RowCount(c, p) |-> f[i]] /\ RowCount(c, p) = 0 => f = <<>>
        OBVIOUS
      <4>2. rows = [i \in 1..RowCount(c, p) |-> rows[i]]
        BY RowsOfPage
      <4> HIDE DEF rows
      <4> QED BY <1>4, <4>1, <4>2
    <3>5. RowCount(c, p) = c.rows - (p - 1) * c.size
      <4> DEFINE before == (p - 1) * c.size
      <4>1. before \in Nat /\ p * c.size = before + c.size
        BY <3>3
      <4>2. RowCount(c, p) = IF c.rows - before <= 0 THEN 0
                             ELSE IF c.rows - before <= c.size THEN c.rows - before ELSE c.size
        BY DEF RowCount
      <4>3. c.rows <= before + c.size
        BY <2>1, <4>1 DEF LastPage
      <4> HIDE DEF before
      <4>4. RowCount(c, p) = c.rows - before
        BY <1>1, <3>4, <4>1, <4>2, <4>3
      <4> QED BY <4>4 DEF before
    <3>6. total = c.rows
      <4> DEFINE before == (p - 1) * c.size
      <4> HIDE DEF before, total, rows
      <4>1. total = before + (c.rows - before) /\ before \in Nat
        BY <3>2, <3>3, <3>5 DEF before
      <4> QED BY <1>1, <4>1
    <3> QED BY <2>1, <3>6
  <2> QED BY <2>2, <2>3
<1> QED
  <2> HIDE DEF answer, rows, P, count, total, told
  <2>1. /\ ReadPage(c, p, size).entries = [i \in 1..RowCount(c, p) |-> {(p - 1) * c.size + i}]
        /\ ReadPage(c, p, size).hasMore = (p < count)
        /\ ReadPage(c, p, size).total = total
    BY <1>4, EntriesOfPage DEF rows
  <2> QED BY <2>1, <1>9 DEF PageIs

(* ListCourseCatalogPage: what a reader has, after so many pages.          *)
Gathered(c, p) == IF c.rows <= p * c.size THEN c.rows ELSE p * c.size

CatalogOK ==
    listed.kind = "catalog" =>
        /\ listed.shown \in SchoolCatalog /\ listed.size \in Nat \ {0}
        /\ listed.page \in Nat \ {0}
        /\ listed.records = [k \in 1..Gathered(listed.shown, listed.page) |-> {k}]
        /\ ~listed.more /\ SizeKnown(listed.shown, listed.size) =>
               LastPage(listed.shown, listed.page) /\ listed.total = listed.shown.rows

LEMMA PageGathers ==
    ASSUME NEW c \in SchoolCatalog, NEW p \in Nat \ {0}
    PROVE  [k \in 1..Gathered(c, p - 1) |-> {k}]
             \o [i \in 1..RowCount(c, p) |-> {(p - 1) * c.size + i}]
              = [k \in 1..Gathered(c, p) |-> {k}]
<1> DEFINE before == (p - 1) * c.size
           g == Gathered(c, p - 1)
           m == RowCount(c, p)
           s == [k \in 1..g |-> {k}]
           t == [i \in 1..m |-> {before + i}]
<1>1. c.rows \in Nat /\ c.size \in Nat \ {0}
  BY DEF SchoolCatalog
<1>2. /\ before \in Nat /\ p * c.size = before + c.size
  BY RowsOfPage
<1>3. /\ g = IF c.rows <= before THEN c.rows ELSE before
      /\ Gathered(c, p) = IF c.rows <= before + c.size THEN c.rows ELSE before + c.size
      /\ m = IF c.rows - before <= 0 THEN 0
             ELSE IF c.rows - before <= c.size THEN c.rows - before ELSE c.size
  BY <1>2 DEF Gathered, RowCount
<1> HIDE DEF before
<1>4. g \in Nat /\ m \in Nat /\ (m # 0 => g = before) /\ Gathered(c, p) = g + m
  <2> HIDE DEF g, m
  <2> QED BY <1>1, <1>2, <1>3
<1> HIDE DEF g, m
<1>5. s \in Seq(SUBSET Nat) /\ Len(s) = g /\ t \in Seq(SUBSET Nat) /\ Len(t) = m
  <2>1. s \in [1..g -> SUBSET Nat] /\ t \in [1..m -> SUBSET Nat]
    BY <1>2, <1>4
  <2> QED BY <1>4, <2>1
<1>6. /\ s \o t \in Seq(SUBSET Nat) /\ Len(s \o t) = g + m
      /\ \A i \in 1..(g + m) : (s \o t)[i] = IF i <= g THEN s[i] ELSE t[i - g]
  <2> HIDE DEF s, t
  <2> QED BY <1>5, ConcatProperties
<1>7. \A i \in 1..(g + m) : (s \o t)[i] = {i}
  <2> TAKE i \in 1..(g + m)
  <2>1. CASE i <= g
    BY <1>4, <1>6, <2>1
  <2>2. CASE ~(i <= g)
    <3>1. i - g \in 1..m /\ m # 0
      BY <1>4, <2>2
    <3>2. t[i - g] = {before + (i - g)}
      BY <3>1
    <3>3. before + (i - g) = i
      BY <1>2, <1>4, <3>1
    <3> QED BY <1>6, <2>2, <3>2, <3>3
  <2> QED BY <2>1, <2>2
<1>8. s \o t = [k \in 1..(g + m) |-> {k}]
  <2> DEFINE u == [k \in 1..(g + m) |-> {k}]
  <2>1. u \in Seq(SUBSET Nat) /\ Len(u) = g + m /\ \A i \in 1..(g + m) : u[i] = {i}
    <3>1. u \in [1..(g + m) -> SUBSET Nat]
      BY <1>4
    <3> QED BY <1>4, <3>1
  <2> HIDE DEF s, t, u
  <2>2. s \o t = u
    BY <1>6, <1>7, <2>1, SeqEqual
  <2> QED BY <2>2 DEF u
<1> QED BY <1>4, <1>8 DEF g, m, before

LEMMA TurnReads ==
    ASSUME NEW catalog, catalog.shown \in SchoolCatalog, catalog.size \in Nat \ {0},
           NEW p \in Nat \ {0}, NEW records,
           records = [k \in 1..Gathered(catalog.shown, p - 1) |-> {k}],
           Turn(catalog, p, records)
    PROVE  CatalogOK'
<1> DEFINE c == catalog.shown
           size == catalog.size
           read == ReadPage(c, p, size)
<1>1. \/ listed'.kind = "unreadable"
      \/ /\ ~read.error
         /\ listed' = [kind |-> "catalog", shown |-> c, size |-> size,
                       page |-> p, records |-> records \o read.entries,
                       more |-> read.hasMore, total |-> read.total]
  <2> HIDE DEF read
  <2> QED BY DEF Turn, read
<1>2. CASE listed'.kind = "unreadable"
  BY <1>2 DEF CatalogOK
<1>3. CASE /\ ~read.error
           /\ listed' = [kind |-> "catalog", shown |-> c, size |-> size,
                         page |-> p, records |-> records \o read.entries,
                         more |-> read.hasMore, total |-> read.total]
  <2>1. PageIs(c, p, size, read)
    BY <1>3, UndergraduatePage, GraduatePage
  <2>2. records \o read.entries = [k \in 1..Gathered(c, p) |-> {k}]
    BY <2>1, PageGathers DEF PageIs
  <2> HIDE DEF read, c, size
  <2>3. /\ listed'.shown = c /\ listed'.size = size /\ listed'.page = p
        /\ listed'.records = [k \in 1..Gathered(c, p) |-> {k}]
        /\ listed'.more = read.hasMore /\ listed'.total = read.total
    BY <1>3, <2>2
  <2>4. ~listed'.more /\ SizeKnown(listed'.shown, listed'.size) =>
            LastPage(listed'.shown, listed'.page) /\ listed'.total = listed'.shown.rows
    BY <2>1, <2>3 DEF PageIs
  <2>5. /\ listed'.shown \in SchoolCatalog /\ listed'.size \in Nat \ {0}
        /\ listed'.page \in Nat \ {0}
        /\ listed'.records = [k \in 1..Gathered(listed'.shown, listed'.page) |-> {k}]
    BY <2>3 DEF c, size
  <2> QED BY <2>4, <2>5 DEF CatalogOK
<1> QED BY <1>1, <1>2, <1>3

LEMMA CatalogsRead ==
    ASSUME CatalogOK
    PROVE  CatalogReadOnce
<1> SUFFICES ASSUME listed.kind = "catalog", ~listed.more,
                    SizeKnown(listed.shown, listed.size)
             PROVE  /\ listed.records = [k \in 1 .. listed.shown.rows |-> {k}]
                    /\ listed.total = listed.shown.rows
  BY DEF CatalogReadOnce
<1>1. LastPage(listed.shown, listed.page) /\ listed.total = listed.shown.rows
  BY DEF CatalogOK
<1>2. Gathered(listed.shown, listed.page) = listed.shown.rows
  BY <1>1 DEF LastPage, Gathered
<1> QED BY <1>1, <1>2 DEF CatalogOK

-----------------------------------------------------------------------------
(* What is kept of a sequence.                                             *)

(* What is kept of what was kept was kept from the first.                  *)
PlacesOf(P, Q) == {Nth(P, q) : q \in Q}

LEMMA KeptTwice ==
    ASSUME NEW P \in SUBSET Nat, IsFiniteSet(P), NEW Q \in SUBSET (1..Cardinality(P))
    PROVE  /\ PlacesOf(P, Q) \in SUBSET P /\ IsFiniteSet(PlacesOf(P, Q)) /\ IsFiniteSet(Q)
           /\ Cardinality(PlacesOf(P, Q)) = Cardinality(Q)
           /\ \A n \in 1..Cardinality(Q) :
                 /\ Nth(Q, n) \in Q
                 /\ Nth(PlacesOf(P, Q), n) = Nth(P, Nth(Q, n))
<1> DEFINE R == PlacesOf(P, Q)
<1>1. Cardinality(P) \in Nat /\ \A q \in Q : Nth(P, q) \in P
  BY NthPlace
<1>2. R \in SUBSET P /\ IsFiniteSet(R) /\ R \in SUBSET Nat
  <2>1. R \in SUBSET P /\ R \in SUBSET Nat
    BY <1>1 DEF PlacesOf
  <2> HIDE DEF R
  <2> QED BY <2>1, FS_Subset
<1>3. IsFiniteSet(Q) /\ Q \in SUBSET Nat
  <2>1. Cardinality(P) \in Int /\ IsFiniteSet(1..Cardinality(P))
    BY <1>1, FS_Interval
  <2>2. 1..Cardinality(P) \in SUBSET Nat
    BY <1>1
  <2> QED BY <2>1, <2>2, FS_Subset
<1>4. \A q, r \in Q : /\ q < r => Nth(P, q) < Nth(P, r)
                      /\ Nth(P, q) = Nth(P, r) => q = r
  BY NthInOrder, NthPlace
<1>5. \A q, r \in Q : Nth(P, q) <= Nth(P, r) <=> q <= r
  <2> TAKE q, r \in Q
  <2>1. q \in Int /\ r \in Int /\ Nth(P, q) \in Int /\ Nth(P, r) \in Int
    <3>1. \A i \in P : i \in Int
      OBVIOUS
    <3>2. \A i \in Q : i \in Int
      BY <1>3
    <3> QED BY <1>1, <3>1, <3>2
  <2> QED BY <1>4, <2>1
<1>6. ASSUME NEW A \in SUBSET Q
      PROVE  Cardinality(PlacesOf(P, A)) = Cardinality(A)
  <2> DEFINE f == [q \in A |-> Nth(P, q)]
  <2>1. f \in Bijection(A, PlacesOf(P, A))
    <3>1. f \in [A -> PlacesOf(P, A)] /\ \A y \in PlacesOf(P, A) : \E q \in A : f[q] = y
      BY DEF PlacesOf
    <3>2. \A q, r \in A : f[q] = f[r] => q = r
      BY <1>4
    <3> HIDE DEF f
    <3> QED BY <3>1, <3>2 DEF Bijection, Injection, Surjection, IsInjective
  <2>2. IsFiniteSet(A)
    BY <1>3, FS_Subset
  <2>3. ExistsBijection(A, PlacesOf(P, A))
    BY <2>1 DEF ExistsBijection
  <2> QED BY <2>2, <2>3, FS_Bijection
<1>7. ASSUME NEW n \in 1..Cardinality(Q)
      PROVE  Nth(Q, n) \in Q /\ Nth(R, n) = Nth(P, Nth(Q, n))
  <2> DEFINE q == Nth(Q, n)
             A == Below(Q, q)
  <2>1. q \in Q /\ Cardinality(A) = n
    BY <1>3, NthPlace
  <2>2. Below(R, Nth(P, q)) = PlacesOf(P, A)
    <3>1. \A r \in Q : Nth(P, r) <= Nth(P, q) <=> r <= q
      BY <2>1, <1>5
    <3> HIDE DEF q
    <3> QED BY <3>1 DEF Below, PlacesOf
  <2>3. A \in SUBSET Q
    BY DEF Below
  <2>4. Cardinality(Below(R, Nth(P, q))) = n
    <3> HIDE DEF A, q, R
    <3> QED BY <2>1, <2>2, <2>3, <1>6
  <2>5. Nth(P, q) \in R
    <3> HIDE DEF q
    <3> QED BY <2>1 DEF PlacesOf
  <2> HIDE DEF q, A, R
  <2>6. Nth(R, n) = Nth(P, q)
    BY <2>4, <2>5, <1>2, NthPlace
  <2> QED BY <2>1, <2>6 DEF q
<1> QED BY <1>2, <1>3, <1>6, <1>7

-----------------------------------------------------------------------------
(* The rows of an answer do not depend on how it carries them.             *)

(* unwrapRows.                                                             *)
Array(rows) == [shape |-> "array", rows |-> rows]
Object(fields) == [shape |-> "object", fields |-> fields]
Clean(rows) == {i \in DOMAIN rows : rows[i] # Junk}

LEMMA RowsAreClean ==
    ASSUME NEW rows \in Seq(AnyGradeRow)
    PROVE  /\ rows = [k \in 1..Len(rows) |-> rows[k]] /\ Len(rows) \in Nat
           /\ \A i \in 1..Len(rows) : rows[i] # Junk
           /\ Kept(rows, Clean(rows)) = rows
           /\ Kept(rows \o <<Junk>>, Clean(rows \o <<Junk>>)) = rows
<1>1. /\ rows = [k \in 1..Len(rows) |-> rows[k]] /\ Len(rows) \in Nat
      /\ DOMAIN rows = 1..Len(rows)
  OBVIOUS
<1>2. \A i \in 1..Len(rows) : rows[i] # Junk
  <2>1. \A i \in 1..Len(rows) : rows[i] \in AnyGradeRow
    OBVIOUS
  <2>2. Junk \notin AnyGradeRow
    <3>1. \A r \in AnyGradeRow : "name" \in DOMAIN r
      BY DEF AnyGradeRow
    <3>2. DOMAIN Junk = {"junk"}
      BY DEF Junk
    <3> QED BY <3>1, <3>2
  <2> QED BY <2>1, <2>2
<1>3. Clean(rows) = 1..Len(rows)
  BY <1>1, <1>2 DEF Clean
<1>4. Kept(rows, Clean(rows)) = rows
  BY <1>1, <1>3, KeptWhole
<1>5. /\ DOMAIN (rows \o <<Junk>>) = 1..(Len(rows) + 1)
      /\ \A i \in 1..Len(rows) : (rows \o <<Junk>>)[i] = rows[i]
      /\ (rows \o <<Junk>>)[Len(rows) + 1] = Junk
  OBVIOUS
<1>6. Clean(rows \o <<Junk>>) = 1..Len(rows)
  <2> DEFINE more == rows \o <<Junk>>
  <2> HIDE DEF more
  <2>1. Clean(more) = 1..Len(rows)
    BY <1>1, <1>2, <1>5 DEF Clean, more
  <2> QED BY <2>1 DEF more
<1>7. Kept(rows \o <<Junk>>, 1..Len(rows)) = rows
  <2> DEFINE more == rows \o <<Junk>>
  <2> HIDE DEF more
  <2>1. Kept(more, 1..Len(rows)) = [n \in 1..Len(rows) |-> more[Nth(1..Len(rows), n)]]
    BY <1>1, AllKept DEF Kept
  <2>2. \A n \in 1..Len(rows) : more[Nth(1..Len(rows), n)] = rows[n]
    BY <1>1, <1>5, AllKept DEF more
  <2>3. Kept(more, 1..Len(rows)) = [n \in 1..Len(rows) |-> rows[n]]
    BY <2>1, <2>2
  <2> QED BY <2>3, <1>1 DEF more
<1> QED BY <1>1, <1>2, <1>4, <1>6, <1>7

(* An object leads to its rows under the one of its keys that does.        *)
LEMMA OneLeads ==
    ASSUME NEW found, NEW k \in 1..5, RowKeys[k] \in DOMAIN found, found[RowKeys[k]] # {},
           \A j \in 1..5 : j # k /\ RowKeys[j] \in DOMAIN found => found[RowKeys[j]] = {}
    PROVE  Leads(found) = found[RowKeys[k]]
<1> DEFINE leading == {j \in DOMAIN RowKeys :
                          RowKeys[j] \in DOMAIN found /\ found[RowKeys[j]] # {}}
<1>1. DOMAIN RowKeys = 1..5
  BY DEF RowKeys
<1>2. leading = {k}
  BY <1>1
<1>3. Min({k}) = k
  BY DEF Min
<1>4. Leads(found) = IF leading = {} THEN {} ELSE found[RowKeys[Min(leading)]]
  BY DEF Leads
<1> QED BY <1>2, <1>3, <1>4

(* htmlRows: what the tables are flattened to is what any sum of them that *)
(* adds one table at a time comes to.                                      *)
SumsUp(g, seqs) ==
    g = [i \in 1..Len(seqs) |-> IF i = 1 THEN seqs[i] ELSE g[i - 1] \o seqs[i]]

LEMMA Flattens ==
    ASSUME NEW seqs, NEW n \in Nat \ {0}, Len(seqs) = n, NEW g, SumsUp(g, seqs)
    PROVE  FlattenSeq(seqs) = g[n]
<1> DEFINE Sums(f) == f = [i \in 1..Len(seqs) |-> IF i = 1 THEN seqs[i] ELSE f[i - 1] \o seqs[i]]
           h == CHOOSE f : Sums(f)
<1>1. FlattenSeq(seqs) = h[n]
  <2>1. Len(seqs) # 0
    OBVIOUS
  <2> QED BY <2>1, Zenon DEF FlattenSeq
<1>2. Sums(g)
  BY DEF SumsUp
<1>3. Sums(h)
  <2> HIDE DEF Sums
  <2> QED BY <1>2
<1>4. \A i \in 1..n : /\ g[i] = IF i = 1 THEN seqs[i] ELSE g[i - 1] \o seqs[i]
                      /\ h[i] = IF i = 1 THEN seqs[i] ELSE h[i - 1] \o seqs[i]
  <2>1. h = [i \in 1..n |-> IF i = 1 THEN seqs[i] ELSE h[i - 1] \o seqs[i]]
    <3> HIDE DEF h
    <3> QED BY <1>3
  <2> HIDE DEF h
  <2>2. \A i \in 1..n : h[i] = IF i = 1 THEN seqs[i] ELSE h[i - 1] \o seqs[i]
    BY <2>1, Zenon
  <2>3. \A i \in 1..n : g[i] = IF i = 1 THEN seqs[i] ELSE g[i - 1] \o seqs[i]
    BY Zenon DEF SumsUp
  <2> QED BY <2>2, <2>3
<1> HIDE DEF h
<1> DEFINE apart == {i \in 1..n : g[i] # h[i]}
<1>5. apart = {}
  <2> SUFFICES ASSUME apart # {} PROVE FALSE
    OBVIOUS
  <2>1. apart \in SUBSET Nat
    OBVIOUS
  <2>2. PICK i \in apart : \A j \in apart : i <= j
    <3> HIDE DEF apart
    <3> QED BY <2>1, LeastNatural
  <2>3. i \in 1..n /\ g[i] # h[i]
    OBVIOUS
  <2>4. i # 1
    BY <1>4, <2>3
  <2>5. i - 1 \in 1..n /\ ~(i <= i - 1)
    BY <2>3, <2>4
  <2>6. g[i - 1] = h[i - 1]
    BY <2>2, <2>5
  <2>7. g[i] = g[i - 1] \o seqs[i] /\ h[i] = h[i - 1] \o seqs[i]
    BY <1>4, <2>3, <2>4, Zenon
  <2> QED BY <2>3, <2>6, <2>7
<1>6. n \in 1..n
  OBVIOUS
<1> QED BY <1>1, <1>5, <1>6

LEMMA TablesOfRows ==
    ASSUME NEW S, NEW rows \in Seq(S)
    PROVE  /\ FlattenSeq(<<<<>>, rows>>) = rows
           /\ rows # <<>> => FlattenSeq([i \in DOMAIN rows |-> <<rows[i]>>]) = rows
           /\ rows = <<>> => FlattenSeq([i \in DOMAIN rows |-> <<rows[i]>>]) = <<>>
<1>1. FlattenSeq(<<<<>>, rows>>) = rows
  <2> DEFINE seqs == <<<<>>, rows>>
             g == [i \in 1..2 |-> IF i = 1 THEN <<>> ELSE rows]
  <2>1. seqs[1] = <<>> /\ seqs[2] = rows /\ Len(seqs) = 2
    OBVIOUS
  <2>2. <<>> \o rows = rows
    BY ConcatEmptySeq
  <2>3. g[1] = <<>> /\ g[2] = rows
    OBVIOUS
  <2> HIDE DEF seqs
  <2>4. g = [i \in 1..2 |-> IF i = 1 THEN seqs[i] ELSE g[i - 1] \o seqs[i]]
    <3>1. \A i \in 1..2 : g[i] = IF i = 1 THEN seqs[i] ELSE g[i - 1] \o seqs[i]
      <4> TAKE i \in 1..2
      <4>1. i = 1 \/ i = 2
        OBVIOUS
      <4>2. 2 - 1 = 1
        OBVIOUS
      <4> HIDE DEF g
      <4> QED BY <2>1, <2>2, <2>3, <4>1, <4>2
    <3>2. g = [i \in 1..2 |-> g[i]]
      OBVIOUS
    <3> HIDE DEF g
    <3> QED BY <3>1, <3>2
  <2> HIDE DEF g
  <2>5. FlattenSeq(seqs) = g[2]
    <3>1. 2 \in Nat \ {0}
      OBVIOUS
    <3>2. SumsUp(g, seqs)
      BY <2>1, <2>4, Zenon DEF SumsUp
    <3> QED BY <2>1, <3>1, <3>2, Flattens
  <2> QED BY <2>3, <2>5 DEF seqs
<1> DEFINE tables == [i \in DOMAIN rows |-> <<rows[i]>>]
           n == Len(rows)
<1>2. n \in Nat /\ DOMAIN rows = 1..n /\ Len(tables) = n
  OBVIOUS
<1>3. ASSUME rows # <<>> PROVE FlattenSeq(tables) = rows
  <2> DEFINE g == [i \in 1..n |-> SubSeq(rows, 1, i)]
  <2>1. n \in Nat \ {0}
    BY <1>3, EmptySeq
  <2>2. ASSUME NEW i \in 1..n
        PROVE  g[i] = IF i = 1 THEN tables[i] ELSE g[i - 1] \o tables[i]
    <3>1. SubSeq(rows, 1, i) = SubSeq(rows, 1, i - 1) \o <<rows[i]>>
      <4>1. 1 \in 1..Len(rows) /\ i \in 1..Len(rows)
        BY <2>1
      <4> QED BY <4>1, SubSeqRecursiveSecond
    <3>2. CASE i = 1
      <4>1. SubSeq(rows, 1, 0) = <<>>
        BY SubSeqEmpty
      <4>2. <<rows[i]>> \in Seq(S)
        OBVIOUS
      <4>3. <<>> \o <<rows[i]>> = <<rows[i]>>
        BY <4>2, ConcatEmptySeq
      <4>4. SubSeq(rows, 1, 1 - 1) = <<>>
        BY <4>1
      <4> QED BY <3>1, <3>2, <4>3, <4>4
    <3>3. CASE i # 1
      <4>1. i - 1 \in 1..n
        BY <1>2, <3>3
      <4> QED BY <3>1, <3>3, <4>1
    <3> QED BY <3>2, <3>3
  <2>3. g = [i \in 1..n |-> g[i]]
    OBVIOUS
  <2>4. g[n] = rows
    BY <2>1, SubSeqFull
  <2> HIDE DEF g, tables
  <2>5. g = [i \in 1..n |-> IF i = 1 THEN tables[i] ELSE g[i - 1] \o tables[i]]
    BY <2>2, <2>3
  <2> HIDE DEF n
  <2>6. FlattenSeq(tables) = g[n]
    <3>1. SumsUp(g, tables)
      BY <1>2, <2>5, Zenon DEF SumsUp
    <3> QED BY <1>2, <2>1, <3>1, Flattens
  <2> QED BY <2>4, <2>6
<1>4. ASSUME rows = <<>> PROVE FlattenSeq(tables) = <<>>
  <2>1. tables = <<>> /\ Len(<<>>) = 0
    BY <1>4
  <2> QED BY <2>1 DEF FlattenSeq
<1> QED BY <1>1, <1>3, <1>4

(* A JSON answer, as deep as it is.                                        *)
LEMMA ArrayAnswers ==
    ASSUME NEW rows \in Seq(AnyGradeRow)
    PROVE  /\ ArrayRows(Array(rows)) = {rows} /\ ArrayRows(Array(rows \o <<Junk>>)) = {rows}
           /\ FieldRows(Array(rows)) = {rows}
           /\ UnwrapRows(Array(rows \o <<Junk>>)) = {rows}
<1>1. \A r : /\ ArrayRows(Array(r)) = {Kept(r, Clean(r))}
             /\ FieldRows(Array(r)) = ArrayRows(Array(r))
             /\ UnwrapRows(Array(r)) = ArrayRows(Array(r))
  <2> TAKE r
  <2>1. Array(r).shape = "array" /\ Array(r).rows = r
    BY DEF Array
  <2> QED BY <2>1 DEF ArrayRows, Clean, FieldRows, UnwrapRows
<1> QED BY <1>1, RowsAreClean

LEMMA ObjectAnswers ==
    ASSUME NEW fields
    PROVE  /\ ArrayRows(Object(fields)) = {}
           /\ FieldRows(Object(fields)) =
                 Leads([key \in DOMAIN fields |-> ArrayRows(fields[key])])
           /\ UnwrapRows(Object(fields)) =
                 Leads([key \in DOMAIN fields |-> FieldRows(fields[key])])
<1>1. Object(fields).shape = "object" /\ Object(fields).fields = fields
  BY DEF Object
<1> QED BY <1>1 DEF ArrayRows, FieldRows, UnwrapRows

Number == [shape |-> "number"]
Listed(rows) == [list |-> Array(rows), code |-> Number]
Inner(rows) == [list |-> Object([total |-> Number]), items |-> Array(rows)]
Nested(rows) == [data |-> Object(Inner(rows))]

LEMMA KeysInOrder ==
    /\ RowKeys[1] = "data" /\ RowKeys[2] = "rows" /\ RowKeys[3] = "list"
    /\ RowKeys[4] = "result" /\ RowKeys[5] = "items"
    /\ \A j \in 1..5 : j = 1 \/ j = 2 \/ j = 3 \/ j = 4 \/ j = 5
BY DEF RowKeys

LEMMA ListedRows ==
    ASSUME NEW rows \in Seq(AnyGradeRow)
    PROVE  UnwrapRows(Object(Listed(rows))) = {rows}
<1> DEFINE fields == Listed(rows)
           found == [key \in DOMAIN fields |-> FieldRows(fields[key])]
<1>1. DOMAIN fields = {"list", "code"} /\ fields["list"] = Array(rows)
  BY DEF Listed
<1>2. FieldRows(Array(rows)) = {rows}
  BY ArrayAnswers
<1> HIDE DEF fields
<1>3. DOMAIN found = {"list", "code"} /\ found["list"] = {rows}
  BY <1>1, <1>2
<1> HIDE DEF found
<1>4. Leads(found) = found[RowKeys[3]]
  <2>1. \A j \in 1..5 : j # 3 => RowKeys[j] \notin DOMAIN found
    BY <1>3, KeysInOrder
  <2>2. RowKeys[3] \in DOMAIN found /\ found[RowKeys[3]] # {}
    BY <1>3, KeysInOrder
  <2>3. 3 \in 1..5
    OBVIOUS
  <2> QED BY <2>1, <2>2, <2>3, OneLeads
<1>5. UnwrapRows(Object(fields)) = Leads(found)
  BY ObjectAnswers DEF found
<1> QED BY <1>3, <1>4, <1>5, KeysInOrder DEF fields

LEMMA InnerRows ==
    ASSUME NEW rows \in Seq(AnyGradeRow)
    PROVE  FieldRows(Object(Inner(rows))) = {rows}
<1> DEFINE fields == Inner(rows)
           found == [key \in DOMAIN fields |-> ArrayRows(fields[key])]
<1>1. /\ DOMAIN fields = {"list", "items"}
      /\ fields["items"] = Array(rows) /\ fields["list"] = Object([total |-> Number])
  BY DEF Inner
<1>2. ArrayRows(Array(rows)) = {rows} /\ ArrayRows(Object([total |-> Number])) = {}
  BY ArrayAnswers, ObjectAnswers
<1> HIDE DEF fields
<1>3. DOMAIN found = {"list", "items"} /\ found["items"] = {rows} /\ found["list"] = {}
  BY <1>1, <1>2
<1> HIDE DEF found
<1>4. Leads(found) = found[RowKeys[5]]
  <2>1. \A j \in 1..5 : j # 5 /\ RowKeys[j] \in DOMAIN found => found[RowKeys[j]] = {}
    BY <1>3, KeysInOrder
  <2>2. RowKeys[5] \in DOMAIN found /\ found[RowKeys[5]] # {}
    BY <1>3, KeysInOrder
  <2>3. 5 \in 1..5
    OBVIOUS
  <2> QED BY <2>1, <2>2, <2>3, OneLeads
<1>5. FieldRows(Object(fields)) = Leads(found)
  BY ObjectAnswers DEF found
<1> QED BY <1>3, <1>4, <1>5, KeysInOrder DEF fields

LEMMA NestedRows ==
    ASSUME NEW rows \in Seq(AnyGradeRow)
    PROVE  UnwrapRows(Object(Nested(rows))) = {rows}
<1> DEFINE fields == Nested(rows)
           found == [key \in DOMAIN fields |-> FieldRows(fields[key])]
<1>1. DOMAIN fields = {"data"} /\ fields["data"] = Object(Inner(rows))
  BY DEF Nested
<1> HIDE DEF fields
<1>2. DOMAIN found = {"data"} /\ found["data"] = {rows}
  BY <1>1, InnerRows
<1> HIDE DEF found
<1>3. Leads(found) = found[RowKeys[1]]
  <2>1. \A j \in 1..5 : j # 1 => RowKeys[j] \notin DOMAIN found
    BY <1>2, KeysInOrder
  <2>2. RowKeys[1] \in DOMAIN found /\ found[RowKeys[1]] # {}
    BY <1>2, KeysInOrder
  <2>3. 1 \in 1..5
    OBVIOUS
  <2> QED BY <2>1, <2>2, <2>3, OneLeads
<1>4. UnwrapRows(Object(fields)) = Leads(found)
  BY ObjectAnswers DEF found
<1> QED BY <1>2, <1>3, <1>4, KeysInOrder DEF fields

LEMMA AnswersAlike ==
    ASSUME NEW rows \in Seq(AnyGradeRow), NEW shape \in AnswerShapes,
           NEW found \in TabularRows(AnswerIn(shape, rows))
    PROVE  found = rows
<1>1. CASE shape = "array"
  <2>1. AnswerIn(shape, rows) = [encoding |-> "json", payload |-> Array(rows \o <<Junk>>)]
    BY <1>1 DEF AnswerIn, Array
  <2>2. TabularRows(AnswerIn(shape, rows)) = UnwrapRows(Array(rows \o <<Junk>>))
    BY <2>1 DEF TabularRows
  <2> QED BY <2>2, ArrayAnswers
<1>2. CASE shape = "rows"
  <2>1. AnswerIn(shape, rows) = [encoding |-> "json", payload |-> Object(Listed(rows))]
    BY <1>2 DEF AnswerIn, Array, Object, Listed, Number
  <2>2. TabularRows(AnswerIn(shape, rows)) = UnwrapRows(Object(Listed(rows)))
    BY <2>1 DEF TabularRows
  <2> QED BY <2>2, ListedRows
<1>3. CASE shape = "nested"
  <2>1. AnswerIn(shape, rows) = [encoding |-> "json", payload |-> Object(Nested(rows))]
    BY <1>3 DEF AnswerIn, Array, Object, Nested, Inner, Number
  <2>2. TabularRows(AnswerIn(shape, rows)) = UnwrapRows(Object(Nested(rows)))
    BY <2>1 DEF TabularRows
  <2> QED BY <2>2, NestedRows
<1>4. CASE shape = "table"
  <2>1. AnswerIn(shape, rows) = [encoding |-> "html", tables |-> <<<<>>, rows>>]
    BY <1>4 DEF AnswerIn
  <2>2. TabularRows(AnswerIn(shape, rows)) = HtmlRows(<<<<>>, rows>>)
    BY <2>1 DEF TabularRows
  <2> QED BY <2>2, TablesOfRows DEF HtmlRows
<1>5. CASE shape = "tables"
  <2> DEFINE tables == [i \in DOMAIN rows |-> <<rows[i]>>]
  <2>1. AnswerIn(shape, rows) = [encoding |-> "html", tables |-> tables]
    BY <1>5 DEF AnswerIn
  <2>2. FlattenSeq(tables) = rows \/ FlattenSeq(tables) = <<>>
    BY TablesOfRows
  <2>3. rows = <<>> => FlattenSeq(tables) = <<>>
    BY TablesOfRows
  <2> HIDE DEF tables
  <2>4. TabularRows(AnswerIn(shape, rows)) = HtmlRows(tables)
    BY <2>1 DEF TabularRows
  <2> QED BY <2>2, <2>3, <2>4 DEF HtmlRows
<1> QED BY <1>1, <1>2, <1>3, <1>4, <1>5 DEF AnswerShapes

-----------------------------------------------------------------------------
(* parseGrades: of the named rows with one key, the first.                 *)

Named(rows) == {i \in DOMAIN rows : rows[i].name # ""}
Firsts(rows) == {i \in DOMAIN rows : FirstOfKey(rows, i)}

(* Of the named rows of one grade, one is the first.                       *)
LEMMA FirstsOfKeys ==
    ASSUME NEW rows \in Seq(AnyGradeRow)
    PROVE  OneOfEach(rows, Firsts(rows))
<1>1. Len(rows) \in Nat /\ DOMAIN rows = 1..Len(rows)
  OBVIOUS
<1>2. Firsts(rows) \subseteq Named(rows) /\ Named(rows) \subseteq 1..Len(rows)
  BY <1>1 DEF Firsts, Named, FirstOfKey
<1>3. Named(rows) \in SUBSET Nat
  BY <1>1, <1>2
<1>4. \A i \in Named(rows) : i \in Nat \ {0} /\ i \in 1..Len(rows)
  BY <1>1, <1>2
<1>5. ASSUME NEW i \in DOMAIN rows \ Firsts(rows), rows[i].name # ""
      PROVE  \E j \in Firsts(rows) : SameGrade(rows[i], rows[j])
  <2>1. i \in Named(rows)
    BY <1>5 DEF Named
  <2>2. rows[i].key # ""
    BY <1>5 DEF Firsts, FirstOfKey
  <2> DEFINE same == {j \in Named(rows) : rows[j].key = rows[i].key}
  <2>3. same \in SUBSET Nat /\ i \in same
    BY <1>3, <2>1
  <2>4. PICK j \in same : \A k \in same : j <= k
    <3> HIDE DEF same
    <3> QED BY <2>3, LeastNatural
  <2>5. \A k \in 1..(j - 1) : k \notin same
    <3>1. j \in Nat
      BY <1>4
    <3>2. \A k \in 1..(j - 1) : ~(j <= k)
      BY <3>1
    <3> HIDE DEF same
    <3> QED BY <2>4, <3>2
  <2>6. j \in 1..Len(rows) /\ rows[j].name # "" /\ rows[j].key = rows[i].key
    BY <1>4 DEF Named
  <2>7. \A k \in 1..(j - 1) : k \in DOMAIN rows
    <3>1. Len(rows) \in Int /\ j \in Int /\ j <= Len(rows)
      <4>1. Len(rows) \in Int /\ j \in 1..Len(rows)
        BY <1>1, <1>4
      <4> QED BY <4>1
    <3>2. \A k \in 1..(j - 1) : k \in 1..Len(rows)
      BY <3>1
    <3> QED BY <1>1, <3>2
  <2>8. FirstOfKey(rows, j)
    BY <2>5, <2>6, <2>7 DEF FirstOfKey, Named
  <2>9. j \in Firsts(rows) /\ SameGrade(rows[i], rows[j])
    BY <1>1, <2>2, <2>6, <2>8 DEF Firsts, SameGrade
  <2> QED BY <2>9
<1>6. ASSUME NEW i \in Firsts(rows), NEW j \in Firsts(rows), i # j
      PROVE  ~SameGrade(rows[i], rows[j])
  <2> SUFFICES ASSUME SameGrade(rows[i], rows[j]) PROVE FALSE
    OBVIOUS
  <2>1. ~(j \in 1..(i - 1)) /\ ~(i \in 1..(j - 1))
    BY <1>2 DEF Firsts, FirstOfKey, SameGrade, Named
  <2>2. i \in Int /\ j \in Int /\ 1 <= i /\ 1 <= j
    BY <1>2, <1>4
  <2>3. i < j => i \in 1..(j - 1)
    BY <2>2
  <2>4. j < i => j \in 1..(i - 1)
    BY <2>2
  <2>5. i < j \/ j < i \/ i = j
    BY <2>2
  <2> QED BY <1>6, <2>1, <2>3, <2>4, <2>5
<1>7. \A i \in Firsts(rows) : rows[i].name # ""
  BY DEF Firsts, FirstOfKey
<1> QED BY <1>5, <1>6, <1>7 DEF OneOfEach

LEMMA GradesKept ==
    ASSUME NEW rows \in Seq(AnyGradeRow)
    PROVE  /\ Firsts(rows) \in SUBSET DOMAIN rows
           /\ ParseGrades(rows, "period") = GradesAt(rows, Firsts(rows))
<1> DEFINE F == Firsts(rows)
           s == [i \in F |-> Grade(rows[i], i, "period")]
           t == [i \in DOMAIN rows |-> Grade(rows[i], i, "period")]
<1>1. F \in SUBSET DOMAIN rows
  BY DEF Firsts
<1>2. F \in SUBSET Nat /\ IsFiniteSet(F)
  <2>1. DOMAIN rows = 1..Len(rows) /\ Len(rows) \in Nat
    OBVIOUS
  <2>2. IsFiniteSet(1..Len(rows)) /\ 1..Len(rows) \in SUBSET Nat
    BY <2>1, FS_Interval
  <2> HIDE DEF F
  <2> QED BY <1>1, <2>1, <2>2, FS_Subset
<1>3. ParseGrades(rows, "period") = Kept(s, F)
  <2>1. DOMAIN s = F
    OBVIOUS
  <2>2. ParseGrades(rows, "period") = Records(s)
    BY DEF ParseGrades, Firsts
  <2> HIDE DEF s
  <2> QED BY <2>1, <2>2 DEF Records
<1>4. GradesAt(rows, F) = Kept(t, F)
  BY DEF GradesAt
<1>5. \A i \in F : s[i] = t[i]
  BY <1>1
<1> HIDE DEF F, s, t
<1>6. \A n \in 1..Cardinality(F) : Nth(F, n) \in F
  BY <1>2, NthPlace
<1>7. Kept(s, F) = Kept(t, F)
  BY <1>5, <1>6 DEF Kept
<1> QED BY <1>1, <1>3, <1>4, <1>7 DEF F

-----------------------------------------------------------------------------
(* A graduate's transcript: the rows of the period, in their order.        *)

(* graduateTableRows: the rows that are long enough.                       *)
Full(rows) == {i \in DOMAIN rows : rows[i].cells >= Cardinality(Transcript)}

LEMMA TranscriptFound ==
    ASSUME NEW rows
    PROVE  GraduateRows(TranscriptPage(rows), Transcript) = {Kept(rows, Full(rows))}
<1> DEFINE other == [headers |-> {"year"}, rows |-> <<>>]
           table == [headers |-> Transcript, rows |-> rows]
           tables == <<other, table>>
           fitting == {t \in DOMAIN tables : Transcript \subseteq tables[t].headers}
<1>1. TranscriptPage(rows) = tables
  BY DEF TranscriptPage
<1>2. /\ DOMAIN tables = {1, 2} /\ tables[1] = other /\ tables[2] = table
      /\ other.headers = {"year"} /\ table.headers = Transcript /\ table.rows = rows
  <2>1. DOMAIN tables = 1..2 /\ 1..2 = {1, 2}
    OBVIOUS
  <2> QED BY <2>1
<1>3. ~(Transcript \subseteq {"year"})
  BY DEF Transcript
<1> HIDE DEF other, table
<1>4. fitting = {2} /\ tables[2] = table
  <2> HIDE DEF tables
  <2> QED BY <1>2, <1>3
<1>5. Min({2}) = 2
  BY DEF Min
<1>6. GraduateRows(tables, Transcript) =
         IF fitting = {} THEN {}
         ELSE {Kept(tables[Min(fitting)].rows,
                    {i \in DOMAIN tables[Min(fitting)].rows :
                        tables[Min(fitting)].rows[i].cells >=
                            Cardinality(tables[Min(fitting)].headers)})}
  BY DEF GraduateRows
<1> HIDE DEF tables, fitting
<1>7. GraduateRows(tables, Transcript) =
         {Kept(table.rows, {i \in DOMAIN table.rows :
                               table.rows[i].cells >= Cardinality(table.headers)})}
  BY <1>4, <1>5, <1>6
<1> QED BY <1>1, <1>2, <1>7 DEF Full

LEMMA PeriodsOfRows ==
    ASSUME NEW row, NEW period
    PROVE  /\ InPeriod(GraduateGradePeriod(row), period) <=>
                 row.year # 0 /\ row.term \in {"autumn", "spring", ""} /\ OfPeriod(row, period)
           /\ InPeriod(GraduatePeriod(row), period) <=>
                 row.year # 0 /\ row.term \in {"autumn", "spring"} /\ OfPeriod(row, period)
           /\ row.year # 0 /\ row.term \in {"autumn", "spring", ""} =>
                 GraduateGradePeriod(row) = {<<row.year, row.term>>}
           /\ row.year # 0 /\ row.term \in {"autumn", "spring"} =>
                 GraduatePeriod(row) = {<<row.year, row.term>>}
<1> DEFINE own == <<row.year, row.term>>
<1>1. /\ row.year # 0 /\ row.term \in {"autumn", "spring"} => GraduatePeriod(row) = {own}
      /\ ~(row.year # 0 /\ row.term \in {"autumn", "spring"}) => GraduatePeriod(row) = {}
  BY DEF GraduatePeriod
<1>2. /\ row.year # 0 /\ row.term \in {"autumn", "spring", ""} => GraduateGradePeriod(row) = {own}
      /\ ~(row.year # 0 /\ row.term \in {"autumn", "spring", ""}) => GraduateGradePeriod(row) = {}
  <2>1. row.year # 0 /\ row.term = "" => GraduateGradePeriod(row) = {own}
    BY DEF GraduateGradePeriod
  <2>2. ~(row.year # 0 /\ row.term = "") => GraduateGradePeriod(row) = GraduatePeriod(row)
    BY DEF GraduateGradePeriod
  <2> HIDE DEF own
  <2> QED BY <1>1, <2>1, <2>2
<1>3. OfPeriod(row, period) <=> period = <<>> \/ own = period
  BY DEF OfPeriod
<1> HIDE DEF own
<1>4. /\ InPeriod({own}, period) <=> OfPeriod(row, period)
      /\ ~InPeriod({}, period)
  BY <1>3 DEF InPeriod
<1>5. CASE row.year # 0 /\ row.term \in {"autumn", "spring"}
  BY <1>1, <1>2, <1>4, <1>5 DEF own
<1>6. CASE row.year # 0 /\ row.term = ""
  BY <1>1, <1>2, <1>4, <1>6 DEF own
<1>7. CASE ~(row.year # 0 /\ row.term \in {"autumn", "spring", ""})
  BY <1>1, <1>2, <1>4, <1>7
<1> QED BY <1>5, <1>6, <1>7

(* Of the rows kept, those at some places are those at these places' own.  *)
LEMMA PlacesWithin ==
    ASSUME NEW P \in SUBSET Nat, IsFiniteSet(P), NEW Q \in SUBSET (1..Cardinality(P)),
           NEW W \in SUBSET P, \A q \in 1..Cardinality(P) : q \in Q <=> Nth(P, q) \in W
    PROVE  PlacesOf(P, Q) = W
<1>1. ASSUME NEW i \in W PROVE \E q \in Q : Nth(P, q) = i
  <2>1. /\ Cardinality(Below(P, i)) \in 1..Cardinality(P)
        /\ Nth(P, Cardinality(Below(P, i))) = i
    BY NthPlace
  <2> QED BY <2>1
<1> QED BY <1>1 DEF PlacesOf

LEMMA SomePlaces ==
    ASSUME NEW n \in Nat, NEW P \in SUBSET (1..n)
    PROVE  P \in SUBSET Nat /\ IsFiniteSet(P)
<1>1. IsFiniteSet(1..n)
  BY AllKept
<1>2. 1..n \in SUBSET Nat
  OBVIOUS
<1> QED BY <1>1, <1>2, FS_Subset

(* The records made of some rows of those kept.                            *)
LEMMA RecordsOfRows ==
    ASSUME NEW rows, NEW s, NEW P \in SUBSET Nat, IsFiniteSet(P), NEW W \in SUBSET P,
           NEW Q \in SUBSET (1..Cardinality(P)), DOMAIN s = Q,
           \A q \in 1..Cardinality(P) : q \in Q <=> Nth(P, q) \in W,
           \A q \in Q : /\ s[q].name = rows[Nth(P, q)].name
                        /\ s[q].period = {<<rows[Nth(P, q)].year, rows[Nth(P, q)].term>>}
    PROVE  SameRows(Records(s), Kept(rows, W))
<1>1. W \in SUBSET Nat /\ IsFiniteSet(W)
  BY FS_Subset
<1>2. PlacesOf(P, Q) = W
  BY PlacesWithin
<1>3. /\ IsFiniteSet(Q) /\ Cardinality(W) = Cardinality(Q)
      /\ \A n \in 1..Cardinality(Q) : Nth(Q, n) \in Q /\ Nth(W, n) = Nth(P, Nth(Q, n))
  BY <1>2, KeptTwice
<1>4. Q \in SUBSET Nat
  <2>1. Cardinality(P) \in Nat
    BY NthPlace
  <2> QED BY <2>1
<1>5. /\ Len(Kept(s, Q)) = Cardinality(Q)
      /\ \A n \in 1..Cardinality(Q) : Kept(s, Q)[n] = s[Nth(Q, n)]
  BY <1>3, <1>4, KeptMembers
<1>6. /\ Len(Kept(rows, W)) = Cardinality(Q) /\ DOMAIN Kept(rows, W) = 1..Cardinality(Q)
      /\ \A n \in 1..Cardinality(Q) : Kept(rows, W)[n] = rows[Nth(P, Nth(Q, n))]
  BY <1>1, <1>3, KeptMembers
<1>7. ASSUME NEW n \in 1..Cardinality(Q)
      PROVE  /\ Kept(s, Q)[n].name = Kept(rows, W)[n].name
             /\ Kept(s, Q)[n].period = {<<Kept(rows, W)[n].year, Kept(rows, W)[n].term>>}
  <2>1. Nth(Q, n) \in Q
    BY <1>3
  <2>2. Kept(s, Q)[n] = s[Nth(Q, n)] /\ Kept(rows, W)[n] = rows[Nth(P, Nth(Q, n))]
    BY <1>5, <1>6
  <2> QED BY <2>1, <2>2
<1>8. SameRows(Kept(s, Q), Kept(rows, W))
  BY <1>5, <1>6, <1>7, Zenon DEF SameRows
<1> QED BY <1>8 DEF Records

LEMMA FullRows ==
    ASSUME NEW rows \in Seq(AnyTranscriptRow)
    PROVE  Full(rows) \in SUBSET Nat /\ IsFiniteSet(Full(rows))
<1>1. Len(rows) \in Nat /\ Full(rows) \in SUBSET (1..Len(rows))
  BY DEF Full
<1> QED BY <1>1, SomePlaces

LEMMA TranscriptKept ==
    ASSUME NEW rows \in Seq(AnyTranscriptRow), NEW period,
           NEW found \in GraduateRows(TranscriptPage(rows), Transcript)
    PROVE  SameRows(ParseGraduateGrades(found, period),
                    Kept(rows, InTranscript(rows, period, {"autumn", "spring", ""})
                                   \cap Released(rows)))
<1> DEFINE P == Full(rows)
           W == InTranscript(rows, period, {"autumn", "spring", ""}) \cap Released(rows)
           grade(row, i) ==
               [id |-> <<row.name, i>>, period |-> GraduateGradePeriod(row), name |-> row.name,
                value |-> GraduateGradeValue(row)]
           Q == {i \in DOMAIN found : /\ InPeriod(GraduateGradePeriod(found[i]), period)
                                      /\ found[i].name # ""
                                      /\ GraduateGradeValue(found[i]) # {}}
           s == [i \in Q |-> grade(found[i], i)]
<1>1. P \in SUBSET Nat /\ IsFiniteSet(P)
  BY FullRows
<1>2. found = Kept(rows, P)
  BY TranscriptFound
<1>3. /\ DOMAIN found = 1..Cardinality(P)
      /\ \A q \in 1..Cardinality(P) : Nth(P, q) \in P /\ found[q] = rows[Nth(P, q)]
  <2> HIDE DEF P
  <2> QED BY <1>1, <1>2, KeptMembers
<1>4. \A i \in P : i \in W <=> /\ InPeriod(GraduateGradePeriod(rows[i]), period)
                               /\ rows[i].name # "" /\ GraduateGradeValue(rows[i]) # {}
  BY PeriodsOfRows DEF InTranscript, Released, Full
<1>5. W \in SUBSET P
  BY DEF InTranscript, Full
<1>6. Q \in SUBSET (1..Cardinality(P)) /\ DOMAIN s = Q
  BY <1>3
<1>7. \A q \in 1..Cardinality(P) : q \in Q <=> Nth(P, q) \in W
  <2> HIDE DEF P, W
  <2> QED BY <1>3, <1>4
<1>8. ASSUME NEW q \in Q
      PROVE  /\ s[q].name = rows[Nth(P, q)].name
             /\ s[q].period = {<<rows[Nth(P, q)].year, rows[Nth(P, q)].term>>}
  <2>1. s[q].name = found[q].name /\ s[q].period = GraduateGradePeriod(found[q])
    OBVIOUS
  <2>2. GraduateGradePeriod(found[q]) = {<<found[q].year, found[q].term>>}
    BY PeriodsOfRows
  <2>3. found[q] = rows[Nth(P, q)]
    BY <1>3, <1>6
  <2> HIDE DEF s, P, Q
  <2> QED BY <2>1, <2>2, <2>3
<1>9. ParseGraduateGrades(found, period) = Records(s)
  BY DEF ParseGraduateGrades
<1> HIDE DEF P, W, Q, s
<1>10. SameRows(Records(s), Kept(rows, W))
  BY <1>1, <1>5, <1>6, <1>7, <1>8, RecordsOfRows
<1> QED BY <1>9, <1>10 DEF W

LEMMA ChosenKept ==
    ASSUME NEW rows \in Seq(AnyTranscriptRow), NEW period,
           NEW found \in GraduateRows(TranscriptPage(rows), Transcript),
           NEW selections \in ParseGraduateSelections(found, period)
    PROVE  SameRows(selections, Kept(rows, InTranscript(rows, period, {"autumn", "spring"})))
<1> DEFINE P == Full(rows)
           W == InTranscript(rows, period, {"autumn", "spring"})
           selection(row, i) ==
               [id |-> <<row.name, i>>, period |-> GraduatePeriod(row), name |-> row.name,
                status |-> GraduateSelectionStatus(ToSet(row.result)),
                result |-> ToSet(row.result)]
           Q == {i \in DOMAIN found :
                    InPeriod(GraduatePeriod(found[i]), period) /\ found[i].name # ""}
           s == [i \in Q |-> selection(found[i], i)]
<1>1. P \in SUBSET Nat /\ IsFiniteSet(P)
  BY FullRows
<1>2. found = Kept(rows, P)
  BY TranscriptFound
<1>3. /\ DOMAIN found = 1..Cardinality(P)
      /\ \A q \in 1..Cardinality(P) : Nth(P, q) \in P /\ found[q] = rows[Nth(P, q)]
  <2> HIDE DEF P
  <2> QED BY <1>1, <1>2, KeptMembers
<1>4. \A i \in P : i \in W <=> /\ InPeriod(GraduatePeriod(rows[i]), period)
                               /\ rows[i].name # ""
  BY PeriodsOfRows DEF InTranscript, Full
<1>5. W \in SUBSET P
  BY DEF InTranscript, Full
<1>6. Q \in SUBSET (1..Cardinality(P)) /\ DOMAIN s = Q
  BY <1>3
<1>7. \A q \in 1..Cardinality(P) : q \in Q <=> Nth(P, q) \in W
  <2> HIDE DEF P, W
  <2> QED BY <1>3, <1>4
<1>8. ASSUME NEW q \in Q
      PROVE  /\ s[q].name = rows[Nth(P, q)].name
             /\ s[q].period = {<<rows[Nth(P, q)].year, rows[Nth(P, q)].term>>}
  <2>1. s[q].name = found[q].name /\ s[q].period = GraduatePeriod(found[q])
    OBVIOUS
  <2>2. GraduatePeriod(found[q]) = {<<found[q].year, found[q].term>>}
    BY PeriodsOfRows
  <2>3. found[q] = rows[Nth(P, q)]
    BY <1>3, <1>6
  <2> HIDE DEF s, P, Q
  <2> QED BY <2>1, <2>2, <2>3
<1>9. selections = Records(s)
  BY DEF ParseGraduateSelections
<1> HIDE DEF P, W, Q, s
<1>10. SameRows(Records(s), Kept(rows, W))
  BY <1>1, <1>5, <1>6, <1>7, <1>8, RecordsOfRows
<1> QED BY <1>9, <1>10 DEF W

-----------------------------------------------------------------------------
(* Course selections: those of the named rows that are not hidden.         *)

Seen(row) == ~WithdrawnFrom(row) /\ row.at # "April 2026"
SeenIn(rows) ==
    {Selection(rows[i], i, "period") : i \in {i \in DOMAIN rows : rows[i].name # "" /\ Seen(rows[i])}}

LEMMA HiddenOnes ==
    ASSUME NEW row, NEW i
    PROVE  Hidden(Selection(row, i, "period")) <=> ~Seen(row)
<1> DEFINE s == Selection(row, i, "period")
<1>1. s.result = ResultOf(row) /\ s.at = row.at
  BY DEF Selection
<1> HIDE DEF s
<1>2. Hidden(s) <=> \/ {"personal", "withdrawn"} \subseteq ResultOf(row)
                    \/ {"administrator", "withdrawn"} \subseteq ResultOf(row)
                    \/ row.at = "April 2026"
  BY <1>1, Zenon DEF Hidden
<1>3. WithdrawnFrom(row) <=> \/ {"personal", "withdrawn"} \subseteq ResultOf(row)
                             \/ {"administrator", "withdrawn"} \subseteq ResultOf(row)
  BY DEF WithdrawnFrom
<1>4. Hidden(s) <=> WithdrawnFrom(row) \/ row.at = "April 2026"
  BY <1>2, <1>3, Zenon
<1> QED BY <1>4, Zenon DEF Seen, s

(* filterHiddenUndergraduateSelections.                                    *)
LEMMA HiddenFiltered ==
    ASSUME NEW m \in Nat, NEW selections, DOMAIN selections = 1..m
    PROVE  /\ ToSet(FilterHidden(selections)) = {r \in ToSet(selections) : ~Hidden(r)}
           /\ FilterHidden(selections) \in Seq(ToSet(FilterHidden(selections)))
<1> DEFINE V == {n \in DOMAIN selections : ~Hidden(selections[n])}
<1>1. V \in SUBSET (1..m)
  OBVIOUS
<1>2. FilterHidden(selections) = Kept(selections, V)
  BY DEF FilterHidden
<1>3. {selections[n] : n \in V} = {r \in ToSet(selections) : ~Hidden(r)}
  BY DEF ToSet
<1> HIDE DEF V
<1>4. V \in SUBSET Nat /\ IsFiniteSet(V)
  BY <1>1, SomePlaces
<1>5. ToSet(Kept(selections, V)) = {selections[n] : n \in V}
  BY <1>4, KeptMembers
<1>6. Kept(selections, V) \in Seq({selections[n] : n \in V})
  BY <1>4, KeptSequence
<1> QED BY <1>2, <1>3, <1>5, <1>6

LEMMA NamedPlaces ==
    ASSUME NEW S, NEW rows \in Seq(S)
    PROVE  Named(rows) \in SUBSET Nat /\ IsFiniteSet(Named(rows))
<1>1. Len(rows) \in Nat /\ DOMAIN rows = 1..Len(rows)
  OBVIOUS
<1>2. Named(rows) \subseteq DOMAIN rows
  BY Zenon DEF Named
<1> QED BY <1>1, <1>2, SomePlaces

LEMMA SelectionsRead ==
    ASSUME NEW rows \in Seq(AnySelectionRow), NEW selections \in ParseSelections(rows, "period")
    PROVE  /\ ToSet(FilterHidden(selections)) = SeenIn(rows)
           /\ FilterHidden(selections) \in Seq(ToSet(FilterHidden(selections)))
<1> DEFINE N == Named(rows)
           s == [i \in N |-> Selection(rows[i], i, "period")]
<1>1. selections = Kept(s, N)
  <2>1. selections = Records([i \in {i \in DOMAIN rows : rows[i].name # ""} |->
                                Selection(rows[i], i, "period")])
    BY DEF ParseSelections
  <2> QED BY <2>1, Zenon DEF Records, Named
<1>2. N \in SUBSET Nat /\ IsFiniteSet(N)
  <2> HIDE DEF N
  <2> QED BY NamedPlaces DEF N
<1>3. \A i \in N : s[i] = Selection(rows[i], i, "period")
  OBVIOUS
<1> HIDE DEF N, s
<1>4. /\ DOMAIN selections = 1..Cardinality(N) /\ Cardinality(N) \in Nat
      /\ ToSet(selections) = {s[i] : i \in N}
  BY <1>1, <1>2, KeptMembers, NthPlace
<1>5. /\ ToSet(FilterHidden(selections)) = {r \in ToSet(selections) : ~Hidden(r)}
      /\ FilterHidden(selections) \in Seq(ToSet(FilterHidden(selections)))
  BY <1>4, HiddenFiltered
<1>6. {r \in ToSet(selections) : ~Hidden(r)}
         = {Selection(rows[i], i, "period") : i \in {i \in N : Seen(rows[i])}}
  BY <1>3, <1>4, HiddenOnes
<1>7. {i \in N : Seen(rows[i])} = {i \in DOMAIN rows : rows[i].name # "" /\ Seen(rows[i])}
  BY DEF Named, N
<1> QED BY <1>5, <1>6, <1>7 DEF SeenIn

LEMMA VisibleOnPages ==
    ASSUME NEW first, NEW second
    PROVE  /\ VisibleIn(<<first>>) = SeenIn(first)
           /\ VisibleIn(Append(<<first>>, second)) = SeenIn(first) \cup SeenIn(second)
<1>1. ASSUME NEW p
      PROVE  {Selection(p[i], i, "period") :
                 i \in {i \in DOMAIN p : /\ p[i].name # "" /\ ~WithdrawnFrom(p[i])
                                         /\ p[i].at # "April 2026"}}
                = SeenIn(p)
  BY Zenon DEF SeenIn, Seen
<1>2. \A pages : VisibleIn(pages) = UNION {SeenIn(p) : p \in ToSet(pages)}
  BY <1>1, Zenon DEF VisibleIn
<1>3. ToSet(<<first>>) = {first}
  BY DEF ToSet
<1>4. /\ Append(<<first>>, second) \in Seq({first, second})
      /\ Len(Append(<<first>>, second)) = 2
      /\ Append(<<first>>, second)[1] = first /\ Append(<<first>>, second)[2] = second
  <2>1. <<first>> \in Seq({first, second}) /\ second \in {first, second}
    OBVIOUS
  <2> QED BY <2>1
<1>5. ToSet(Append(<<first>>, second)) = {first, second}
  <2>1. DOMAIN Append(<<first>>, second) = {1, 2}
    BY <1>4
  <2> QED BY <1>4, <2>1, Zenon DEF ToSet
<1>6. VisibleIn(<<first>>) = UNION {SeenIn(p) : p \in {first}}
  BY <1>2, <1>3
<1>7. VisibleIn(Append(<<first>>, second)) = UNION {SeenIn(p) : p \in {first, second}}
  BY <1>2, <1>5
<1> QED BY <1>6, <1>7

(* mergeCourseSelections: the first of each that there is.                 *)
LEMMA OncePerValue ==
    ASSUME NEW m \in Nat, NEW all, DOMAIN all = 1..m
    PROVE  LET D == {n \in DOMAIN all : \A k \in 1..(n - 1) : all[k] # all[n]}
           IN  ToSet(Kept(all, D)) = ToSet(all) /\ IsInjective(Kept(all, D))
<1> DEFINE D == {n \in DOMAIN all : \A k \in 1..(n - 1) : all[k] # all[n]}
<1>1. D \in SUBSET (1..m) /\ \A n \in D : \A k \in 1..(n - 1) : all[k] # all[n]
  OBVIOUS
<1>2. ASSUME NEW n \in 1..m PROVE \E d \in D : all[d] = all[n]
  <2> DEFINE same == {k \in 1..m : all[k] = all[n]}
  <2>1. same \in SUBSET Nat /\ n \in same
    OBVIOUS
  <2>2. PICK d \in same : \A k \in same : d <= k
    <3> HIDE DEF same
    <3> QED BY <2>1, LeastNatural
  <2>3. d \in 1..m /\ all[d] = all[n]
    OBVIOUS
  <2>4. ASSUME NEW k \in 1..(d - 1) PROVE all[k] # all[d]
    <3>1. d \in Int /\ m \in Int /\ d <= m /\ k \in Int /\ k <= d - 1
      BY <2>3
    <3>2. k \in 1..m /\ ~(d <= k)
      BY <3>1
    <3> QED BY <2>2, <2>3, <3>2
  <2> QED BY <2>3, <2>4
<1>3. \A i, j \in D : all[i] = all[j] => i = j
  <2> TAKE i, j \in D
  <2>1. i \in Int /\ j \in Int /\ 1 <= i /\ 1 <= j
    BY <1>1
  <2>2. i < j => i \in 1..(j - 1)
    BY <2>1
  <2>3. j < i => j \in 1..(i - 1)
    BY <2>1
  <2>4. i < j \/ j < i \/ i = j
    BY <2>1
  <2> HIDE DEF D
  <2> QED BY <1>1, <2>2, <2>3, <2>4
<1> HIDE DEF D
<1>4. D \in SUBSET Nat /\ IsFiniteSet(D)
  BY <1>1, SomePlaces
<1>5. ToSet(Kept(all, D)) = {all[d] : d \in D}
  BY <1>4, KeptMembers
<1>6. ToSet(Kept(all, D)) = ToSet(all)
  <2>1. ToSet(all) = {all[n] : n \in 1..m}
    BY DEF ToSet
  <2>2. {all[d] : d \in D} = {all[n] : n \in 1..m}
    BY <1>1, <1>2
  <2> QED BY <1>5, <2>1, <2>2, Zenon
<1>7. IsInjective(Kept(all, D))
  <2>1. /\ DOMAIN Kept(all, D) = 1..Cardinality(D)
        /\ \A n \in 1..Cardinality(D) : Nth(D, n) \in D /\ Kept(all, D)[n] = all[Nth(D, n)]
    BY <1>4, KeptMembers
  <2>2. \A n, k \in 1..Cardinality(D) : Nth(D, n) = Nth(D, k) => n = k
    BY <1>4, NthPlace
  <2>3. \A n, k \in 1..Cardinality(D) : Kept(all, D)[n] = Kept(all, D)[k] => n = k
    BY <1>3, <2>1, <2>2
  <2> QED BY <2>1, <2>3 DEF IsInjective
<1> QED BY <1>6, <1>7 DEF D

LEMMA SelectionsMerged ==
    ASSUME NEW selections, selections \in Seq(ToSet(selections)),
           NEW supplement, FilterHidden(supplement) \in Seq(ToSet(FilterHidden(supplement)))
    PROVE  LET merged == MergeSelections(selections, supplement)
           IN  /\ ToSet(merged) = ToSet(selections) \cup ToSet(FilterHidden(supplement))
               /\ IsInjective(merged)
<1> DEFINE other == FilterHidden(supplement)
           all == selections \o other
           D == {n \in DOMAIN all : \A m \in 1..(n - 1) : all[m] # all[n]}
           S == ToSet(selections) \cup ToSet(other)
<1>1. MergeSelections(selections, supplement) = Kept(all, D)
  BY DEF MergeSelections, Supplemented
<1>2. selections \in Seq(S) /\ other \in Seq(S)
  OBVIOUS
<1> HIDE DEF other
<1>3. /\ Len(all) \in Nat /\ DOMAIN all = 1..Len(all)
      /\ ToSet(all) = ToSet(selections) \cup ToSet(other)
  <2> HIDE DEF S
  <2>1. /\ Len(selections) \in Nat /\ Len(other) \in Nat /\ Len(all) = Len(selections) + Len(other)
        /\ DOMAIN selections = 1..Len(selections) /\ DOMAIN other = 1..Len(other)
        /\ DOMAIN all = 1..Len(all)
    BY <1>2
  <2>2. \A n \in 1..Len(all) :
           all[n] = IF n <= Len(selections) THEN selections[n] ELSE other[n - Len(selections)]
    BY <1>2, <2>1
  <2>3. ASSUME NEW n \in 1..Len(all) PROVE all[n] \in ToSet(selections) \cup ToSet(other)
    <3>1. CASE n <= Len(selections)
      BY <2>1, <2>2, <3>1 DEF ToSet
    <3>2. CASE ~(n <= Len(selections))
      <4>1. n - Len(selections) \in 1..Len(other)
        BY <2>1, <3>2
      <4> QED BY <2>1, <2>2, <3>2, <4>1 DEF ToSet
    <3> QED BY <3>1, <3>2
  <2>4. ASSUME NEW n \in 1..Len(selections) PROVE selections[n] \in ToSet(all)
    <3>1. n \in 1..Len(all) /\ n <= Len(selections)
      BY <2>1
    <3>2. selections[n] = all[n]
      BY <2>2, <3>1
    <3> QED BY <2>1, <3>1, <3>2 DEF ToSet
  <2>5. ASSUME NEW n \in 1..Len(other) PROVE other[n] \in ToSet(all)
    <3> DEFINE k == Len(selections) + n
    <3>1. k \in 1..Len(all) /\ ~(k <= Len(selections)) /\ k - Len(selections) = n
      BY <2>1
    <3> HIDE DEF k
    <3>2. other[n] = all[k]
      BY <2>2, <3>1
    <3> QED BY <2>1, <3>1, <3>2 DEF ToSet
  <2> HIDE DEF all
  <2>6. ToSet(all) = {all[n] : n \in 1..Len(all)}
    BY <2>1 DEF ToSet
  <2>7. ToSet(selections) = {selections[n] : n \in 1..Len(selections)}
    BY <2>1 DEF ToSet
  <2>8. ToSet(other) = {other[n] : n \in 1..Len(other)}
    BY <2>1 DEF ToSet
  <2>9. ToSet(all) \subseteq ToSet(selections) \cup ToSet(other)
    BY <2>3, <2>6
  <2>10. ToSet(selections) \subseteq ToSet(all)
    BY <2>4, <2>7
  <2>11. ToSet(other) \subseteq ToSet(all)
    BY <2>5, <2>8
  <2>12. Len(all) \in Nat
    BY <2>1
  <2> QED BY <2>1, <2>9, <2>10, <2>11, <2>12
<1> HIDE DEF all
<1>4. ToSet(Kept(all, D)) = ToSet(all) /\ IsInjective(Kept(all, D))
  BY <1>3, OncePerValue
<1> QED BY <1>1, <1>3, <1>4 DEF other

(* What was listed is what was shown, and undergraduate selections are     *)
(* still those of one table, until they are supplemented.                  *)
RecordsOK ==
    /\ RecordsKept
    /\ listed.kind = "selections" =>
          \E rows \in SelectionRows :
             listed.shown = <<rows>> /\ listed.records \in Seq(ToSet(listed.records))

LEMMA NoRecords ==
    ASSUME listed'.kind \in {"none", "catalog", "unreadable"}
    PROVE  RecordsOK'
BY DEF RecordsOK, RecordsKept

LEMMA GradesListed ==
    ASSUME NEW rows \in GradeRows, NEW shape \in AnswerShapes,
           NEW found \in TabularRows(AnswerIn(shape, rows)),
           List("grades", rows, ParseGrades(found, "period"))
    PROVE  RecordsOK' /\ CatalogOK'
<1>1. rows \in Seq(AnyGradeRow)
  BY ConfigurationAssumption
<1>2. found = rows
  BY <1>1, AnswersAlike
<1> DEFINE records == ParseGrades(rows, "period")
<1>3. /\ Firsts(rows) \in SUBSET DOMAIN rows
      /\ OneOfEach(rows, Firsts(rows)) /\ records = GradesAt(rows, Firsts(rows))
  BY <1>1, FirstsOfKeys, GradesKept
<1>4. List("grades", rows, records)
  BY <1>2, Zenon
<1> HIDE DEF records
<1>5. listed'.kind = "grades" /\ listed'.shown = rows /\ listed'.records = records
  BY <1>4 DEF List
<1>6. \E places \in SUBSET DOMAIN rows :
         OneOfEach(rows, places) /\ records = GradesAt(rows, places)
  BY <1>3, Zenon
<1> QED BY <1>5, <1>6 DEF RecordsOK, RecordsKept, CatalogOK

LEMMA TranscriptListed ==
    ASSUME NEW rows \in TranscriptRows, NEW period,
           NEW found \in GraduateRows(TranscriptPage(rows), Transcript),
           List("transcript", <<rows, period>>, ParseGraduateGrades(found, period))
    PROVE  RecordsOK' /\ CatalogOK'
<1> DEFINE records == ParseGraduateGrades(found, period)
<1>1. rows \in Seq(AnyTranscriptRow)
  BY ConfigurationAssumption
<1>2. SameRows(records, Kept(rows, InTranscript(rows, period, {"autumn", "spring", ""})
                                       \cap Released(rows)))
  BY <1>1, TranscriptKept
<1> HIDE DEF records
<1>3. /\ listed'.kind = "transcript" /\ listed'.records = records
      /\ listed'.shown = <<rows, period>>
  BY DEF List, records
<1>4. listed'.shown[1] = rows /\ listed'.shown[2] = period
  <2>1. <<rows, period>>[1] = rows /\ <<rows, period>>[2] = period
    OBVIOUS
  <2> QED BY <1>3, <2>1, Zenon
<1>5. SameRows(listed'.records,
               Kept(listed'.shown[1],
                    InTranscript(listed'.shown[1], listed'.shown[2], {"autumn", "spring", ""})
                        \cap Released(listed'.shown[1])))
  BY <1>2, <1>3, <1>4, Zenon
<1> QED BY <1>3, <1>5 DEF RecordsOK, RecordsKept, CatalogOK

LEMMA SelectionsListed ==
    ASSUME NEW rows \in SelectionRows, NEW selections \in ParseSelections(rows, "period"),
           List("selections", <<rows>>, FilterHidden(selections))
    PROVE  RecordsOK' /\ CatalogOK'
<1> DEFINE records == FilterHidden(selections)
<1>1. rows \in Seq(AnySelectionRow)
  BY ConfigurationAssumption
<1>2. ToSet(records) = VisibleIn(<<rows>>) /\ records \in Seq(ToSet(records))
  BY <1>1, SelectionsRead, VisibleOnPages, Zenon
<1> HIDE DEF records
<1>3. listed'.kind = "selections" /\ listed'.records = records /\ listed'.shown = <<rows>>
  BY DEF List, records
<1>4. Len(listed'.shown) # 2
  BY <1>3
<1>5. RecordsKept'
  BY <1>2, <1>3, <1>4, Zenon DEF RecordsKept
<1> QED BY <1>2, <1>3, <1>5, Zenon DEF RecordsOK, CatalogOK

LEMMA ChosenListed ==
    ASSUME NEW rows \in TranscriptRows, NEW period,
           NEW found \in GraduateRows(TranscriptPage(rows), Transcript),
           NEW selections \in ParseGraduateSelections(found, period),
           List("chosen", <<rows, period>>, selections)
    PROVE  RecordsOK' /\ CatalogOK'
<1>1. rows \in Seq(AnyTranscriptRow)
  BY ConfigurationAssumption
<1>2. SameRows(selections, Kept(rows, InTranscript(rows, period, {"autumn", "spring"})))
  BY <1>1, ChosenKept
<1>3. /\ listed'.kind = "chosen" /\ listed'.records = selections
      /\ listed'.shown = <<rows, period>>
  BY DEF List
<1>4. listed'.shown[1] = rows /\ listed'.shown[2] = period
  <2>1. <<rows, period>>[1] = rows /\ <<rows, period>>[2] = period
    OBVIOUS
  <2> QED BY <1>3, <2>1, Zenon
<1>5. SameRows(listed'.records,
               Kept(listed'.shown[1],
                    InTranscript(listed'.shown[1], listed'.shown[2], {"autumn", "spring"})))
  BY <1>2, <1>3, <1>4, Zenon
<1> QED BY <1>3, <1>5 DEF RecordsOK, RecordsKept, CatalogOK

LEMMA SupplementListed ==
    ASSUME RecordsOK, ReadSupplement
    PROVE  RecordsOK' /\ CatalogOK'
<1>1. listed.kind = "selections"
  BY DEF ReadSupplement
<1>2. PICK first \in SelectionRows :
             listed.shown = <<first>> /\ listed.records \in Seq(ToSet(listed.records))
  BY <1>1, Zenon DEF RecordsOK
<1>3. ToSet(listed.records) = VisibleIn(<<first>>)
  BY <1>1, <1>2, Zenon DEF RecordsOK, RecordsKept
<1>4. PICK rows \in SelectionRows :
             LET supplement == ParseSelections(rows, "period")
             IN  List("supplemented",
                      IF supplement = {} THEN listed.shown ELSE Append(listed.shown, rows),
                      IF supplement = {} THEN listed.records
                      ELSE MergeSelections(listed.records, CHOOSE s \in supplement : TRUE))
  BY Zenon DEF ReadSupplement
<1> DEFINE supplement == ParseSelections(rows, "period")
<1>5. CASE supplement = {}
  <2>1. List("supplemented", listed.shown, listed.records)
    BY <1>4, <1>5, Zenon
  <2>2. /\ listed'.kind = "supplemented" /\ listed'.shown = <<first>>
        /\ listed'.records = listed.records
    BY <1>2, <2>1 DEF List
  <2>3. Len(listed'.shown) # 2
    BY <2>2
  <2> QED BY <1>3, <2>2, <2>3, Zenon DEF RecordsOK, RecordsKept, CatalogOK
<1>6. CASE supplement # {}
  <2> DEFINE chosen == CHOOSE s \in supplement : TRUE
             merged == MergeSelections(listed.records, chosen)
  <2>1. chosen \in ParseSelections(rows, "period")
    BY <1>6
  <2>2. List("supplemented", Append(listed.shown, rows), merged)
    BY <1>4, <1>6, Zenon
  <2> HIDE DEF chosen
  <2>3. rows \in Seq(AnySelectionRow) /\ first \in Seq(AnySelectionRow)
    BY ConfigurationAssumption
  <2>4. /\ ToSet(FilterHidden(chosen)) = SeenIn(rows)
        /\ FilterHidden(chosen) \in Seq(ToSet(FilterHidden(chosen)))
    BY <2>1, <2>3, SelectionsRead
  <2>5. /\ ToSet(merged) = ToSet(listed.records) \cup ToSet(FilterHidden(chosen))
        /\ IsInjective(merged)
    BY <1>2, <2>4, SelectionsMerged
  <2>6. ToSet(merged) = VisibleIn(Append(<<first>>, rows))
    <3> HIDE DEF merged
    <3> QED BY <1>3, <2>4, <2>5, VisibleOnPages, Zenon
  <2> HIDE DEF merged
  <2>7. /\ listed'.kind = "supplemented" /\ listed'.records = merged
        /\ listed'.shown = Append(<<first>>, rows)
    BY <1>2, <2>2 DEF List
  <2> QED BY <2>5, <2>6, <2>7, Zenon DEF RecordsOK, RecordsKept, CatalogOK
<1> QED BY <1>5, <1>6

LEMMA RecordsRead ==
    ASSUME RecordsOK, ReadGrades \/ ReadSelections \/ ReadSupplement
    PROVE  RecordsOK' /\ CatalogOK'
<1> DEFINE periods == {<<>>, <<2025, "autumn">>}
           good == RecordsOK' /\ CatalogOK'
<1>1. CASE ReadGrades
  <2>1. \/ \E rows \in GradeRows, shape \in AnswerShapes :
             \E found \in TabularRows(AnswerIn(shape, rows)) :
                 List("grades", rows, ParseGrades(found, "period"))
        \/ \E rows \in TranscriptRows, period \in periods :
             \E found \in GraduateRows(TranscriptPage(rows), Transcript) :
                 List("transcript", <<rows, period>>, ParseGraduateGrades(found, period))
    BY <1>1, Zenon DEF ReadGrades
  <2>2. \A rows \in GradeRows, shape \in AnswerShapes :
        \A found \in TabularRows(AnswerIn(shape, rows)) :
            List("grades", rows, ParseGrades(found, "period")) => good
    BY GradesListed
  <2>3. \A rows \in TranscriptRows : \A period :
        \A found \in GraduateRows(TranscriptPage(rows), Transcript) :
            List("transcript", <<rows, period>>, ParseGraduateGrades(found, period)) => good
    BY TranscriptListed
  <2> HIDE DEF periods, good
  <2>4. good
    BY <2>1, <2>2, <2>3, Zenon
  <2> QED BY <2>4 DEF good
<1>2. CASE ReadSelections
  <2>1. \/ \E rows \in SelectionRows :
             \E selections \in ParseSelections(rows, "period") :
                 List("selections", <<rows>>, FilterHidden(selections))
        \/ \E rows \in TranscriptRows, period \in periods :
             \E found \in GraduateRows(TranscriptPage(rows), Transcript) :
             \E selections \in ParseGraduateSelections(found, period) :
                 List("chosen", <<rows, period>>, selections)
    BY <1>2, Zenon DEF ReadSelections
  <2>2. \A rows \in SelectionRows : \A selections \in ParseSelections(rows, "period") :
            List("selections", <<rows>>, FilterHidden(selections)) => good
    BY SelectionsListed
  <2>3. \A rows \in TranscriptRows : \A period :
        \A found \in GraduateRows(TranscriptPage(rows), Transcript) :
        \A selections \in ParseGraduateSelections(found, period) :
            List("chosen", <<rows, period>>, selections) => good
    BY ChosenListed
  <2> HIDE DEF periods, good
  <2>4. good
    BY <2>1, <2>2, <2>3, Zenon
  <2> QED BY <2>4 DEF good
<1>3. CASE ReadSupplement
  BY <1>3, SupplementListed
<1> QED BY <1>1, <1>2, <1>3

-----------------------------------------------------------------------------
(* Timetables: what was taught is what was shown.                          *)

LEMMA TaughtWell ==
    ASSUME NEW page, NEW shown, NEW courses,
           Teach(page, shown, Courses(courses)),
           \/ page = "week" /\ Lessons(courses) = LessonsOf(shown)
           \/ page = "history" /\ Lessons(courses) = HistoryLessons(shown, "period")
           \/ page = "items" /\ Lessons(courses) = ItemLessons(shown)
           \/ page = "selected" /\ Lessons(courses) = SelectionLessons(shown),
           Merged(courses)
    PROVE  TimetableKept'
<1>1. /\ taught'.page = page /\ taught'.shown = shown /\ taught'.courses = courses
  BY DEF Teach, Courses
<1>2. LessonsShown' = Lessons(courses)
  BY <1>1 DEF LessonsShown
<1> QED BY <1>1, <1>2, Zenon DEF TimetableKept

LEMMA WeekTaught ==
    ASSUME NEW timetable \in Timetables,
           Teach("week", timetable,
                 ParseGraduatePage([week |-> TablePage(timetable, Sections)], "period"))
    PROVE  TimetableKept'
<1> DEFINE courses == ParseGraduateCourses(TablePage(timetable, Sections))
<1>1. ParseGraduatePage([week |-> TablePage(timetable, Sections)], "period") = Courses(courses)
  BY DEF ParseGraduatePage
<1>2. Lessons(courses) = LessonsOf(timetable) /\ Merged(courses)
  <2>1. Sections \in Nat /\ SchoolTimetable(timetable, Sections)
    BY ConfigurationAssumption
  <2> QED BY <2>1, WeekIsKept
<1> HIDE DEF courses
<1>3. Teach("week", timetable, Courses(courses))
  BY <1>1, Zenon
<1> QED BY <1>2, <1>3, TaughtWell

LEMMA HistoryTaught ==
    ASSUME NEW rows \in Histories,
           Teach("history", rows, ParseGraduatePage([history |-> rows], "period"))
    PROVE  TimetableKept'
<1> DEFINE courses == ParseGraduateHistory(rows, "period")
<1>1. ParseGraduatePage([history |-> rows], "period") = Courses(courses)
  BY DEF ParseGraduatePage
<1>2. Lessons(courses) = HistoryLessons(rows, "period") /\ Merged(courses)
  <2>1. rows \in Seq(AnyHistoryRow)
    BY ConfigurationAssumption
  <2> QED BY <2>1, HistoryIsKept
<1> HIDE DEF courses
<1>3. Teach("history", rows, Courses(courses))
  BY <1>1, Zenon
<1> QED BY <1>2, <1>3, TaughtWell

LEMMA OtherTaught ==
    ASSUME Teach("other", <<>>, ParseGraduatePage([other |-> <<>>], "period"))
    PROVE  TimetableKept'
<1>1. ParseGraduatePage([other |-> <<>>], "period") = Unread
  BY DEF ParseGraduatePage
<1>2. taught'.error
  BY <1>1 DEF Teach, Unread
<1> QED BY <1>2, Zenon DEF TimetableKept

LEMMA ItemsTaught ==
    ASSUME NEW shown \in ItemSets,
           Teach("items", shown,
                 Courses(ParseUndergraduateCourses(
                     {ItemOf(i.name, i.meeting, i.form) : i \in shown})))
    PROVE  TimetableKept'
<1> DEFINE courses ==
        ParseUndergraduateCourses({ItemOf(i.name, i.meeting, i.form) : i \in shown})
<1>1. Lessons(courses) = ItemLessons(shown) /\ Merged(courses)
  <2>1. shown \in SUBSET AnyItem /\ IsFiniteSet(shown)
    BY ConfigurationAssumption
  <2> QED BY <2>1, ItemsAreKept, Zenon
<1>2. Teach("items", shown, Courses(courses))
  OBVIOUS
<1> HIDE DEF courses
<1> QED BY <1>1, <1>2, TaughtWell

LEMMA SelectedTaught ==
    ASSUME NEW rows \in Selected,
           Teach("selected", rows, Courses(ParseSelectionSchedule(rows)))
    PROVE  TimetableKept'
<1>1. rows \in Seq(AnySelectedRow)
  BY ConfigurationAssumption
<1>2. /\ Lessons(ParseSelectionSchedule(rows)) = SelectionLessons(rows)
      /\ Merged(ParseSelectionSchedule(rows))
  BY <1>1, SelectionIsKept
<1> QED BY <1>2, TaughtWell

LEMMA TimetablesRead ==
    ASSUME ReadTimetable \/ ReadFallback
    PROVE  TimetableKept'
<1> DEFINE good == TimetableKept'
<1>1. \A timetable \in Timetables :
        Teach("week", timetable,
              ParseGraduatePage([week |-> TablePage(timetable, Sections)], "period")) => good
  BY WeekTaught
<1>2. \A rows \in Histories :
        Teach("history", rows, ParseGraduatePage([history |-> rows], "period")) => good
  BY HistoryTaught
<1>3. Teach("other", <<>>, ParseGraduatePage([other |-> <<>>], "period")) => good
  BY OtherTaught
<1>4. \A shown \in ItemSets :
        Teach("items", shown,
              Courses(ParseUndergraduateCourses(
                  {ItemOf(i.name, i.meeting, i.form) : i \in shown}))) => good
  BY ItemsTaught
<1>5. \A rows \in Selected :
        Teach("selected", rows, Courses(ParseSelectionSchedule(rows))) => good
  BY SelectedTaught
<1> HIDE DEF good
<1>6. good
  BY <1>1, <1>2, <1>3, <1>4, <1>5, Zenon DEF ReadTimetable, ReadFallback
<1> QED BY <1>6 DEF good

-----------------------------------------------------------------------------
(* The invariant of a query.                                               *)

QueryInv == LoginInv /\ AskedOK /\ CatalogOK /\ RecordsOK /\ TimetableKept

LEMMA NothingNewTaught ==
    ASSUME TimetableKept, UNCHANGED taught
    PROVE  TimetableKept'
BY Zenon DEF TimetableKept, LessonsShown

(* A step reads a timetable, or teaches nothing new.                       *)
LEMMA OthersTeachNothing ==
    ASSUME [QueryNext]_allVars
    PROVE  ReadTimetable \/ ReadFallback \/ UNCHANGED taught
<1>1. CASE School
  BY <1>1, Zenon DEF School
<1>2. CASE Prepare
  BY <1>2, Zenon DEF Prepare
<1>3. CASE SubmitQuery
  BY <1>3, Zenon DEF SubmitQuery
<1>4. CASE ReadGrades
  BY <1>4, Zenon DEF ReadGrades
<1>5. CASE ReadSelections
  BY <1>5, Zenon DEF ReadSelections
<1>6. CASE ReadSupplement
  BY <1>6, Zenon DEF ReadSupplement
<1>7. CASE OpenCatalog
  BY <1>7, Zenon DEF OpenCatalog
<1>8. CASE TurnPage
  BY <1>8, Zenon DEF TurnPage
<1>9. CASE UNCHANGED allVars
  BY <1>9 DEF allVars
<1> QED
  BY <1>1, <1>2, <1>3, <1>4, <1>5, <1>6, <1>7, <1>8, <1>9, Zenon DEF QueryNext

LEMMA NothingNewListed ==
    ASSUME CatalogOK, RecordsOK, UNCHANGED listed
    PROVE  CatalogOK' /\ RecordsOK'
<1>1. CatalogOK'
  BY DEF CatalogOK
<1>2. RecordsOK'
  BY Zenon DEF RecordsOK, RecordsKept
<1> QED BY <1>1, <1>2

LEMMA ListsStep ==
    ASSUME LoginInv, AskedOK, CatalogOK, RecordsOK, [QueryNext]_allVars
    PROVE  LoginInv' /\ AskedOK' /\ CatalogOK' /\ RecordsOK'
<1>1. CASE School
  <2>1. Next /\ UNCHANGED asked /\ UNCHANGED listed
    BY <1>1 DEF School
  <2>2. LoginInv' /\ at' # "prepared"
    BY <2>1, StepKeeps, SchoolGoesOn
  <2> QED BY <2>1, <2>2, NothingNewListed DEF AskedOK, IsQuery
<1>2. CASE Prepare
  <2>1. UNCHANGED listed
    BY <1>2 DEF Prepare
  <2> QED BY <1>2, <2>1, PrepareKeeps, NothingNewListed
<1>3. CASE SubmitQuery
  <2>1. UNCHANGED listed
    BY <1>3 DEF SubmitQuery
  <2> QED BY <1>3, <2>1, SubmitKeeps, NothingNewListed
<1>4. CASE ReadTimetable
  <2>1. Accepted /\ UNCHANGED listed /\ UNCHANGED asked
    BY <1>4 DEF ReadTimetable, Accepted
  <2> QED BY <2>1, ReadKeeps, NothingNewListed
<1>5. CASE ReadFallback
  <2>1. UNCHANGED vars /\ UNCHANGED asked /\ UNCHANGED listed
    BY <1>5 DEF ReadFallback
  <2> QED BY <2>1, ReadKeeps, NothingNewListed
<1>6. CASE ReadGrades
  <2>1. Accepted /\ UNCHANGED asked
    <3>1. Accepted
      BY <1>6, Zenon DEF ReadGrades
    <3> QED BY <3>1 DEF Accepted
  <2> QED BY <1>6, <2>1, ReadKeeps, RecordsRead
<1>7. CASE ReadSelections
  <2>1. Accepted /\ UNCHANGED asked
    <3>1. Accepted
      BY <1>7, Zenon DEF ReadSelections
    <3> QED BY <3>1 DEF Accepted
  <2> QED BY <1>7, <2>1, ReadKeeps, RecordsRead
<1>8. CASE ReadSupplement
  <2>1. UNCHANGED vars /\ UNCHANGED asked
    BY <1>8, Zenon DEF ReadSupplement
  <2> QED BY <1>8, <2>1, ReadKeeps, RecordsRead
<1>9. CASE OpenCatalog
  <2>1. Accepted /\ UNCHANGED asked
    BY <1>9 DEF OpenCatalog, Accepted
  <2>2. PICK catalog \in Catalogs : Turn(catalog, 1, <<>>)
    BY <1>9 DEF OpenCatalog
  <2>3. catalog.shown \in SchoolCatalog /\ catalog.size \in Nat \ {0}
    BY ConfigurationAssumption
  <2>4. <<>> = [k \in 1..Gathered(catalog.shown, 1 - 1) |-> {k}]
    <3>1. catalog.shown.rows \in Nat /\ catalog.shown.size \in Nat
      BY <2>3 DEF SchoolCatalog
    <3>2. Gathered(catalog.shown, 1 - 1) = 0
      BY <3>1 DEF Gathered
    <3> QED BY <3>2
  <2>5. 1 \in Nat \ {0}
    OBVIOUS
  <2>6. CatalogOK'
    BY <2>2, <2>3, <2>4, <2>5, TurnReads
  <2>7. RecordsOK'
    BY <2>2, NoRecords DEF Turn
  <2> QED BY <2>1, <2>6, <2>7, ReadKeeps
<1>10. CASE TurnPage
  <2>1. UNCHANGED vars /\ UNCHANGED asked
    BY <1>10 DEF TurnPage
  <2>2. listed.kind = "catalog" /\ Turn(listed, listed.page + 1, listed.records)
    BY <1>10 DEF TurnPage
  <2>3. /\ listed.shown \in SchoolCatalog /\ listed.size \in Nat \ {0}
        /\ listed.page + 1 \in Nat \ {0} /\ (listed.page + 1) - 1 = listed.page
        /\ listed.records = [k \in 1..Gathered(listed.shown, listed.page) |-> {k}]
    BY <2>2 DEF CatalogOK
  <2>4. CatalogOK'
    BY <2>2, <2>3, TurnReads
  <2>5. RecordsOK'
    BY <2>2, NoRecords DEF Turn
  <2> QED BY <2>1, <2>4, <2>5, ReadKeeps
<1>11. CASE UNCHANGED allVars
  <2>1. UNCHANGED vars /\ UNCHANGED asked /\ UNCHANGED listed
    BY <1>11 DEF allVars
  <2> QED BY <2>1, ReadKeeps, NothingNewListed
<1> QED BY <1>1, <1>2, <1>3, <1>4, <1>5, <1>6, <1>7, <1>8, <1>9, <1>10, <1>11 DEF QueryNext

LEMMA QueryStep ==
    ASSUME QueryInv, [QueryNext]_allVars
    PROVE  QueryInv'
<1>1. LoginInv' /\ AskedOK' /\ CatalogOK' /\ RecordsOK'
  BY ListsStep DEF QueryInv
<1>2. TimetableKept'
  BY OthersTeachNothing, TimetablesRead, NothingNewTaught DEF QueryInv
<1> QED BY <1>1, <1>2 DEF QueryInv

LEMMA QueryInvariant == QuerySpec => []QueryInv
<1>1. QueryInit => QueryInv
  <2> SUFFICES ASSUME QueryInit PROVE QueryInv
    OBVIOUS
  <2>1. LoginInv
    BY InitHolds DEF QueryInit
  <2>2. AskedOK /\ CatalogOK
    BY DEF QueryInit, Init, AskedOK, NotAsked, CatalogOK, NothingListed
  <2>3. RecordsOK
    BY DEF QueryInit, NothingListed, RecordsOK, RecordsKept
  <2>4. TimetableKept
    BY Zenon DEF QueryInit, TimetableKept
  <2> QED BY <2>1, <2>2, <2>3, <2>4 DEF QueryInv
<1>2. QueryInv /\ [QueryNext]_allVars => QueryInv'
  BY QueryStep
<1> QED BY <1>1, <1>2, PTL DEF QuerySpec

-----------------------------------------------------------------------------
(* validateFixedParameters, academicRequestWithValues: whatever the        *)
(* configuration, a request with a period that its path does not contain   *)
(* tells the school each part of the period and every fixed parameter, as  *)
(* far as names that validation does not compare differ, and every query   *)
(* tells the page asked for and the supplement's values.                   *)
THEOREM QueriesTellAll == QuerySpec => []QueryComplete
<1>1. QueryInv => QueryComplete
  BY QueriesComplete DEF QueryInv
<1> QED BY <1>1, QueryInvariant, PTL

(* ListCourseCatalogPage: whatever the size of the school's pages and what *)
(* they tell, following has_more reads a catalog once.                     *)
THEOREM CatalogsReadOnce == QuerySpec => []CatalogReadOnce
<1>1. QueryInv => CatalogReadOnce
  BY CatalogsRead DEF QueryInv
<1> QED BY <1>1, QueryInvariant, PTL

(* parseGrades, parseGraduateGrades, ListCourseSelections: whatever tables  *)
(* the school shows, and in whichever of the answers' forms, the records   *)
(* returned are those of the released grades, one of each key, and of the  *)
(* visible selections.                                                     *)
THEOREM RecordsAreKept == QuerySpec => []RecordsKept
<1>1. QueryInv => RecordsKept
  BY DEF QueryInv, RecordsOK
<1> QED BY <1>1, QueryInvariant, PTL

(* parseGraduateCourses, parseGraduateCourseHistory,                       *)
(* parseUndergraduateCourses, parseUndergraduateCourseSelectionSchedule:    *)
(* whatever timetable the school shows, the courses read from its page are *)
(* the lessons shown, neither more nor fewer, in every section and week,   *)
(* and no two of the courses could still be merged.                        *)
THEOREM TimetablesAreKept == QuerySpec => []TimetableKept
<1>1. QueryInv => TimetableKept
  BY DEF QueryInv
<1> QED BY <1>1, QueryInvariant, PTL

(* newSessionClient's redirect rules, for queries too: the password and    *)
(* the continuation are sent to the identity service alone, and a query's  *)
(* values to its target.                                                   *)
THEOREM QueriesStayHome == QuerySpec => []FormsStayHome
<1>1. QueryInv => FormsStayHome
  BY DEF QueryInv, LoginInv, RequestOK
<1> QED BY <1>1, QueryInvariant, PTL

(* Neither a login's forms nor a query's values are ever sent twice.       *)
THEOREM QueriesSentOnce == QuerySpec => []FormsSentOnce
<1>1. QueryInv => FormsSentOnce
  BY DEF QueryInv, LoginInv, Counted
<1> QED BY <1>1, QueryInvariant, PTL

(* continuePasswordExpiryWarning, in the system the run checks.            *)
THEOREM ExpiredStays == QuerySpec => []ExpiredStaysExpired
<1>1. QueryInv => ExpiredStaysExpired
  BY DEF QueryInv, LoginInv
<1> QED BY <1>1, QueryInvariant, PTL
=============================================================================
