-------------------------- MODULE AcademicRequest ---------------------------
(***************************************************************************)
(* From the configuration of one school operation to its HTTP request      *)
(* (academicconfig/resolver.go, academicRequestWithValues in               *)
(* ouc/provider.go).                                                       *)
(*                                                                         *)
(* A period is the sequence of the parts its separator divides it in,      *)
(* without the blanks around them; the empty sequence is no period.  A     *)
(* path is fixed, has the period as a placeholder, begins with the         *)
(* placeholder, or is not relative at all; a fixed path may by accident    *)
(* contain a period's text (numbered).  Values are a function of their     *)
(* names.  A name may be written with blanks around it, which some of the  *)
(* code trims and some does not.                                           *)
(***************************************************************************)
EXTENDS Integers, Sequences, SequencesExt

CONSTANT MaxPageSize     \* MaxCourseCatalogPageSize, 500 in the code

ASSUME PageSizeAssumption == MaxPageSize \in Nat \ {0}

Name == {"year", "term", "page", "size", "kind"}
Path == {"none", "fixed", "numbered", "placeholder", "leading", "absolute"}

(* The texts that stand for names; "none" is no name, or blanks alone.     *)
Written == [name : Name \cup {"none"}, blanks : BOOLEAN]
Plain(name) == [name |-> name, blanks |-> FALSE]
NoName == Plain("none")
TrimSpace(text) == Plain(text.name)
ValidParameterName(text) == text.name # "none" /\ ~text.blanks

(* OperationEndpoint.                                                      *)
Operation ==
    [path : Path, method : {"GET", "POST"}, encoding : {"query", "form", "json"},
     period : Written,                       \* period_parameter
     periods : Seq(Written),                 \* period_parameters
     separator : {"none", "dash", "other"},
     fixed : SUBSET Written,                 \* names of the fixed parameters
     page : Written, sizeName : Written, size : Nat]

(* The parameters the period is mapped to are named without blanks.        *)
PeriodParameter(o) == TrimSpace(o.period)
PeriodParameters(o) == [i \in DOMAIN o.periods |-> TrimSpace(o.periods[i])]

-----------------------------------------------------------------------------
(* Validation.                                                             *)

ValidPeriodParameters(o) ==
    IF o.periods = <<>> THEN o.separator = "none"
    ELSE /\ PeriodParameter(o) = NoName
         /\ Len(o.periods) \in 2 .. 4
         /\ o.separator # "none"
         /\ \A n \in ToSet(PeriodParameters(o)) : ValidParameterName(n)
         /\ IsInjective(PeriodParameters(o))

(* The mapped names are compared as they are written.                      *)
AnyFixedParameters(o) == TRUE
ValidFixedParameters(o) ==
    \A n \in o.fixed :
        /\ ValidParameterName(n)
        /\ n \notin {o.period, o.page, o.sizeName} \cup ToSet(o.periods)

ValidOperation(o, requiresPeriod) ==
    /\ o.path # "absolute"
    /\ ValidPeriodParameters(o)
    /\ o.method = IF o.encoding = "query" THEN "GET" ELSE "POST"
    /\ requiresPeriod =>
           \/ o.path \in {"placeholder", "leading"}
           \/ PeriodParameter(o) # NoName
           \/ o.periods # <<>>
    /\ ValidFixedParameters(o)

ValidCatalogPagination(o) ==
    ValidParameterName(TrimSpace(o.page)) /\ o.size \in 1 .. MaxPageSize

(* validateEndpoint: an operation without a path is not configured.        *)
RequiresPeriod == {"courses", "exams", "catalog"}
ValidEndpoint(kind, o) ==
    o.path = "none" \/
        /\ ValidOperation(o, kind \in RequiresPeriod)
        /\ kind = "catalog" => ValidCatalogPagination(o)

-----------------------------------------------------------------------------
(* The request.                                                            *)

NoValues == [n \in {} |-> "none"]
Override(values, more) ==
    [n \in DOMAIN values \cup DOMAIN more |->
        IF n \in DOMAIN more THEN more[n] ELSE values[n]]

(* academicPeriodValues.                                                   *)
Parts(o, period) == IF o.separator = "dash" THEN period ELSE <<"whole">>
MappedPeriod(o, period) ==
    IF period = <<>> THEN NoValues
    ELSE IF o.periods = <<>> THEN
        IF PeriodParameter(o) = NoName THEN NoValues
        ELSE [n \in {PeriodParameter(o)} |-> "whole"]
    ELSE [n \in ToSet(PeriodParameters(o)) |->
             Parts(o, period)[CHOOSE i \in DOMAIN o.periods : PeriodParameters(o)[i] = n]]
PeriodFits(o, period) ==
    period = <<>> \/ o.periods = <<>> \/
        /\ Len(Parts(o, period)) = Len(o.periods)
        /\ \A i \in DOMAIN o.periods : Parts(o, period)[i] # "empty"

(* academicCatalogRequest: the page, and the size where it is named, under *)
(* the names as they are written.                                          *)
CatalogValues(o) ==
    [n \in {o.page, o.sizeName} \ {NoName} |-> IF n = o.sizeName THEN "pageSize" ELSE "pageNumber"]

(* undergraduateSelectionFailureRequestValues.                             *)
SupplementValues == [n \in {Plain("page"), Plain("size"), Plain("kind")} |-> "supplement"]

(* The path of a leading placeholder and no period names another host.     *)
LeavesHost(o, period) ==
    o.path = "absolute" \/ (o.path = "leading" /\ period = <<>>)
InPath(o, period) ==
    period = <<>> \/ o.path \in {"placeholder", "leading", "numbered"}

(* The values a query or a body carries: all, unless the path contains the *)
(* period's text, which no period at all also passes for; then a query     *)
(* carries the extra values alone.                                         *)
Carried(o, period, all, extra) ==
    IF ~InPath(o, period) THEN all
    ELSE IF o.encoding = "query" THEN extra
    ELSE NoValues
AcademicRequest(o, period, extra) ==
    LET fixed == [n \in o.fixed |-> "fixed"]
        all == Override(Override(MappedPeriod(o, period), fixed), extra)
    IN  IF LeavesHost(o, period) \/ ~PeriodFits(o, period) THEN [error |-> TRUE]
        ELSE [error |-> FALSE, method |-> o.method,
              values |-> Carried(o, period, all, extra)]

(* The parameters the period is set under.                                 *)
PeriodNames(o) == ({PeriodParameter(o)} \cup ToSet(PeriodParameters(o))) \ {NoName}

(* A fixed parameter named like one of them, which validation takes for    *)
(* another name because of the blanks it is configured with.               *)
FixedUnseen(o) ==
    o.fixed \cap (PeriodNames(o) \ ({o.period} \cup ToSet(o.periods))) # {}

(* The page and its size are named without blanks, and unlike each other.  *)
PagedApart(o) == o.page # o.sizeName /\ ~o.page.blanks /\ ~o.sizeName.blanks

(* What the school must be told: each part of the period, once, every      *)
(* fixed parameter without a name of the extra values, and the page.       *)
Tells(values, n, value) == n \in DOMAIN values /\ values[n] = value
Told(o, period, extra, values) ==
    /\ \A n \in o.fixed \ DOMAIN extra : Tells(values, n, "fixed")
    /\ IF o.periods = <<>>
       THEN PeriodParameter(o) # NoName => Tells(values, PeriodParameter(o), "whole")
       ELSE \A i \in DOMAIN o.periods : Tells(values, PeriodParameters(o)[i], period[i])
ToldPage(o, values) ==
    /\ Tells(values, TrimSpace(o.page), "pageNumber")
    /\ TrimSpace(o.sizeName) # NoName => Tells(values, TrimSpace(o.sizeName), "pageSize")
=============================================================================
