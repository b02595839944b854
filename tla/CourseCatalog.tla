---------------------------- MODULE CourseCatalog ----------------------------
(***************************************************************************)
(* The pages of the course catalog (ouc/course_catalog_parser.go): what    *)
(* ListCourseCatalogPage makes of one page, and what a reader who follows  *)
(* has_more from the first page on has read in the end.                    *)
(*                                                                         *)
(* An undergraduate page is an object with its rows and their total, and   *)
(* may state its own size and the number of pages.  A graduate page is a   *)
(* table under which the pages are counted in words, or linked to.         *)
(***************************************************************************)
EXTENDS AcademicRequest, AcademicRecords

NotStated == -1
CatalogError == [error |-> TRUE]
CatalogPage(page, count, total, rows) ==
    [error |-> FALSE, hasMore |-> page < count, total |-> total,
     entries |-> [i \in DOMAIN rows |-> rows[i].key]]

(* catalogPageCount.                                                       *)
PageCountDown(total, size) == total \div size
PageCount(total, size) == (total + size - 1) \div size

(* parseUndergraduateCatalogPage.                                          *)
OwnSize(answer, configured) == IF answer.limit > 0 THEN answer.limit ELSE configured
ParseUndergraduateCatalogPage(period, page, configured, answer) ==
    LET size == OwnSize(answer, configured)
        count == PageCount(answer.total, size)
        valid(row) == row.key # {} /\ row.name # "" /\ OwnPeriod(row, period) = period
    IN  IF /\ answer.code \in {"none", "0"}
           /\ answer.total >= Len(answer.rows)
           /\ size \in 1 .. MaxPageSize
           /\ answer.pages \in {NotStated, count}
           /\ count > 0 => page <= count
           /\ \A row \in ToSet(answer.rows) : valid(row)
        THEN CatalogPage(page, count, answer.total, answer.rows)
        ELSE CatalogError

(* graduateCatalogPageCount: as told, else the last page linked to.        *)
GraduatePageCount(answer) ==
    IF answer.pages # NotStated THEN answer.pages ELSE Max(answer.links \cup {0})

(* parseGraduateCatalogPage: a total that is not told is known on the last *)
(* page only.                                                              *)
CatalogHeaders ==
    {"year", "term", "number", "name", "department", "language", "teacher", "time", "note"}
ParseGraduateCatalogPage(period, page, configured, answer) ==
    LET found == GraduateRows(answer.tables, CatalogHeaders)
        rows == IF found = {} THEN <<>> ELSE CHOOSE r \in found : TRUE
        count == GraduatePageCount(answer)
        total == IF answer.total # NotStated THEN answer.total
                 ELSE IF page = count THEN (count - 1) * configured + Len(rows)
                 ELSE 0
    IN  IF /\ rows # <<>>
           /\ page <= count
           /\ configured \in 1 .. MaxPageSize
           /\ \A row \in ToSet(rows) : GraduatePeriod(row) = {period} /\ row.name # ""
           /\ answer.total # NotStated => answer.total >= Len(rows)
        THEN CatalogPage(page, count, total, rows)
        ELSE CatalogError

-----------------------------------------------------------------------------
(* The school's catalog: so many rows, in pages of its own size, and what  *)
(* its pages tell (linked: that a page has a link to itself).              *)

Catalog(level, rows, size, tells) ==
    [level |-> level, rows |-> rows, size |-> size, tells |-> tells]
SchoolCatalog ==
    [level : {"undergraduate", "graduate"}, rows : Nat, size : Nat \ {0},
     tells : SUBSET {"size", "pages", "total", "linked"}]
PagesOf(catalog) == (catalog.rows + catalog.size - 1) \div catalog.size
RowsOf(catalog, page) ==
    LET before == (page - 1) * catalog.size
        row(i) == [key |-> {before + i}, name |-> "course", cells |-> 9,
                   period |-> "", year |-> 2025, term |-> "autumn"]
    IN  [i \in 1 .. Min({catalog.size, Max({0, catalog.rows - before})}) |-> row(i)]
IfTold(catalog, what, value) == IF what \in catalog.tells THEN value ELSE NotStated
AnswerOf(catalog, page) ==
    LET rows == RowsOf(catalog, page)
    IN  IF catalog.level = "undergraduate"
        THEN [code |-> "0", rows |-> rows, total |-> catalog.rows,
              limit |-> IfTold(catalog, "size", catalog.size),
              pages |-> IfTold(catalog, "pages", PagesOf(catalog))]
        ELSE [tables |-> <<[headers |-> CatalogHeaders, rows |-> rows]>>,
              total |-> IfTold(catalog, "total", catalog.rows),
              pages |-> IfTold(catalog, "pages", PagesOf(catalog)),
              links |-> (1 .. PagesOf(catalog)) \
                            (IF "linked" \in catalog.tells THEN {} ELSE {page})]
ReadPage(catalog, page, configured) ==
    IF catalog.level = "undergraduate"
    THEN ParseUndergraduateCatalogPage("period", page, configured, AnswerOf(catalog, page))
    ELSE ParseGraduateCatalogPage(<<2025, "autumn">>, page, configured, AnswerOf(catalog, page))

(* What the parsers need of a school whose pages are not of the size asked *)
(* for: an undergraduate page counts the pages by the configured size      *)
(* unless it tells its own, and stops early when that is larger; a         *)
(* graduate's last page counts the rows of those before it so.             *)
SizeKnown(catalog, configured) ==
    IF catalog.level = "undergraduate"
    THEN "size" \in catalog.tells \/ catalog.size >= configured
    ELSE "total" \in catalog.tells \/ catalog.size = configured
=============================================================================
