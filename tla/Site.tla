-------------------------------- MODULE Site --------------------------------
(***************************************************************************)
(* The knowledge site (apps/knowledge-site): pages and their versions      *)
(* (site_page.py), the site made of the versions that are handed over      *)
(* (site_render.py), the structured data of one (site_structured_data.py)  *)
(* and the audit of what was rendered (site_quality.py).                   *)
(*                                                                         *)
(* A version is made under a lock.  A site, structured data and an audit   *)
(* look for their key first, work, and write under a lock that is taken    *)
(* only then, so that two calls of one key may both get as far as writing. *)
(* Whether a region lets a page be shown is asked of a port, and a page    *)
(* that could not be asked about is not shown.                             *)
(*                                                                         *)
(* Left out: tenants, the texts of the artifacts and their hashes; trace   *)
(* and actor except where they decide; ports that are not callable.        *)
(***************************************************************************)
EXTENDS Integers, FiniteSets, Sequences, SequencesExt

CONSTANTS
    PageKeys,       \* page keys
    PageRoutes,     \* routes: a locale and a path
    PageSources,    \* versions of content that pages are made from
    PageBodies,     \* [evidence, faq]: references listed, references the answers name
    SiteKeys,       \* idempotency keys
    SiteQuestions,  \* [rows, filtered, eligible, default, elsewhere], see SiteOf
    KeyedQuestions, \* those that are asked under a key
    LocaleRank,     \* locale -> its place in the order of their names
    DataQuestions,  \* what structured data is asked of, see DataFault
    KeyedData,      \* those that are asked under a key
    AuditQuestions, \* what an audit is asked of, see AuditStatus
    KeyedAudits,    \* those that are asked under a key
    Probed,         \* what the port that follows links may observe
    SiteWorkers,    \* concurrent calls
    MaxPageVersions

ASSUME SiteBounds == MaxPageVersions \in Nat /\ \A l \in DOMAIN LocaleRank : LocaleRank[l] \in Nat

VARIABLES
    usable,       \* sources that are approved now
    everUsable,   \* history: sources that were approved at some time
    sitePages,    \* page key -> its route and its current version
    pageVersions, \* page key -> its versions, oldest first
    pageCommands, \* key -> the request answered under it and the version
    siteCommands, \* key -> the request remembered and the site
    sitesTold,    \* history: questions answered, with key and site
    dataCommands, \* key -> the request remembered and the data
    dataTold,     \* history: questions answered, with key and data
    auditCommands, \* key -> the request remembered and the report
    auditReports, \* the reports that are stored, one of a request
    siteWork,     \* worker -> what it is about to write
    siteRows      \* history: audit rows of renders and data, by kind

pageVars == <<usable, everUsable, sitePages, pageVersions, pageCommands>>
siteOnlyVars == <<siteCommands, sitesTold>>
dataVars == <<dataCommands, dataTold>>
auditVars == <<auditCommands, auditReports>>
siteVars == <<pageVars, siteOnlyVars, dataVars, auditVars, siteWork, siteRows>>

Nothing == [is |-> "none"]

-----------------------------------------------------------------------------
(* create_version(): a page keeps the route it began with, a key answers   *)
(* the same request as before, the source must be approved, and the number *)
(* must follow.                                                            *)
WithdrawSource(s) ==
    /\ usable' = usable \ {s}
    /\ UNCHANGED <<everUsable, sitePages, pageVersions, pageCommands>>

ApproveSource(s) ==
    /\ s \notin everUsable
    /\ usable' = usable \cup {s} /\ everUsable' = everUsable \cup {s}
    /\ UNCHANGED <<sitePages, pageVersions, pageCommands>>

(* A page lists evidence, none of it twice, and answers only with that.    *)
Backed(body) ==
    /\ body.evidence # <<>> /\ Cardinality(ToSet(body.evidence)) = Len(body.evidence)
    /\ body.faq \subseteq ToSet(body.evidence)

KeepsRoute(p, route) == sitePages[p] # Nothing => sitePages[p].route = route
Follows(p, number, expected) == LET last == Len(pageVersions[p]) IN expected = last /\ number = last + 1

(* The repository keeps a page under its key, refuses a version whose      *)
(* number the page has and an answer under a key that has one.             *)
StorePageVersion(k, p, page, version, request) ==
    /\ \A n \in DOMAIN pageVersions[p] : pageVersions[p][n].number # version.number
    /\ pageCommands[k] = Nothing
    /\ sitePages' = [sitePages EXCEPT ![p] = page]
    /\ pageVersions' = [pageVersions EXCEPT ![p] = Append(@, version)]
    /\ pageCommands' = [pageCommands EXCEPT ![k] =
           [is |-> "answered", version |-> page.current, request |-> request]]

CreatePageVersion(k, p, route, source, body, number, expected) ==
    /\ Backed(body) /\ KeepsRoute(p, route)
    /\ source \in usable
    /\ Follows(p, number, expected)
    /\ Len(pageVersions[p]) < MaxPageVersions
    /\ StorePageVersion(k, p, [is |-> "page", route |-> route, current |-> <<p, number>>],
           [number |-> number, route |-> route, source |-> source, body |-> body],
           [route |-> route, source |-> source, body |-> body, expected |-> expected])
    /\ UNCHANGED <<usable, everUsable>>

PageNext ==
    /\ UNCHANGED <<siteOnlyVars, dataVars, auditVars, siteWork, siteRows>>
    /\ \/ \E s \in PageSources : WithdrawSource(s) \/ ApproveSource(s)
       \/ \E k \in SiteKeys, p \in PageKeys, route \in PageRoutes, s \in PageSources, n \in 1 .. MaxPageVersions + 1,
             e \in 0 .. MaxPageVersions, b \in PageBodies : CreatePageVersion(k, p, route, s, b, n, e)

-----------------------------------------------------------------------------
(* render_site(): of the rows the region lets through, a published one of  *)
(* a page and locale is taken before one that is ready, and of those the   *)
(* one of the highest number.                                              *)
Renderable == {"ready", "published"}
Statuses == Renderable \cup {"draft", "superseded", "rolled_back"}
RowFault(r) == r.status \notin Statuses \/ r.url = "none"

LetThrough(q) == IF q.filtered THEN {r \in q.rows : r.id \in q.eligible} ELSE q.rows

Winners(rows, group, locale) ==
    LET public == {r \in rows : r.group = group /\ r.locale = locale /\ r.status \in Renderable}
        published == {r \in public : r.status = "published"}
        pool == IF published # {} THEN published ELSE public IN
    {r \in pool : \A s \in pool : s.number <= r.number}

Selected(q) == UNION {Winners(LetThrough(q), r.group, r.locale) : r \in q.rows}

(* The caller's path for everyone else counts when no region is asked.     *)
NamesPath(q) == ~q.filtered /\ q.elsewhere # "none"

(* Refused: a row that is no version of a page, two winners of a page and  *)
(* locale, two pages of a locale and address, a default nobody may see, a  *)
(* path for everyone else that is none.                                    *)
SameRoute(r, s) == r.locale = s.locale /\ r.url = s.url
SiteFault(q) ==
    \/ \E r \in q.rows : RowFault(r)
    \/ \E r \in Selected(q), s \in Selected(q) :
         r # s /\ (SameRoute(r, s) \/ (r.group = s.group /\ r.locale = s.locale))
    \/ ~q.filtered /\ q.default # "none" /\ ~\E r \in Selected(q) : r.locale = q.default
    \/ NamesPath(q) /\ q.elsewhere = "malformed" /\ Selected(q) # {}

(* _alternates(): where the links of a page lead, and the one for everyone *)
(* else: the path the caller names, unless regions are asked; or the page  *)
(* of the default that was asked for, the English one unless regions are   *)
(* asked, or the first of the names.                                       *)
Group(pages, r) == {s \in pages : s.group = r.group}
Everyone(q, group) ==
    LET of(l) == {s \in group : s.locale = l}
        first == {s \in group : \A t \in group : LocaleRank[s.locale] <= LocaleRank[t.locale]} IN
    IF of(q.default) # {} THEN of(q.default)
    ELSE IF ~q.filtered /\ of("en") # {} THEN of("en") ELSE first

LeadsEveryone(q, group) == IF NamesPath(q) THEN {q.elsewhere} ELSE {s.url : s \in Everyone(q, group)}

Links(pages) ==
    UNION {{[from |-> r.id, locale |-> s.locale, url |-> s.url] : s \in Group(pages, r)} : r \in pages}
Listed(pages) == {r \in pages : r.status = "published"}

SiteOf(q) ==
    LET pages == Selected(q) IN
    [is |-> "site", pages |-> {r.id : r \in pages}, listed |-> Listed(pages), links |-> Links(pages),
     everyone |-> UNION {{[from |-> r.id, url |-> u] : u \in LeadsEveryone(q, Group(pages, r))} : r \in pages}]

(* What a key remembers of a request: what was selected, the default and   *)
(* the path, and what the region said of every row.                        *)
SiteRequest(q) ==
    [pages |-> Selected(q), default |-> q.default, elsewhere |-> q.elsewhere, filtered |-> q.filtered,
     said |-> IF q.filtered THEN {<<r.id, r.id \in q.eligible>> : r \in q.rows} ELSE {}]

(* Without a key nothing is remembered.                                    *)
RenderAlone(q) ==
    /\ ~SiteFault(q)
    /\ sitesTold' = {[key |-> "none", question |-> q, site |-> SiteOf(q)]}
    /\ siteRows' = [siteRows EXCEPT !.rendered = @ + 1]
    /\ UNCHANGED <<pageVars, siteCommands, dataVars, auditVars, siteWork>>

RenderReads(w, k, q) ==
    /\ siteWork[w] = Nothing /\ ~SiteFault(q)
    /\ UNCHANGED <<pageVars, siteCommands, dataVars, auditVars, siteRows>>
    /\ \/ /\ siteCommands[k] # Nothing /\ siteCommands[k].request = SiteRequest(q)
          /\ sitesTold' = sitesTold \cup {[key |-> k, question |-> q, site |-> siteCommands[k].site]}
          /\ UNCHANGED siteWork
       \/ /\ siteCommands[k] = Nothing
          /\ siteWork' = [siteWork EXCEPT ![w] = [is |-> "render", key |-> k, question |-> q]]
          /\ UNCHANGED sitesTold

(* The row is written before the command, which is refused when the key    *)
(* has come to be known meanwhile.                                         *)
RenderWrites(w) ==
    /\ siteWork[w].is = "render"
    /\ siteWork' = [siteWork EXCEPT ![w] = Nothing]
    /\ siteRows' = [siteRows EXCEPT !.rendered = @ + 1]
    /\ UNCHANGED <<pageVars, dataVars, auditVars>>
    /\ LET k == siteWork[w].key
           q == siteWork[w].question IN
       IF siteCommands[k] # Nothing THEN UNCHANGED siteOnlyVars
       ELSE /\ siteCommands' = [siteCommands EXCEPT ![k] = [is |-> "answered", request |-> SiteRequest(q), site |-> SiteOf(q)]]
            /\ sitesTold' = sitesTold \cup {[key |-> k, question |-> q, site |-> SiteOf(q)]}

SiteNext == sitesTold = {} /\ \E q \in SiteQuestions : RenderAlone(q)
SiteKeyNext ==
    \E w \in SiteWorkers : RenderWrites(w) \/ \E k \in SiteKeys, q \in KeyedQuestions : RenderReads(w, k, q)

-----------------------------------------------------------------------------
(* generate(): a page that may be shown and says something, with a video   *)
(* only of the sixth phase, and only one that is approved; such a one must *)
(* be ours and complete.                                                   *)
VideoShown(q) ==
    /\ q.video.is = "video" /\ q.phase >= 6 /\ q.video.phase >= 6
    /\ q.video.kind = "video" /\ q.video.approved

VideoFault(q) ==
    /\ q.video.is = "video"
    /\ q.video.owner = "theirs" \/ (VideoShown(q) /\ (q.video.owner = "none" \/ ~q.video.complete))

DataFault(q) == q.status \notin Renderable \/ q.body = "none" \/ VideoFault(q)
DataOf(q) == [is |-> "data", body |-> q.body, video |-> VideoShown(q), address |-> q.video.address]

(* A refusal leaves a row of its own.                                      *)
DataRefused(q) ==
    /\ DataFault(q) /\ siteRows.rejected = 0
    /\ siteRows' = [siteRows EXCEPT !.rejected = @ + 1]
    /\ UNCHANGED <<pageVars, siteOnlyVars, dataVars, auditVars, siteWork>>

DataAlone(q) ==
    /\ ~DataFault(q)
    /\ dataTold' = {[key |-> "none", question |-> q, data |-> DataOf(q)]}
    /\ siteRows' = [siteRows EXCEPT !.generated = @ + 1]
    /\ UNCHANGED <<pageVars, siteOnlyVars, dataCommands, auditVars, siteWork>>

DataReads(w, k, q) ==
    /\ siteWork[w] = Nothing /\ ~DataFault(q)
    /\ UNCHANGED <<pageVars, siteOnlyVars, dataCommands, auditVars, siteRows>>
    /\ \/ /\ dataCommands[k] # Nothing /\ dataCommands[k].request = q
          /\ dataTold' = dataTold \cup {[key |-> k, question |-> q, data |-> dataCommands[k].data]}
          /\ UNCHANGED siteWork
       \/ /\ dataCommands[k] = Nothing
          /\ siteWork' = [siteWork EXCEPT ![w] = [is |-> "data", key |-> k, question |-> q]]
          /\ UNCHANGED dataTold

(* A call that comes too late for its key leaves both rows.                *)
DataWrites(w) ==
    /\ siteWork[w].is = "data"
    /\ siteWork' = [siteWork EXCEPT ![w] = Nothing]
    /\ UNCHANGED <<pageVars, siteOnlyVars, auditVars>>
    /\ LET k == siteWork[w].key
           q == siteWork[w].question IN
       IF dataCommands[k] # Nothing
       THEN /\ siteRows' = [siteRows EXCEPT !.generated = @ + 1, !.rejected = @ + 1]
            /\ UNCHANGED dataVars
       ELSE /\ siteRows' = [siteRows EXCEPT !.generated = @ + 1]
            /\ dataCommands' = [dataCommands EXCEPT ![k] = [is |-> "answered", request |-> q, data |-> DataOf(q)]]
            /\ dataTold' = dataTold \cup {[key |-> k, question |-> q, data |-> DataOf(q)]}

DataNext == dataTold = {} /\ \E q \in DataQuestions : DataRefused(q) \/ DataAlone(q)
DataKeyNext ==
    \E w \in SiteWorkers : DataWrites(w) \/ \E k \in SiteKeys, q \in KeyedData : DataReads(w, k, q)

-----------------------------------------------------------------------------
(* audit(): everything that is found is a pass, a failure or something to  *)
(* be reviewed.                                                            *)
Unseen == [code |-> 0, error |-> FALSE, chain |-> <<>>, final |-> "none"]

(* Refused: a page nobody can see, and text other than was rendered.       *)
AuditFault(q) == q.status \notin Renderable \/ ~q.asRendered

Judged(failed, unsure) == IF failed THEN "fail" ELSE IF unsure THEN "review" ELSE "pass"

(* The status of the page is what is said of it, or what was observed.     *)
PageCode(q) == IF q.code = 0 /\ "page" \in DOMAIN q.seen THEN q.seen["page"].code ELSE q.code
PageChecked(q) == Judged(PageCode(q) \notin {0, 200}, PageCode(q) = 0)

(* A redirect ends where it says, within the limit, and passes no address  *)
(* twice; the address it starts from may be left out of the chain, and     *)
(* then it is not one of those.                                            *)
Hops(url, chain) == IF Head(chain) = url THEN Len(chain) - 1 ELSE Len(chain)
RedirectFails(url, o, limit) ==
    \/ o.final = "none" \/ o.chain = <<>>
    \/ Cardinality(ToSet(o.chain)) # Len(o.chain)
    \/ Hops(url, o.chain) > limit
    \/ Last(o.chain) # o.final

LinkChecked(url, o, limit) ==
    IF o.error \/ o.code < 200 THEN "review"
    ELSE Judged(o.code >= 400 \/ (o.code >= 300 /\ RedirectFails(url, o, limit)), FALSE)

(* A link that nobody observed is probed; the page itself has been.        *)
Observed(q, url, probe) ==
    IF url \in DOMAIN q.seen THEN q.seen[url]
    ELSE IF url = "page" /\ PageCode(q) # 0 THEN [Unseen EXCEPT !.code = PageCode(q)]
    ELSE probe

MetricChecked(m) == Judged(m = "over", m = "missing")
ImageChecked(image) == Judged(image \in {"bare", "long"}, FALSE)
MediaChecked(media) == Judged(media = "bare", FALSE)
ShapeChecked(q) == Judged(q.canonicals # 1 \/ ~q.own \/ q.titles # 1 \/ ~q.main \/ q.brokenAnchor \/ q.unsafe, FALSE)
DynamicChecked(dynamic) == Judged(dynamic = "other", dynamic = "required")

Checks(q, probe) ==
    {PageChecked(q), ShapeChecked(q), DynamicChecked(q.dynamic), MediaChecked(q.media)}
    \cup {LinkChecked(u, Observed(q, u, probe), q.limit) : u \in q.links}
    \cup {MetricChecked(m) : m \in q.metrics} \cup {ImageChecked(i) : i \in q.images}

AuditStatus(q, probe) ==
    IF "fail" \in Checks(q, probe) THEN "blocked"
    ELSE IF "review" \in Checks(q, probe) THEN "manual_review" ELSE "passed"

Report(k, q, probe) == [is |-> "report", key |-> k, question |-> q, probe |-> probe, status |-> AuditStatus(q, probe)]

(* Asked without a race: the question is answered at once.                 *)
AuditAlone(q, probe) ==
    /\ ~AuditFault(q)
    /\ auditReports' = {Report("none", q, probe)}
    /\ UNCHANGED <<pageVars, siteOnlyVars, dataVars, auditCommands, siteWork, siteRows>>

AuditReads(w, k, q, probe) ==
    /\ siteWork[w] = Nothing /\ auditCommands[k] = Nothing /\ ~AuditFault(q)
    /\ siteWork' = [siteWork EXCEPT ![w] = [is |-> "audit", key |-> k, question |-> q, probe |-> probe]]
    /\ UNCHANGED <<pageVars, siteOnlyVars, dataVars, auditVars, siteRows>>

(* The key remembers the report before the report is stored: a call of     *)
(* another question is refused, one of the same goes on.                   *)
AuditRemembers(w) ==
    /\ siteWork[w].is = "audit"
    /\ UNCHANGED <<pageVars, siteOnlyVars, dataVars, auditReports, siteRows>>
    /\ LET x == siteWork[w] IN
       IF auditCommands[x.key] = Nothing
       THEN /\ auditCommands' = [auditCommands EXCEPT ![x.key] = Report(x.key, x.question, x.probe)]
            /\ siteWork' = [siteWork EXCEPT ![w].is = "store"]
       ELSE /\ UNCHANGED auditCommands
            /\ siteWork' = [siteWork EXCEPT ![w] =
                   IF auditCommands[x.key].question = x.question THEN [x EXCEPT !.is = "store"] ELSE Nothing]

(* The report of a question is known by its question alone: a second one   *)
(* is refused, under whatever key.                                         *)
AuditStores(w) ==
    /\ siteWork[w].is = "store"
    /\ siteWork' = [siteWork EXCEPT ![w] = Nothing]
    /\ UNCHANGED <<pageVars, siteOnlyVars, dataVars, auditCommands, siteRows>>
    /\ LET x == siteWork[w] IN
       auditReports' = IF \E r \in auditReports : r.question = x.question THEN auditReports
                       ELSE auditReports \cup {Report(x.key, x.question, x.probe)}

AuditNext == auditReports = {} /\ \E q \in AuditQuestions, probe \in Probed : AuditAlone(q, probe)
AuditKeyNext ==
    \E w \in SiteWorkers :
        \/ AuditRemembers(w) \/ AuditStores(w)
        \/ \E k \in SiteKeys, q \in KeyedAudits, probe \in Probed : AuditReads(w, k, q, probe)

SiteInit ==
    /\ usable = {} /\ everUsable = {}
    /\ sitePages = [p \in PageKeys |-> Nothing] /\ pageVersions = [p \in PageKeys |-> <<>>]
    /\ pageCommands = [k \in SiteKeys |-> Nothing]
    /\ siteCommands = [k \in SiteKeys |-> Nothing] /\ sitesTold = {}
    /\ dataCommands = [k \in SiteKeys |-> Nothing] /\ dataTold = {}
    /\ auditCommands = [k \in SiteKeys |-> Nothing] /\ auditReports = {}
    /\ siteWork = [w \in SiteWorkers |-> Nothing]
    /\ siteRows = [rendered |-> 0, generated |-> 0, rejected |-> 0]

-----------------------------------------------------------------------------
SiteTypeOK ==
    /\ usable \subseteq everUsable /\ everUsable \subseteq PageSources
    /\ \A k \in SiteKeys : pageCommands[k].is \in {"none", "answered"}
    /\ \A w \in SiteWorkers : siteWork[w].is \in {"none", "render", "data", "audit", "store"}

(* The versions of a page are numbered without a gap under one route, the  *)
(* page points to the last, every one is of a source that was approved and *)
(* answers with evidence it lists,                                         *)
(* and was made once: for one key, which answers it and knew the version   *)
(* before.                                                                 *)
PagesLinear ==
    /\ \A p \in PageKeys, n \in 1 .. MaxPageVersions : n <= Len(pageVersions[p]) =>
          /\ pageVersions[p][n].number = n
          /\ pageVersions[p][n].route = sitePages[p].route
          /\ pageVersions[p][n].source \in everUsable
          /\ pageVersions[p][n].body.faq \subseteq ToSet(pageVersions[p][n].body.evidence)
          /\ Cardinality({k \in SiteKeys : pageCommands[k].is = "answered" /\ pageCommands[k].version = <<p, n>>}) = 1
    /\ \A k \in SiteKeys : pageCommands[k].is = "answered" => pageCommands[k].request.expected + 1 = pageCommands[k].version[2]
    /\ \A p \in PageKeys : sitePages[p] # Nothing => sitePages[p].current = <<p, Len(pageVersions[p])>>

(* A site that is told, new or again, shows only what the region lets      *)
(* through, lists only what is published and not an old version of it, has *)
(* one page at an address, and links a page to the others of its key and   *)
(* to one of them for everyone else. Only the caller who asks no region    *)
(* can send everyone else to another path, and that path alone.            *)
SiteTold ==
    \A t \in sitesTold :
        LET allowed == {r \in t.question.rows : t.question.filtered => r.id \in t.question.eligible}
            row(id) == CHOOSE r \in t.question.rows : r.id = id IN
        /\ t.site.pages \subseteq {r.id : r \in allowed}
        /\ \A r \in t.site.listed :
             /\ r \in allowed /\ r.id \in t.site.pages /\ r.status = "published"
             /\ ~\E s \in allowed : s.group = r.group /\ s.locale = r.locale /\ s.status = "published" /\ s.number > r.number
        /\ \A r \in allowed : r.status = "published" =>
             \E s \in t.site.listed : s.group = r.group /\ s.locale = r.locale /\ s.number >= r.number
        /\ \A i \in t.site.pages, j \in t.site.pages : i # j => ~SameRoute(row(i), row(j))
        /\ \A l \in t.site.links \cup {x \in t.site.everyone : t.question.filtered \/ t.question.elsewhere = "none"} :
             \E j \in t.site.pages : row(j).url = l.url /\ row(j).group = row(l.from).group
        /\ \A x \in t.site.everyone : ~t.question.filtered /\ t.question.elsewhere # "none" => x.url = t.question.elsewhere
        /\ \A i \in t.site.pages : Cardinality({l.url : l \in {x \in t.site.everyone : x.from = i}}) = 1
        /\ \A o \in sitesTold : o.key = t.key => o.site = t.site

(* Structured data is told of a page that may be shown, with its own text, *)
(* names a video only when one was approved for this phase, ours and       *)
(* complete, and was audited before a key remembers it.                    *)
DataTold ==
    /\ \A t \in dataTold :
        LET q == t.question IN
        /\ q.status \in Renderable /\ t.data.body = q.body /\ q.body # "none"
        /\ t.data.video =>
             /\ q.phase >= 6 /\ q.video.phase >= 6 /\ q.video.approved /\ q.video.owner = "ours" /\ q.video.complete
             /\ t.data.address = q.video.address
        /\ \A o \in dataTold : o.key = t.key => o.data = t.data
    /\ Cardinality({k \in SiteKeys : dataCommands[k] # Nothing}) <= siteRows.generated

(* A page that passed answered 200, every link on it was seen to answer or *)
(* to lead within the limit to where it says, and nothing else was wrong   *)
(* or unknown; one that is not blocked has no link that was seen broken.   *)
(* A report that is stored is of a question its key remembers.             *)
AuditsTold ==
    \A r \in auditReports :
        LET q == r.question
            seen(u) == IF u \in DOMAIN q.seen THEN q.seen[u]
                       ELSE IF u = "page" /\ q.code # 0 THEN [Unseen EXCEPT !.code = q.code] ELSE r.probe IN
        /\ q.status \in Renderable /\ q.asRendered
        /\ r.status # "blocked" =>
             /\ PageCode(q) \in {0, 200}
             /\ \A u \in q.links : seen(u).error \/ seen(u).code < 400
        /\ r.status = "passed" =>
             /\ q.code = 200 \/ ("page" \in DOMAIN q.seen /\ q.seen["page"].code = 200)
             /\ \A u \in q.links :
                  /\ ~seen(u).error /\ seen(u).code \in 200 .. 399
                  /\ seen(u).code >= 300 =>
                       /\ seen(u).chain # <<>> /\ seen(u).chain[Len(seen(u).chain)] = seen(u).final
                       /\ Len(SelectSeq(seen(u).chain, LAMBDA hop : hop # u)) <= q.limit
                       /\ \A i \in DOMAIN seen(u).chain, j \in DOMAIN seen(u).chain : i # j => seen(u).chain[i] # seen(u).chain[j]
             /\ q.metrics \subseteq {"within"} /\ q.images \subseteq {"described", "decorative"}
             /\ q.media # "bare" /\ q.dynamic \in {"none", "same"}
             /\ q.canonicals = 1 /\ q.own /\ q.titles = 1 /\ q.main
        /\ r.key # "none" => auditCommands[r.key].question = q
=============================================================================
