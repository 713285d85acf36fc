------------------------------ MODULE Variants ------------------------------
(***************************************************************************)
(* Variants of a content for a market (modules/production): drafts made    *)
(* from a version of the content, the versions stored of them, the rules   *)
(* of the region they are held against, and the terms they are to use.     *)
(*                                                                         *)
(* A draft is stored in one transaction; the decision of the region's      *)
(* rules, asked for inside it, is kept in memory and stays when the        *)
(* transaction does not. Its request holds the time of the call, so it is  *)
(* never asked for twice under one key.                                    *)
(*                                                                         *)
(* A text is how often each word stands in it. Left out: tone, titles and  *)
(* abstracts, the term memory a version names, hashes, events and audit;   *)
(* a command whose key is known is answered or refused and changes         *)
(* nothing.                                                                *)
(***************************************************************************)
EXTENDS Integers, Sequences, FiniteSets

CONSTANTS
    VariantKeys,      \* idempotency keys
    VariantSources,   \* versions of contents
    SourceText,       \* source -> its sections in order, [key, claim, words]
    ContentOf,        \* source -> the content it is a version of
    VariantWords,     \* words of texts
    TokenWords,       \* those that are code, links or numbers
    RegionVersions,   \* versions of region profiles
    RegionTerms,      \* version -> [market, locales, from, to, whole, restricted, required, platforms]:
                      \*   rules are [label, markets, platforms], all of them if empty; whole is
                      \*   FALSE when a field or a rule of it is malformed
    Audiences,        \* [locale, market, audience] a draft may be for
    OtherTexts,       \* texts a transformation may give a section
    Disclosures,      \* sets of labels a caller discloses
    Platforms,        \* platforms a caller names, NoPlatform among them
    NoPlatform,
    GlossaryBodies,   \* [names, entries]: product names, <<source, target>> pairs
    LastVariantMoment, MaxVariantRows, MaxGlossaries \* bounds

Unlimited == -1    \* an end of validity that is not given
NotGiven == -1     \* no expected version is given
Modes4Draft == {"rule_copy", "adapted"}

VARIABLES
    variantNow,
    withdrawn,      \* source -> NotGiven, or how many rows there were when it was withdrawn
    regionState,    \* region version -> its status
    injected,       \* whether the store was given the region rules
    draftMade,      \* key -> the draft made under it
    variantRow,     \* versions in the order they were stored
    variantRoot,    \* [content, locale, market, audience] -> its current row
    variantCommand, \* key -> the request of a stored draft and its row
    regionDecision, \* <<who asked, key>> -> the request and the faults found
    glossary,       \* glossary versions, [locale, no, body]
    termMemory,     \* approved translations, [locale, source, target]
    termCommand,    \* key -> the request and what it made
    termCheck       \* the last check of a draft's terms and its issues

variantVars == <<variantNow, withdrawn, regionState, draftMade, variantRow, variantRoot, variantCommand, regionDecision, injected>>
termVars == <<glossary, termMemory, termCommand, termCheck>>
productionVars == <<variantVars, termVars>>

NothingKept == [request |-> "none"]
Roots == {[content |-> ContentOf[s], locale |-> a.locale, market |-> a.market, audience |-> a.audience] :
              s \in VariantSources, a \in Audiences}
DecisionKeys == {"asked", "saved"} \X VariantKeys

VariantInit ==
    /\ variantNow = 0
    /\ withdrawn = [s \in VariantSources |-> NotGiven]
    /\ regionState = [r \in RegionVersions |-> "active"]
    /\ injected \in BOOLEAN
    /\ draftMade = [k \in VariantKeys |-> NothingKept]
    /\ variantRow = <<>> /\ variantRoot = [r \in Roots |-> 0]
    /\ variantCommand = [k \in VariantKeys |-> NothingKept]
    /\ regionDecision = [k \in DecisionKeys |-> NothingKept]
    /\ glossary = <<>> /\ termMemory = {}
    /\ termCommand = [k \in VariantKeys |-> NothingKept]
    /\ termCheck = NothingKept

WithdrawVersion(s) ==
    /\ withdrawn[s] = NotGiven
    /\ withdrawn' = [withdrawn EXCEPT ![s] = Len(variantRow)]
    /\ UNCHANGED <<variantNow, regionState, draftMade, variantRow, variantRoot, variantCommand, regionDecision, injected, termVars>>

RegionMoves(r, status) ==
    /\ regionState' = [regionState EXCEPT ![r] = status]
    /\ UNCHANGED <<variantNow, withdrawn, draftMade, variantRow, variantRoot, variantCommand, regionDecision, injected, termVars>>

VariantTick ==
    /\ variantNow < LastVariantMoment /\ variantNow' = variantNow + 1
    /\ UNCHANGED <<withdrawn, regionState, draftMade, variantRow, variantRoot, variantCommand, regionDecision, injected, termVars>>

-----------------------------------------------------------------------------
(* A draft has a block for every section of its source.                    *)
Block(section, words) == [key |-> section.key, claim |-> section.claim, words |-> words]
VariantDraft(s, a, mode, words) ==
    [source |-> s, audience |-> a, mode |-> mode,
     blocks |-> [n \in DOMAIN SourceText[s] |-> Block(SourceText[s][n], words[n])]]

CopiedText(s) == [n \in DOMAIN SourceText[s] |-> SourceText[s][n].words]

(* generate(): what the port says of the way the text was made is not      *)
(* compared with the text.                                                 *)
GenerateDraft(k, s, a, mode, words) ==
    /\ draftMade[k] = NothingKept
    /\ withdrawn[s] = NotGiven
    /\ draftMade' = [draftMade EXCEPT ![k] = [request |-> [source |-> s, audience |-> a], draft |-> VariantDraft(s, a, mode, words)]]
    /\ UNCHANGED <<variantNow, withdrawn, regionState, variantRow, variantRoot, variantCommand, regionDecision, injected, termVars>>

-----------------------------------------------------------------------------
(* The rules of a region. A rule holds for the markets and platforms it    *)
(* lists. The words of every block are searched for restricted topics; the *)
(* disclosures are those given beside the draft.                           *)
Applies(rule, market, platform) ==
    /\ rule.markets = {} \/ market \in rule.markets
    /\ rule.platforms = {} \/ platform \in rule.platforms

Says(d, label) == \E n \in DOMAIN d.blocks : d.blocks[n].words[label] > 0

RegionFaults(r, status, d, c, at) ==
    LET terms == RegionTerms[r]
        applied(rules) == {rule.label : rule \in {x \in rules : Applies(x, d.audience.market, c.platform)}} IN
    {f \in {"inactive", "validity", "locale", "market", "field", "platform", "restricted", "disclosure"} :
        CASE f = "inactive" -> status # "active"
          [] f = "validity" -> Unlimited \in {terms.from, terms.to} \/ ~(terms.from <= at /\ at < terms.to)
          [] f = "locale" -> d.audience.locale \notin terms.locales
          [] f = "market" -> d.audience.market # terms.market
          [] f = "field" -> ~terms.whole \/ c.otherField
          [] f = "platform" -> c.platform # NoPlatform /\ terms.platforms # {} /\ c.platform \notin terms.platforms
          [] f = "restricted" -> \E label \in applied(terms.restricted) : Says(d, label)
          [] f = "disclosure" -> ~(applied(terms.required) \subseteq c.disclosed)}

(* A platform a region does not list any platforms for is to be reviewed.  *)
DecisionOf(r, d, c, at) ==
    LET faults == RegionFaults(r, regionState[r], d, c, at) IN
    [request |-> [region |-> r, status |-> regionState[r], draft |-> d, context |-> c, at |-> at],
     faults |-> faults,
     status |-> IF faults # {} THEN "blocked"
                ELSE IF c.platform # NoPlatform /\ RegionTerms[r].platforms = {} THEN "review" ELSE "eligible"]

EvaluateRegion(k, r, d, c, at) ==
    /\ regionDecision[<<"asked", k>>] = NothingKept
    /\ regionDecision' = [regionDecision EXCEPT ![<<"asked", k>>] = DecisionOf(r, d, c, at)]
    /\ UNCHANGED <<variantNow, withdrawn, regionState, draftMade, variantRow, variantRoot, variantCommand, injected, termVars>>

-----------------------------------------------------------------------------
(* save_draft(). The source is not withdrawn, a text that says it was      *)
(* copied was, and the region is in force and for the draft's locale and   *)
(* market, before its rules are asked.                                     *)
SourceFits(d) ==
    /\ withdrawn[d.source] = NotGiven
    /\ d.mode = "rule_copy" => [n \in DOMAIN d.blocks |-> d.blocks[n].words] = CopiedText(d.source)
RegionFits(r, d) ==
    regionState[r] = "active" /\ RegionTerms[r].market = d.audience.market /\ d.audience.locale \in RegionTerms[r].locales

RootOf(d) ==
    [content |-> ContentOf[d.source], locale |-> d.audience.locale, market |-> d.audience.market, audience |-> d.audience.audience]
NumberOf(n) == IF n = 0 THEN 0 ELSE variantRow[n].no
ExpectedFits(expected, current) == expected = NumberOf(current) \/ (current = 0 /\ expected = NotGiven)

SaveContext(disclosed) == [disclosed |-> disclosed, platform |-> NoPlatform, otherField |-> FALSE]
SaveRequest(d, r, expected, disclosed) == [draft |-> d, region |-> r, expected |-> expected, disclosed |-> disclosed]

StoreVersion(k, d, r, expected, disclosed) ==
    LET current == variantRoot[RootOf(d)]
        stored == Len(variantRow) + 1 IN
    /\ variantRow' = Append(variantRow,
           [root |-> RootOf(d), no |-> NumberOf(current) + 1, prior |-> current, draft |-> d, region |-> r,
            disclosed |-> disclosed, key |-> k, at |-> variantNow])
    /\ variantRoot' = [variantRoot EXCEPT ![RootOf(d)] = stored]
    /\ variantCommand' = [variantCommand EXCEPT ![k] = [request |-> SaveRequest(d, r, expected, disclosed), row |-> stored]]

SaveDraft(k, d, r, expected, disclosed) ==
    LET decision == DecisionOf(r, d, SaveContext(disclosed), variantNow) IN
    /\ variantCommand[k] = NothingKept
    /\ SourceFits(d) /\ RegionFits(r, d)
    /\ Len(variantRow) < MaxVariantRows
    /\ IF injected
       THEN /\ regionDecision[<<"saved", k>>] = NothingKept
            /\ regionDecision' = [regionDecision EXCEPT ![<<"saved", k>>] = decision]
       ELSE UNCHANGED regionDecision
    /\ IF (injected => decision.status # "blocked") /\ ExpectedFits(expected, variantRoot[RootOf(d)])
       THEN StoreVersion(k, d, r, expected, disclosed)
       ELSE injected /\ UNCHANGED <<variantRow, variantRoot, variantCommand>>
    /\ UNCHANGED <<variantNow, withdrawn, regionState, draftMade, injected, termVars>>

-----------------------------------------------------------------------------
(* Terms: a glossary version per command, and a memory in which a          *)
(* translation stands once.                                                *)
GlossaryNumbers(locale) == {glossary[n].no : n \in {i \in DOMAIN glossary : glossary[i].locale = locale}}
NextGlossary(locale) == CHOOSE n \in 1 .. Len(glossary) + 1 :
    n \notin GlossaryNumbers(locale) /\ \A m \in GlossaryNumbers(locale) : m < n

CreateGlossary(k, locale, body) ==
    /\ termCommand[k] = NothingKept /\ Len(glossary) < MaxGlossaries
    /\ glossary' = Append(glossary, [locale |-> locale, no |-> NextGlossary(locale), body |-> body])
    /\ termCommand' = [termCommand EXCEPT ![k] = [request |-> [locale |-> locale, body |-> body], made |-> Len(glossary) + 1]]
    /\ UNCHANGED <<variantVars, termMemory, termCheck>>

AddMemory(k, locale, source, target) ==
    LET entry == [locale |-> locale, source |-> source, target |-> target] IN
    /\ termCommand[k] = NothingKept
    /\ termMemory' = termMemory \cup {entry}
    /\ termCommand' = [termCommand EXCEPT ![k] = [request |-> entry, made |-> 0]]
    /\ UNCHANGED <<variantVars, glossary, termCheck>>

(* check_translation(): tokens stand as often as in the source, product    *)
(* names at least as often, and a term that is used is translated.         *)
Issues(body, before, after) ==
    {<<"missing", w>> : w \in {x \in TokenWords : before[x] > after[x]}}
    \cup {<<"added", w>> : w \in {x \in TokenWords : after[x] > before[x]}}
    \cup {<<"name", w>> : w \in {x \in body.names : before[x] > after[x]}}
    \cup {<<"term", e[2]>> : e \in {x \in body.entries : before[x[1]] > 0 /\ after[x[2]] = 0}}

Suggestions(locale, source) == {e.target : e \in {x \in termMemory : x.locale = locale /\ x.source = source}}

(* check_draft()                                                           *)
CheckDraft(n, d) ==
    LET blocks == DOMAIN d.blocks IN
    /\ glossary[n].locale = d.audience.locale
    /\ termCheck' =
         [request |-> [draft |-> d, glossary |-> n],
          issues |-> UNION {{<<b, i>> : i \in Issues(glossary[n].body, SourceText[d.source][b].words, d.blocks[b].words)} : b \in blocks},
          suggested |-> [b \in blocks |-> Suggestions(d.audience.locale, SourceText[d.source][b].words)]]
    /\ UNCHANGED <<variantVars, glossary, termMemory, termCommand>>

-----------------------------------------------------------------------------
(* Drafts callers hold: those made here, and what an agent wrote.          *)
TextsFor(s) == {CopiedText(s)} \cup [DOMAIN SourceText[s] -> OtherTexts]
Made == {draftMade[k].draft : k \in {x \in VariantKeys : draftMade[x] # NothingKept}}
Written == UNION {{VariantDraft(s, a, "adapted", w) : w \in TextsFor(s)} : s \in VariantSources, a \in Audiences}

DecisionNext ==
    \E k \in VariantKeys, r \in RegionVersions, d \in Written, disclosed \in Disclosures,
       platform \in Platforms, otherField \in BOOLEAN, at \in 0 .. LastVariantMoment :
        EvaluateRegion(k, r, d, [disclosed |-> disclosed, platform |-> platform, otherField |-> otherField], at)

TermNext ==
    \/ \E k \in VariantKeys, a \in Audiences, body \in GlossaryBodies : CreateGlossary(k, a.locale, body)
    \/ \E k \in VariantKeys, a \in Audiences, source, target \in OtherTexts : AddMemory(k, a.locale, source, target)
    \/ \E n \in DOMAIN glossary, d \in Written : CheckDraft(n, d)

-----------------------------------------------------------------------------
VariantTypeOK ==
    /\ variantNow \in 0 .. LastVariantMoment
    /\ \A s \in VariantSources : withdrawn[s] \in NotGiven .. MaxVariantRows
    /\ \A r \in Roots : variantRoot[r] \in 0 .. MaxVariantRows
    /\ \A n \in DOMAIN variantRow : variantRow[n].root \in Roots
    /\ \A k \in DecisionKeys : regionDecision[k] # NothingKept => regionDecision[k].status \in {"blocked", "review", "eligible"}
    /\ Len(glossary) <= MaxGlossaries

(* The versions of a variant follow one line: each is the next of the one  *)
(* its writer expected, the variant shows the last, and every stored       *)
(* command has one version and every version one command.                  *)
VariantsLinear ==
    /\ \A n \in DOMAIN variantRow :
         LET row == variantRow[n]
             request == variantCommand[row.key].request IN
         /\ IF row.prior = 0 THEN row.no = 1 /\ \A i \in 1 .. n - 1 : variantRow[i].root # row.root
            ELSE row.prior < n /\ variantRow[row.prior].root = row.root /\ row.no = variantRow[row.prior].no + 1
         /\ \A i \in DOMAIN variantRow : variantRow[i].root = row.root /\ variantRow[i].no = row.no => i = n
         /\ variantRow[variantRoot[row.root]].no >= row.no
         /\ variantCommand[row.key].row = n /\ request.draft = row.draft /\ request.region = row.region
         /\ request.expected \in {row.no - 1} \cup (IF row.no = 1 THEN {NotGiven} ELSE {})
    /\ \A k \in VariantKeys : variantCommand[k] # NothingKept => variantRow[variantCommand[k].row].key = k

(* A stored version is of a source that was not withdrawn by then, is for  *)
(* the market and a locale of its region, keeps the claims of its source   *)
(* in place, is the source's text when it says so, and was decided on,     *)
(* with the same disclosure, where the rules are asked.                    *)
VariantsBacked ==
    \A n \in DOMAIN variantRow :
        LET row == variantRow[n]
            d == row.draft IN
        /\ withdrawn[d.source] = NotGiven \/ n <= withdrawn[d.source]
        /\ RegionTerms[row.region].market = row.root.market /\ row.root.locale \in RegionTerms[row.region].locales
        /\ [b \in DOMAIN d.blocks |-> d.blocks[b].claim] = [b \in DOMAIN SourceText[d.source] |-> SourceText[d.source][b].claim]
        /\ d.mode = "rule_copy" => \A b \in DOMAIN d.blocks : d.blocks[b].words = SourceText[d.source][b].words
        /\ injected =>
             LET decision == regionDecision[<<"saved", row.key>>] IN
             /\ decision.status = "eligible" /\ decision.request.at = row.at
             /\ decision.request.draft = d /\ decision.request.context.disclosed = row.disclosed

(* What was not blocked may be shown there: the region was in force, and   *)
(* neither its dates, its language nor a topic it restricts forbids the    *)
(* text, and all it asks for is disclosed.                                 *)
DecisionTold ==
    \A k \in DecisionKeys :
        LET decision == regionDecision[k] IN
        decision # NothingKept /\ decision.status # "blocked" =>
            LET q == decision.request
                terms == RegionTerms[q.region] IN
            /\ q.status = "active" /\ terms.from \in 0 .. q.at /\ q.at < terms.to
            /\ q.draft.audience.locale \in terms.locales /\ q.draft.audience.market = terms.market
            /\ \A rule \in terms.restricted :
                 /\ rule.markets \subseteq {q.draft.audience.market}
                 /\ rule.platforms \subseteq {q.context.platform}
                 => \A b \in DOMAIN q.draft.blocks : q.draft.blocks[b].words[rule.label] = 0
            /\ \A rule \in terms.required : rule.markets = {} /\ rule.platforms = {} => rule.label \in q.context.disclosed
            /\ decision.status = "eligible" => q.context.platform \in {NoPlatform} \cup terms.platforms

(* Glossary versions of a locale are numbered in the order they were made, *)
(* each by one command, and what a command said was approved is.           *)
TermsLinear ==
    /\ \A i, j \in DOMAIN glossary : i < j /\ glossary[i].locale = glossary[j].locale => glossary[i].no < glossary[j].no
    /\ \A n \in DOMAIN glossary : Cardinality({k \in VariantKeys : termCommand[k] # NothingKept /\ termCommand[k].made = n}) = 1
    /\ \A k \in VariantKeys : termCommand[k] # NothingKept =>
         IF termCommand[k].made = 0 THEN termCommand[k].request \in termMemory
         ELSE glossary[termCommand[k].made].body = termCommand[k].request.body

(* A draft passes when it has the tokens of its source and no others, and  *)
(* as many, names and terms as the glossary of its locale asks; a copy     *)
(* fails for its terms only.                                               *)
TranslationTold ==
    termCheck # NothingKept =>
        LET d == termCheck.request.draft
            g == glossary[termCheck.request.glossary]
            before(b) == SourceText[d.source][b].words IN
        /\ termCheck.issues = {} =>
             /\ g.locale = d.audience.locale
             /\ \A b \in DOMAIN d.blocks :
                  /\ \A w \in TokenWords : d.blocks[b].words[w] = before(b)[w]
                  /\ \A w \in g.body.names : d.blocks[b].words[w] >= before(b)[w]
                  /\ \A e \in g.body.entries : before(b)[e[1]] > 0 => d.blocks[b].words[e[2]] > 0
        /\ (\A b \in DOMAIN d.blocks : d.blocks[b].words = before(b)) => \A i \in termCheck.issues : i[2][1] = "term"
=============================================================================
