--------------------------- MODULE GeoVideoProofs ---------------------------
(***************************************************************************)
(* What GEO says of a page, and what is made of a video, can be relied on, *)
(* for every value of the constants.                                       *)
(*                                                                         *)
(* GEO (Geo): the pointer of a region names its one active version, a run  *)
(* is answered as it was made, and the assessment calls exactly the        *)
(* citable pages ready for citation. Video (RenderJobs, MediaChain,        *)
(* MediaChecks): a render job that succeeded can show its artifact, the    *)
(* versions of a plan follow one line, belong together and fill their      *)
(* time, and what the checks say of an asset is so.                        *)
(*                                                                         *)
(* The services of a part share nothing, so their invariants are kept      *)
(* apart: RegionInv, RunInv and AssessInv; RenderInv, MediaInv, CheckInv.  *)
(***************************************************************************)
EXTENDS ContentMC, FiniteSetTheorems, SequenceTheorems, WellFoundedInduction, TLAPS

-----------------------------------------------------------------------------
(* Regions. The versions are a sequence of rows, and a renderer that has   *)
(* found its page valid has seen the version activated: an activated       *)
(* version is never a draft again.                                         *)
VersionRow == [status : {"draft", "active", "retired"}, terms : Terms \cup {NoTerms}]

VersionsKept ==
    /\ region \in Seq(VersionRow)
    /\ Len(region) <= MaxRegionVersions
    /\ \A n \in Numbers : region[n].terms = NoTerms => region[n].status = "draft"

ProfileTyped == profile \in [status : {"none", "active", "retired"}, current : Numbers \cup {0}]

AskedOf(q) ==
    /\ q.at \in {"read", "fresh"}
    /\ q.page \in Numbers
    /\ q.valid => region[q.page].status # "draft"

ListingKept ==
    /\ DOMAIN listing = Sites
    /\ \A s \in Sites : listing[s] = NotListing \/ AskedOf(listing[s])

OneActive ==
    /\ {n \in Numbers : region[n].status = "active"} = {profile.current} \ {0}
    /\ profile.status # "active" => profile.current = 0

DecidedKept ==
    /\ DOMAIN decided = 1 .. MaxRegionVersions
    /\ \A n \in DOMAIN decided : decided[n].eligible => n \in Numbers /\ region[n].status # "draft"

RegionInv ==
    /\ regionDay \in RegionDays
    /\ VersionsKept
    /\ ProfileTyped
    /\ ListingKept
    /\ OneActive
    /\ DecidedKept

(* The numbers of the versions run from one up to the bound.               *)
LEMMA NumbersUpTo ==
    ASSUME VersionsKept
    PROVE  /\ Len(region) \in Nat
           /\ Numbers = 1 .. Len(region)
           /\ Numbers \subseteq 1 .. MaxRegionVersions
           /\ 0 \notin Numbers
           /\ \A n \in Numbers : region[n] \in VersionRow
<1>1. region \in Seq(VersionRow) /\ Len(region) <= MaxRegionVersions
  BY DEF VersionsKept
<1>2. Len(region) \in Nat /\ DOMAIN region = 1 .. Len(region)
  BY <1>1, LenProperties
<1>3. \A n \in 1 .. Len(region) : region[n] \in VersionRow
  BY <1>1, ElementOfSeq
<1> QED
  BY <1>1, <1>2, <1>3, RegionBounds DEF Numbers

(* A step that leaves the versions their numbers, and no activated one a   *)
(* draft, disturbs neither a renderer nor a decision.                      *)
Onward ==
    /\ Numbers \subseteq DOMAIN region'
    /\ \A n \in Numbers : region[n].status # "draft" => region'[n].status # "draft"

LEMMA OnwardKeeps ==
    ASSUME Onward, ListingKept, DecidedKept, UNCHANGED <<listing, decided>>
    PROVE  ListingKept' /\ DecidedKept'
<1>1. Numbers' = DOMAIN region'
  BY DEF Numbers
<1>2. ListingKept'
  <2>1. DOMAIN listing' = Sites
    BY DEF ListingKept
  <2>2. ASSUME NEW s \in Sites
        PROVE  (listing[s] = NotListing)' \/ AskedOf(listing[s])'
    <3>1. listing[s] = NotListing \/ AskedOf(listing[s])
      BY DEF ListingKept
    <3>2. CASE listing[s] = NotListing
      BY <3>2 DEF NotListing
    <3>3. CASE AskedOf(listing[s])
      BY <3>3, <1>1 DEF AskedOf, Onward
    <3> QED
      BY <3>1, <3>2, <3>3
  <2> QED
    BY <2>1, <2>2 DEF ListingKept
<1>3. DecidedKept'
  BY <1>1 DEF DecidedKept, Onward
<1> QED
  BY <1>2, <1>3

LEMMA RegionStart == RegionInit => RegionInv
<1> SUFFICES ASSUME RegionInit
             PROVE  RegionInv
  OBVIOUS
<1>1. region = <<>> /\ Len(region) = 0 /\ DOMAIN region = {} /\ region \in Seq(VersionRow)
  BY EmptySeq DEF RegionInit
<1>2. VersionsKept
  BY <1>1, RegionBounds DEF VersionsKept, Numbers
<1>3. ProfileTyped /\ OneActive
  BY <1>1 DEF RegionInit, ProfileTyped, OneActive, Numbers
<1>4. ListingKept
  BY DEF RegionInit, ListingKept
<1>5. DecidedKept
  BY DEF RegionInit, DecidedKept, Undecided
<1>6. regionDay \in RegionDays
  BY RegionBounds DEF RegionInit, RegionDays
<1> QED
  BY <1>2, <1>3, <1>4, <1>5, <1>6 DEF RegionInv

LEMMA RegionFrame ==
    ASSUME RegionInv, UNCHANGED regionVars
    PROVE  RegionInv'
<1> USE DEF regionVars
<1>1. VersionsKept'
  BY DEF RegionInv, VersionsKept, Numbers
<1>2. ProfileTyped'
  BY DEF RegionInv, ProfileTyped, Numbers
<1>3. ListingKept'
  BY DEF RegionInv, ListingKept, AskedOf, Numbers, NotListing
<1>4. OneActive'
  BY DEF RegionInv, OneActive, Numbers
<1>5. DecidedKept'
  BY DEF RegionInv, DecidedKept, Numbers
<1>6. (regionDay \in RegionDays)'
  BY DEF RegionInv, RegionDays
<1> QED
  BY <1>1, <1>2, <1>3, <1>4, <1>5, <1>6 DEF RegionInv

(* The steps of the clock and of the profile leave the versions alone.     *)
LEMMA ProfileSteps ==
    ASSUME RegionInv, NextRegionDay \/ CreateProfile \/ RetireProfile
    PROVE  RegionInv'
<1>1. UNCHANGED <<region, listing, decided>>
  BY DEF NextRegionDay, CreateProfile, RetireProfile
<1>2. VersionsKept' /\ ListingKept' /\ DecidedKept'
  BY <1>1 DEF RegionInv, VersionsKept, ListingKept, DecidedKept, AskedOf, Numbers, NotListing
<1>3. (regionDay \in RegionDays)'
  BY RegionBounds DEF RegionInv, RegionDays, NextRegionDay, CreateProfile, RetireProfile
<1>4. ProfileTyped'
  BY DEF RegionInv, ProfileTyped, Numbers, NextRegionDay, CreateProfile, RetireProfile
<1>5. OneActive'
  <2>1. profile'.current = profile.current
    BY DEF RegionInv, ProfileTyped, NextRegionDay, CreateProfile, RetireProfile
  <2>2. profile'.status # "active" => profile'.current = 0
    BY <2>1 DEF RegionInv, ProfileTyped, OneActive, NextRegionDay, CreateProfile, RetireProfile
  <2> QED
    BY <2>1, <2>2, <1>1 DEF RegionInv, OneActive, Numbers
<1> QED
  BY <1>2, <1>3, <1>4, <1>5 DEF RegionInv

LEMMA DraftStep ==
    ASSUME RegionInv, NEW terms \in Terms \cup {NoTerms}, CreateDraft(terms)
    PROVE  RegionInv'
<1> DEFINE row == [status |-> "draft", terms |-> terms]
<1>1. /\ Len(region) \in Nat
      /\ Numbers = 1 .. Len(region)
      /\ Numbers \subseteq 1 .. MaxRegionVersions
      /\ 0 \notin Numbers
      /\ region \in Seq(VersionRow)
  BY NumbersUpTo DEF RegionInv, VersionsKept
<1>2. row \in VersionRow /\ row.status = "draft"
  BY DEF VersionRow
<1>3. /\ region' = Append(region, row)
      /\ Len(region) < MaxRegionVersions
      /\ UNCHANGED <<regionDay, profile, listing, decided>>
  BY DEF CreateDraft, NewVersion
<1> HIDE DEF row
<1>4. /\ region' \in Seq(VersionRow)
      /\ Len(region') = Len(region) + 1
      /\ \A n \in 1 .. Len(region) : region'[n] = region[n]
      /\ region'[Len(region) + 1] = row
  BY <1>1, <1>2, <1>3, AppendProperties
<1>5. DOMAIN region' = Numbers \cup {Len(region) + 1}
  <2>1. DOMAIN region' = 1 .. Len(region')
    BY <1>4, LenProperties
  <2> QED
    BY <2>1, <1>1, <1>4
<1>6. \A n \in Numbers : region'[n] = region[n]
  BY <1>1, <1>4
<1>7. VersionsKept'
  <2>1. Len(region') <= MaxRegionVersions
    BY <1>1, <1>3, <1>4, RegionBounds
  <2>2. \A n \in DOMAIN region' : region'[n].terms = NoTerms => region'[n].status = "draft"
    BY <1>2, <1>4, <1>5, <1>6 DEF RegionInv, VersionsKept
  <2> QED
    BY <1>4, <2>1, <2>2 DEF VersionsKept, Numbers
<1>8. ProfileTyped'
  BY <1>3, <1>5 DEF RegionInv, ProfileTyped, Numbers
<1>9. Onward
  BY <1>5, <1>6 DEF Onward
<1>10. ListingKept' /\ DecidedKept'
  BY <1>9, <1>3, OnwardKeeps DEF RegionInv
<1>11. OneActive'
  <2>1. {n \in DOMAIN region' : region'[n].status = "active"} = {n \in Numbers : region[n].status = "active"}
    BY <1>2, <1>4, <1>5, <1>6
  <2> QED
    BY <2>1, <1>3 DEF RegionInv, OneActive, Numbers
<1> QED
  BY <1>3, <1>7, <1>8, <1>10, <1>11 DEF RegionInv, RegionDays

(* An activation retires the version the pointer named before.             *)
LEMMA ActivateStep ==
    ASSUME RegionInv, NEW n \in Numbers, NEW terms \in Terms \cup {region[n].terms}, ActivateRegion(n, terms)
    PROVE  RegionInv'
<1>1. /\ Len(region) \in Nat
      /\ Numbers = 1 .. Len(region)
      /\ 0 \notin Numbers
      /\ \A m \in Numbers : region[m] \in VersionRow
  BY NumbersUpTo DEF RegionInv
<1>2. /\ profile.status = "active"
      /\ region[n].status = "draft"
      /\ terms # NoTerms
      /\ UNCHANGED <<regionDay, listing, decided>>
      /\ region' = Activated(n, terms)
      /\ profile' = [profile EXCEPT !.current = n]
  BY DEF ActivateRegion, Activatable
<1>3. terms \in Terms
  BY <1>1, <1>2 DEF VersionRow
<1>4. /\ DOMAIN region' = Numbers
      /\ region'[n] = [status |-> "active", terms |-> terms]
      /\ \A m \in Numbers \ {n} :
           region'[m] = IF m = profile.current THEN [region[m] EXCEPT !.status = "retired"] ELSE region[m]
  BY <1>2 DEF Activated
<1>5. \A m \in Numbers : region'[m] \in VersionRow
  BY <1>1, <1>3, <1>4 DEF VersionRow
<1>6. \A m \in Numbers \ {n} :
        /\ region'[m].terms = region[m].terms
        /\ region'[m].status = IF m = profile.current THEN "retired" ELSE region[m].status
  BY <1>1, <1>4 DEF VersionRow
<1>7. region' \in Seq(VersionRow) /\ Len(region') = Len(region)
  <2>1. region' \in [1 .. Len(region) -> VersionRow]
    BY <1>1, <1>2, <1>4, <1>5 DEF Activated
  <2>2. region' \in Seq(VersionRow)
    BY <2>1, <1>1, SeqDef
  <2>3. Len(region') \in Nat /\ DOMAIN region' = 1 .. Len(region')
    BY <2>2, LenProperties
  <2> QED
    BY <2>2, <2>3, <1>1, <1>4
<1>8. \A m \in Numbers : region[m].status = "active" <=> m = profile.current
  BY <1>1 DEF RegionInv, OneActive
<1>9. VersionsKept'
  <2>1. Len(region') <= MaxRegionVersions
    BY <1>7 DEF RegionInv, VersionsKept
  <2>2. \A m \in Numbers : region'[m].terms = NoTerms => region'[m].status = "draft"
    <3>1. region'[n].terms # NoTerms
      BY <1>2, <1>4
    <3>2. ASSUME NEW m \in Numbers \ {n}, region[m].terms = NoTerms
          PROVE  region'[m].status = "draft"
      BY <3>2, <1>6, <1>8 DEF RegionInv, VersionsKept
    <3> QED
      BY <3>1, <3>2, <1>6
  <2> QED
    BY <1>4, <1>7, <2>1, <2>2 DEF VersionsKept, Numbers
<1>10. profile'.current = n /\ profile'.status = "active"
  BY <1>2 DEF RegionInv, ProfileTyped
<1>11. ProfileTyped'
  BY <1>2, <1>4 DEF RegionInv, ProfileTyped, Numbers
<1>12. OneActive'
  <2>1. region'[n].status = "active"
    BY <1>4
  <2>2. \A m \in Numbers \ {n} : region'[m].status # "active"
    BY <1>6, <1>8
  <2>3. {m \in DOMAIN region' : region'[m].status = "active"} = {profile'.current} \ {0}
    BY <2>1, <2>2, <1>1, <1>4, <1>10
  <2> QED
    BY <2>3, <1>10 DEF OneActive, Numbers
<1>13. Onward
  <2>1. \A m \in Numbers : region[m].status # "draft" => region'[m].status # "draft"
    BY <1>2, <1>6
  <2> QED
    BY <2>1, <1>4 DEF Onward
<1>14. ListingKept' /\ DecidedKept'
  BY <1>13, <1>2, OnwardKeeps DEF RegionInv
<1> QED
  BY <1>2, <1>9, <1>11, <1>12, <1>14 DEF RegionInv, RegionDays

LEMMA RetireStep ==
    ASSUME RegionInv, NEW n \in Numbers, RetireRegion(n)
    PROVE  RegionInv'
<1>1. /\ Len(region) \in Nat
      /\ Numbers = 1 .. Len(region)
      /\ 0 \notin Numbers
      /\ region \in Seq(VersionRow)
      /\ \A m \in Numbers : region[m] \in VersionRow
  BY NumbersUpTo DEF RegionInv, VersionsKept
<1>2. /\ region[n].status = "active"
      /\ region' = [region EXCEPT ![n].status = "retired"]
      /\ profile' = IF profile.current = n THEN [profile EXCEPT !.current = 0] ELSE profile
      /\ UNCHANGED <<regionDay, listing, decided>>
  BY DEF RetireRegion
<1> DEFINE row == [region[n] EXCEPT !.status = "retired"]
<1>3. row \in VersionRow /\ row.status = "retired" /\ row.terms = region[n].terms
  BY <1>1 DEF VersionRow
<1>4. region' = [region EXCEPT ![n] = row]
  BY <1>2
<1> HIDE DEF row
<1>5. /\ region' \in Seq(VersionRow)
      /\ Len(region') = Len(region)
      /\ \A m \in 1 .. Len(region) : region'[m] = IF m = n THEN row ELSE region[m]
  BY <1>1, <1>3, <1>4, ExceptSeq
<1>6. DOMAIN region' = Numbers
  BY <1>4 DEF Numbers
<1>7. profile.current = n
  BY <1>2 DEF RegionInv, OneActive
<1>8. VersionsKept'
  <2>1. \A m \in Numbers : region'[m].terms = NoTerms => region'[m].status = "draft"
    BY <1>1, <1>2, <1>3, <1>5 DEF RegionInv, VersionsKept
  <2> QED
    BY <2>1, <1>5, <1>6 DEF RegionInv, VersionsKept, Numbers
<1>9. ProfileTyped' /\ profile'.current = 0
  BY <1>2, <1>7, <1>6 DEF RegionInv, ProfileTyped, Numbers
<1>10. OneActive'
  <2>1. \A m \in Numbers : region[m].status = "active" <=> m = n
    BY <1>1, <1>7 DEF RegionInv, OneActive
  <2>2. \A m \in Numbers : region'[m].status # "active"
    BY <2>1, <1>1, <1>3, <1>5
  <2> QED
    BY <2>2, <1>6, <1>9 DEF OneActive, Numbers
<1>11. Onward
  BY <1>1, <1>3, <1>5, <1>6 DEF Onward
<1>12. ListingKept' /\ DecidedKept'
  BY <1>11, <1>2, OnwardKeeps DEF RegionInv
<1> QED
  BY <1>2, <1>8, <1>9, <1>10, <1>12 DEF RegionInv, RegionDays

(* A renderer writes its own listing, and a decision only where it has     *)
(* found the page valid.                                                   *)
LEMMA ListingSteps ==
    ASSUME RegionInv, NEW s \in Sites,
           \/ RecallDecision(s)
           \/ DecideListing(s)
           \/ \E n \in Numbers, asked \in AskedTimes \cup {Omitted} : AskListing(s, n, asked)
    PROVE  RegionInv'
<1>1. UNCHANGED <<regionDay, profile, region>>
  BY DEF RecallDecision, DecideListing, AskListing
<1>2. /\ (regionDay \in RegionDays)'
      /\ VersionsKept'
      /\ ProfileTyped'
      /\ OneActive'
  BY <1>1 DEF RegionInv, RegionDays, VersionsKept, ProfileTyped, OneActive, Numbers
<1>3. listing[s] = NotListing \/ AskedOf(listing[s])
  BY DEF RegionInv, ListingKept
<1>4. /\ DOMAIN listing = Sites
      /\ \A r \in Sites : listing[r] = NotListing \/ AskedOf(listing[r])
  BY DEF RegionInv, ListingKept
<1>5. ASSUME NEW q, listing' = [listing EXCEPT ![s] = q], q = NotListing \/ AskedOf(q)
      PROVE  ListingKept'
  <2>1. DOMAIN listing' = Sites
    BY <1>4, <1>5
  <2>2. ASSUME NEW r \in Sites
        PROVE  (listing[r] = NotListing)' \/ AskedOf(listing[r])'
    <3>1. listing'[r] = NotListing \/ AskedOf(listing'[r])
      BY <1>4, <1>5
    <3> QED
      BY <3>1, <1>1 DEF AskedOf, Numbers, NotListing
  <2> QED
    BY <2>1, <2>2 DEF ListingKept
<1>6. CASE \E n \in Numbers, asked \in AskedTimes \cup {Omitted} : AskListing(s, n, asked)
  <2>1. PICK n \in Numbers, asked \in AskedTimes \cup {Omitted} : AskListing(s, n, asked)
    BY <1>6
  <2>2. PICK q : /\ listing' = [listing EXCEPT ![s] = q]
                 /\ q.at = "read" /\ q.page = n
                 /\ q.valid => region[n].status = "active"
    <3> DEFINE day == IF asked = Omitted THEN regionDay ELSE asked
               valid == region[n].status = "active" /\ Within(region[n].terms, day)
               q == [at |-> "read", page |-> n, asked |-> asked, valid |-> valid,
                     holds |-> valid /\ profile.status = "active"]
    <3>1. listing' = [listing EXCEPT ![s] = q]
      BY <2>1 DEF AskListing
    <3>2. q.at = "read" /\ q.page = n /\ (q.valid => region[n].status = "active")
      OBVIOUS
    <3> HIDE DEF q
    <3> QED
      BY <3>1, <3>2
  <2>3. AskedOf(q)
    BY <2>2 DEF AskedOf
  <2>4. DecidedKept'
    BY <2>1, <1>1 DEF AskListing, RegionInv, DecidedKept, Numbers
  <2> QED
    BY <2>2, <2>3, <2>4, <1>2, <1>5 DEF RegionInv
<1>7. CASE RecallDecision(s)
  <2>1. DecidedKept'
    BY <1>7, <1>1 DEF RecallDecision, RegionInv, DecidedKept, Numbers
  <2>2. CASE listing' = [listing EXCEPT ![s].at = "fresh"]
    <3>1. AskedOf(listing[s])
      BY <1>3, <1>7 DEF RecallDecision, NotListing
    <3>2. AskedOf([listing[s] EXCEPT !.at = "fresh"])
      BY <3>1 DEF AskedOf
    <3> QED
      BY <2>1, <2>2, <3>2, <1>2, <1>5 DEF RegionInv
  <2>3. CASE listing' = [listing EXCEPT ![s] = NotListing]
    BY <2>1, <2>3, <1>2, <1>5 DEF RegionInv
  <2> QED
    BY <1>7, <2>2, <2>3 DEF RecallDecision, Answer
<1>8. CASE DecideListing(s)
  <2>1. AskedOf(listing[s])
    BY <1>3, <1>8 DEF DecideListing, NotListing
  <2>2. ListingKept'
    BY <1>5, <1>8 DEF DecideListing, Answer
  <2>3. DecidedKept'
    <3>1. DOMAIN decided' = 1 .. MaxRegionVersions
      BY <1>8 DEF DecideListing, RegionInv, DecidedKept
    <3>2. ASSUME NEW n \in 1 .. MaxRegionVersions, decided'[n].eligible
          PROVE  n \in Numbers /\ region[n].status # "draft"
      <4>1. CASE decided'[n] = decided[n]
        BY <4>1, <3>2 DEF RegionInv, DecidedKept
      <4>2. CASE decided'[n] # decided[n]
        <5>1. n = listing[s].page /\ listing[s].valid
          BY <4>2, <3>2, <1>8 DEF DecideListing, RegionInv, DecidedKept
        <5> QED
          BY <5>1, <2>1 DEF AskedOf
      <4> QED
        BY <4>1, <4>2
    <3> QED
      BY <3>1, <3>2, <1>1 DEF DecidedKept, Numbers
  <2> QED
    BY <2>2, <2>3, <1>2 DEF RegionInv
<1> QED
  BY <1>6, <1>7, <1>8

LEMMA RegionStep ==
    ASSUME RegionInv, RegionNext
    PROVE  RegionInv'
<1>1. CASE NextRegionDay \/ CreateProfile \/ RetireProfile
  BY <1>1, ProfileSteps
<1>2. ASSUME NEW terms \in Terms \cup {NoTerms}, CreateDraft(terms)
      PROVE  RegionInv'
  BY <1>2, DraftStep
<1>3. ASSUME NEW n \in Numbers, RetireRegion(n)
      PROVE  RegionInv'
  BY <1>3, RetireStep
<1>4. ASSUME NEW n \in Numbers, NEW terms \in Terms, ActivateRegion(n, terms)
      PROVE  RegionInv'
  <2>1. terms \in Terms \cup {region[n].terms}
    OBVIOUS
  <2> QED
    BY <1>4, <2>1, ActivateStep
<1>7. ASSUME NEW n \in Numbers, PublishRegion(n)
      PROVE  RegionInv'
  <2>1. region[n].terms \in Terms \cup {region[n].terms}
    OBVIOUS
  <2>2. ActivateRegion(n, region[n].terms)
    BY <1>7 DEF PublishRegion
  <2> QED
    BY <2>1, <2>2, ActivateStep
<1>5. ASSUME NEW n \in Numbers, NEW s \in Sites, NEW asked \in AskedTimes \cup {Omitted}, AskListing(s, n, asked)
      PROVE  RegionInv'
  BY <1>5, ListingSteps
<1>6. ASSUME NEW s \in Sites, RecallDecision(s) \/ DecideListing(s)
      PROVE  RegionInv'
  BY <1>6, ListingSteps
<1> QED
  BY <1>1, <1>2, <1>3, <1>4, <1>5, <1>6, <1>7 DEF RegionNext

LEMMA RegionInvGives == RegionInv => RegionTypeOK /\ RegionPointer
<1> SUFFICES ASSUME RegionInv
             PROVE  RegionTypeOK /\ RegionPointer
  OBVIOUS
<1>1. \A n \in Numbers : region[n] \in VersionRow
  BY NumbersUpTo DEF RegionInv
<1>2. \A n \in Numbers : /\ region[n].status \in {"draft", "active", "retired"}
                         /\ region[n].terms \in Terms \cup {NoTerms}
                         /\ region[n].terms = NoTerms => region[n].status = "draft"
  BY <1>1 DEF VersionRow, RegionInv, VersionsKept
<1>3. \A s \in Sites : listing[s].at \in {"idle", "read", "fresh"}
  BY DEF RegionInv, ListingKept, AskedOf, NotListing
<1>4. RegionTypeOK
  BY <1>2, <1>3 DEF RegionTypeOK, RegionInv, ProfileTyped
<1>5. RegionPointer
  BY DEF RegionPointer, RegionInv, OneActive, DecidedKept
<1> QED
  BY <1>4, <1>5

-----------------------------------------------------------------------------
(* Runs. A hash names the request and the version its fixture had, and     *)
(* every run saved under a hash is the aggregate of that request's answers *)
(* - so also one saved earlier under another key.                          *)
VersionIn(status) ==
    CASE status = "none" -> 0 [] status = "created" -> 1 [] status = "active" -> 2 [] OTHER -> 3

FixturesTyped ==
    /\ fixture \in [Fixtures -> [status : FixtureStates, version : 0 .. 3]]
    /\ \A f \in Fixtures : fixture[f].version = VersionIn(fixture[f].status)

RunningKept ==
    running # NoRun =>
        /\ running.key \in GeoKeys
        /\ running.request \in Requests
        /\ running.hash = <<running.request, running.version>>

RunOfKept == \A h \in DOMAIN runOf : h[1] \in Requests /\ runOf[h] = Aggregate(h[1].fixture, h[1].answers)

AnswerOf(a) ==
    /\ a.request \in Requests
    /\ a.hash = <<a.request, a.version>>
    /\ a.value = Aggregate(a.request.fixture, a.request.answers)

RanKept ==
    /\ DOMAIN ran = GeoKeys
    /\ \A k \in GeoKeys : ran[k] = NoAnswer \/ AnswerOf(ran[k])

RunInv ==
    /\ FixturesTyped
    /\ RunningKept
    /\ RunOfKept
    /\ RanKept
    /\ DOMAIN sampled = GeoKeys

LEMMA RunStart == GeoRunInit => RunInv
<1> SUFFICES ASSUME GeoRunInit
             PROVE  RunInv
  OBVIOUS
<1>1. FixturesTyped
  BY DEF GeoRunInit, FixturesTyped, FixtureStates, VersionIn
<1>2. RunningKept /\ RanKept /\ DOMAIN sampled = GeoKeys
  BY DEF GeoRunInit, RunningKept, RanKept
<1>3. DOMAIN runOf = {}
  BY EmptySeq DEF GeoRunInit
<1>4. RunOfKept
  BY <1>3 DEF RunOfKept
<1> QED
  BY <1>1, <1>2, <1>4 DEF RunInv

LEMMA RunFrame ==
    ASSUME RunInv, UNCHANGED geoRunVars
    PROVE  RunInv'
BY DEF RunInv, geoRunVars, FixturesTyped, RunningKept, RunOfKept, RanKept, AnswerOf, NoRun, NoAnswer, VersionIn

(* A step of a fixture writes neither a run nor the answer of one.         *)
LEMMA FixtureSteps ==
    ASSUME RunInv, NEW f \in Fixtures, CreateFixture(f) \/ ActivateFixture(f) \/ RetireFixture(f)
    PROVE  RunInv'
<1>1. UNCHANGED <<sampled, running, runOf, ran>>
  BY DEF CreateFixture, ActivateFixture, RetireFixture, FixtureStep
<1>2. RunningKept' /\ RunOfKept' /\ RanKept' /\ (DOMAIN sampled = GeoKeys)'
  BY <1>1 DEF RunInv, RunningKept, RunOfKept, RanKept, AnswerOf, NoRun, NoAnswer
<1>3. FixturesTyped'
  <2>1. CASE CreateFixture(f)
    BY <2>1 DEF CreateFixture, NewFixture, RunInv, FixturesTyped, FixtureStates, VersionIn
  <2>2. CASE ActivateFixture(f)
    BY <2>2 DEF ActivateFixture, FixtureStep, RunInv, FixturesTyped, FixtureStates, VersionIn
  <2>3. CASE RetireFixture(f)
    BY <2>3 DEF RetireFixture, FixtureStep, RunInv, FixturesTyped, FixtureStates, VersionIn
  <2> QED
    BY <2>1, <2>2, <2>3
<1> QED
  BY <1>2, <1>3 DEF RunInv

LEMMA SampleStep ==
    ASSUME RunInv, NEW k \in GeoKeys, NEW f \in Fixtures, NEW a \in Captured, NEW created \in BOOLEAN,
           Sample(k, f, a, created)
    PROVE  RunInv'
<1>1. UNCHANGED <<fixture, running, runOf, ran>> /\ DOMAIN sampled' = DOMAIN sampled
  BY DEF Sample
<1> QED
  BY <1>1 DEF RunInv, FixturesTyped, RunningKept, RunOfKept, RanKept, AnswerOf, NoRun, NoAnswer, VersionIn

LEMMA BeginStep ==
    ASSUME RunInv, NEW k \in GeoKeys, NEW q \in Requests, BeginRun(k, q)
    PROVE  RunInv'
<1>1. UNCHANGED <<fixture, sampled, runOf, ran>>
  BY DEF BeginRun
<1>2. /\ running'.key = k
      /\ running'.request = q
      /\ running'.hash = <<q, fixture[q.fixture].version>>
      /\ running'.version = fixture[q.fixture].version
  BY DEF BeginRun, Digest, HashVersion
<1>3. RunningKept'
  BY <1>2 DEF RunningKept
<1> QED
  BY <1>1, <1>3 DEF RunInv, FixturesTyped, RunOfKept, RanKept, AnswerOf, NoAnswer, VersionIn

LEMMA SaveStep ==
    ASSUME RunInv, SaveRun
    PROVE  RunInv'
<1> DEFINE h == running.hash
           run == IF h \in DOMAIN runOf THEN runOf[h] ELSE Aggregate(running.request.fixture, running.request.answers)
           row == [hash |-> h, value |-> run, request |-> running.request, version |-> running.version]
<1>1. /\ running # NoRun
      /\ runOf' = [g \in DOMAIN runOf \cup {h} |-> IF g = h THEN run ELSE runOf[g]]
      /\ ran' = [ran EXCEPT ![running.key] = row]
      /\ running' = NoRun
      /\ UNCHANGED <<fixture, sampled>>
  BY DEF SaveRun, NewRun
<1>2. /\ running.key \in GeoKeys
      /\ running.request \in Requests
      /\ h = <<running.request, running.version>>
  BY <1>1 DEF RunInv, RunningKept
<1>3. h[1] = running.request
  BY <1>2
<1>4. run = Aggregate(running.request.fixture, running.request.answers)
  <2>1. h \in DOMAIN runOf => runOf[h] = Aggregate(h[1].fixture, h[1].answers)
    BY DEF RunInv, RunOfKept
  <2> QED
    BY <2>1, <1>3
<1>5. row.request = running.request /\ row.hash = h /\ row.value = run /\ row.version = running.version
  OBVIOUS
<1>6. AnswerOf(row)
  BY <1>2, <1>4, <1>5 DEF AnswerOf
<1> HIDE DEF h, run, row
<1>7. RunOfKept'
  BY <1>1, <1>2, <1>3, <1>4 DEF RunInv, RunOfKept
<1>8. RanKept'
  <2>1. DOMAIN ran' = GeoKeys
    BY <1>1 DEF RunInv, RanKept
  <2>2. ASSUME NEW k \in GeoKeys
        PROVE  (ran[k] = NoAnswer)' \/ AnswerOf(ran[k])'
    <3>1. ran'[k] = NoAnswer \/ AnswerOf(ran'[k])
      BY <1>1, <1>6 DEF RunInv, RanKept
    <3> QED
      BY <3>1 DEF AnswerOf, NoAnswer
  <2> QED
    BY <2>1, <2>2 DEF RanKept
<1>9. FixturesTyped' /\ RunningKept' /\ (DOMAIN sampled = GeoKeys)'
  BY <1>1 DEF RunInv, FixturesTyped, RunningKept, NoRun, VersionIn
<1> QED
  BY <1>7, <1>8, <1>9 DEF RunInv

LEMMA RunStep ==
    ASSUME RunInv, GeoRunNext
    PROVE  RunInv'
<1>1. ASSUME NEW f \in Fixtures, CreateFixture(f) \/ ActivateFixture(f) \/ RetireFixture(f)
      PROVE  RunInv'
  BY <1>1, FixtureSteps
<1>2. ASSUME NEW f \in Fixtures, NEW k \in GeoKeys, NEW a \in Captured, NEW created \in BOOLEAN,
             Sample(k, f, a, created)
      PROVE  RunInv'
  BY <1>2, SampleStep
<1>3. ASSUME \E k \in GeoKeys, q \in Requests, named \in SUBSET Fixtures : Unwrapped(q, named) /\ BeginRun(k, q)
      PROVE  RunInv'
  <2>1. PICK k \in GeoKeys, q \in Requests : BeginRun(k, q)
    BY <1>3
  <2> QED
    BY <2>1, BeginStep
<1>4. CASE SaveRun
  BY <1>4, SaveStep
<1> QED
  BY <1>1, <1>2, <1>3, <1>4 DEF GeoRunNext

(* Requests for a fixture with the same answers, whatever their order and  *)
(* number, have one aggregate.                                             *)
LEMMA SameAnswersSameRun ==
    ASSUME NEW f, NEW p, NEW q, {p[n] : n \in DOMAIN p} = {q[n] : n \in DOMAIN q}
    PROVE  Aggregate(f, p) = Aggregate(f, q)
BY DEF Aggregate

LEMMA RunInvGives == RunInv => GeoRunTypeOK /\ RunsAnswered
<1> SUFFICES ASSUME RunInv
             PROVE  GeoRunTypeOK /\ RunsAnswered
  OBVIOUS
<1>1. GeoRunTypeOK
  BY DEF GeoRunTypeOK, RunInv, FixturesTyped, RunningKept, RunOfKept, RanKept
<1>2. ASSUME NEW k \in GeoKeys, ran[k] # NoAnswer
      PROVE  Digest(k, ran[k].request) = ran[k].hash
  BY <1>2 DEF RunInv, RanKept, AnswerOf, Digest, HashVersion
<1>3. ASSUME NEW k \in GeoKeys, ran[k] # NoAnswer, NEW j \in GeoKeys, ran[j] # NoAnswer,
             ran[k].request.fixture = ran[j].request.fixture,
             {ran[k].request.answers[n] : n \in DOMAIN ran[k].request.answers} =
             {ran[j].request.answers[n] : n \in DOMAIN ran[j].request.answers}
      PROVE  ran[k].value = ran[j].value
  <2>1. Aggregate(ran[k].request.fixture, ran[k].request.answers) = Aggregate(ran[j].request.fixture, ran[j].request.answers)
    BY <1>3, SameAnswersSameRun
  <2> QED
    BY <2>1, <1>3 DEF RunInv, RanKept, AnswerOf
<1> QED
  BY <1>1, <1>2, <1>3 DEF RunsAnswered

-----------------------------------------------------------------------------
(* Assessment. Each rule collects nothing exactly on records that are as   *)
(* they must be, and files what it collects under a dimension that bars    *)
(* the page from citation; so the page may be cited just if no rule finds  *)
(* anything. A file is taken by its components, one fact each.             *)
Barring == {"citation", "claim", "fresh", "entity", "crawl"}

FileParts(f) ==
    /\ \A r \in Handed : f.status[r] \in Standings
    /\ \A r \in Dated : f.span[r] \in Spans
    /\ \A c \in AssessedClaims : f.fresh[c] \in Standings /\ f.names[c] \in SUBSET AssessedEvidence
    /\ \A e \in AssessedEvidence : f.about[e] \in SUBSET AssessedClaims
    /\ \A e \in AssessedEvidence : f.taken[e] \in AssessedSnapshots \cup {Absent}
    /\ f.covers \in SUBSET AssessedSnapshots
    /\ f.unfit \in SUBSET Fitted

LEMMA FileHasParts ==
    ASSUME NEW f \in FileType
    PROVE  FileParts(f)
BY DEF FileType, FileParts

(* Who is among the records handed over, and which have a time and a scope.*)
LEMMA HandedRecords ==
    /\ \A r \in AssessedClaims \cup AssessedEvidence \cup AssessedSnapshots :
          r \in Handed /\ r \in Dated /\ r \in Fitted
    /\ \A r \in Singles : r \in Handed
    /\ \A r \in {"page", "canonical", "rights"} : r \in Handed /\ r \in Dated /\ r \in Fitted
    /\ "source" \in Handed /\ "source" \in Dated /\ "entity" \in Handed
BY GeoAssessAssumption DEF Handed, Singles, Dated, Fitted

LEMMA FindingOf ==
    ASSUME NEW d \in Barring
    PROVE  /\ Error(d) # {} /\ Warning(d) # {}
           /\ \A x \in Error(d) \cup Warning(d) : x[1] \in Barring
<1>1. <<d, "error">>[1] = d /\ <<d, "warning">>[1] = d
  OBVIOUS
<1> QED
  BY <1>1 DEF Error, Warning

LEMMA StandingFinds ==
    ASSUME NEW d \in Barring, NEW s \in Standings
    PROVE  /\ Standing(d, s) = {} <=> s = "good"
           /\ \A x \in Standing(d, s) : x[1] \in Barring
<1>1. CASE s = "bad"
  BY <1>1, FindingOf DEF Standing
<1>2. CASE s = "good"
  BY <1>2 DEF Standing
<1>3. CASE s # "bad" /\ s # "good"
  BY <1>3, FindingOf DEF Standing
<1> QED
  BY <1>1, <1>2, <1>3

LEMMA SpanFinds ==
    ASSUME NEW d \in Barring, NEW s \in Spans
    PROVE  /\ Span(d, s) = {} <=> s = "within"
           /\ \A x \in Span(d, s) : x[1] \in Barring
<1>1. CASE s \in {"early", "over"}
  BY <1>1, FindingOf DEF Span
<1>2. CASE s = "due"
  BY <1>2, FindingOf DEF Span
<1>3. CASE s = "within"
  BY <1>3 DEF Span
<1> QED
  BY <1>1, <1>2, <1>3 DEF Spans

(* A rule that collects over several fields finds nothing if each of them  *)
(* gives it nothing to find.                                               *)
Bars(findings) == \A x \in findings : x[1] \in Barring

LEMMA EntityRule ==
    ASSUME NEW f, FileParts(f)
    PROVE  /\ EntityFindings(f) = {} <=> f.status["entity"] = "good" /\ f.declared
           /\ Bars(EntityFindings(f))
<1>1. f.status["entity"] \in Standings
  BY HandedRecords DEF FileParts
<1> DEFINE stood == Standing("entity", f.status["entity"])
           declaring == If(~f.declared, Warning("entity"))
<1>2. (stood = {} <=> f.status["entity"] = "good") /\ Bars(stood)
  BY <1>1, StandingFinds DEF Barring, Bars
<1>3. (declaring = {} <=> f.declared) /\ Bars(declaring)
  BY FindingOf DEF If, Barring, Bars
<1>4. EntityFindings(f) = stood \cup declaring
  BY DEF EntityFindings
<1> HIDE DEF stood, declaring
<1> QED
  BY <1>2, <1>3, <1>4 DEF Bars

LEMMA ClaimRule ==
    ASSUME NEW f, FileParts(f), NEW c \in AssessedClaims
    PROVE  /\ ClaimFindings(f, c) = {} <=> /\ f.status[c] = "good" /\ f.fresh[c] = "good"
                                           /\ f.span[c] = "within" /\ c \notin f.unfit
           /\ Bars(ClaimFindings(f, c))
<1>1. f.status[c] \in Standings /\ f.fresh[c] \in Standings /\ f.span[c] \in Spans
  BY HandedRecords DEF FileParts
<1> DEFINE stood == Standing("claim", f.status[c])
           freshness == Standing("fresh", f.fresh[c])
           time == Span("fresh", f.span[c])
           fitting == If(c \in f.unfit, Error("claim"))
<1>2. (stood = {} <=> f.status[c] = "good") /\ Bars(stood)
  BY <1>1, StandingFinds DEF Barring, Bars
<1>3. (freshness = {} <=> f.fresh[c] = "good") /\ Bars(freshness)
  BY <1>1, StandingFinds DEF Barring, Bars
<1>4. (time = {} <=> f.span[c] = "within") /\ Bars(time)
  BY <1>1, SpanFinds DEF Barring, Bars
<1>5. (fitting = {} <=> c \notin f.unfit) /\ Bars(fitting)
  BY FindingOf DEF If, Barring, Bars
<1>6. ClaimFindings(f, c) = stood \cup freshness \cup time \cup fitting
  BY DEF ClaimFindings
<1> HIDE DEF stood, freshness, time, fitting
<1> QED
  BY <1>2, <1>3, <1>4, <1>5, <1>6 DEF Bars

LEMMA SnapshotRule ==
    ASSUME NEW f, FileParts(f), NEW s \in AssessedSnapshots
    PROVE  /\ SnapshotFindings(f, s) = {} <=>
                f.status[s] = "good" /\ f.span[s] = "within" /\ s \notin f.unfit
           /\ Bars(SnapshotFindings(f, s))
<1>1. f.status[s] \in Standings /\ f.span[s] \in Spans
  BY HandedRecords DEF FileParts
<1> DEFINE stood == Standing("fresh", f.status[s])
           time == Span("fresh", f.span[s])
           fitting == If(s \in f.unfit, Error("citation") \cup Error("fresh"))
<1>2. (stood = {} <=> f.status[s] = "good") /\ Bars(stood)
  BY <1>1, StandingFinds DEF Barring, Bars
<1>3. (time = {} <=> f.span[s] = "within") /\ Bars(time)
  BY <1>1, SpanFinds DEF Barring, Bars
<1>4. (fitting = {} <=> s \notin f.unfit) /\ Bars(fitting)
  <2>1. /\ Error("citation") # {} /\ Bars(Error("citation"))
        /\ Bars(Error("fresh"))
    BY FindingOf DEF Barring, Bars
  <2> QED
    BY <2>1 DEF If, Bars
<1>5. SnapshotFindings(f, s) = stood \cup time \cup fitting
  BY DEF SnapshotFindings
<1> HIDE DEF stood, time, fitting
<1> QED
  BY <1>2, <1>3, <1>4, <1>5 DEF Bars

LEMMA SourceRule ==
    ASSUME NEW f, FileParts(f)
    PROVE  /\ SourceFindings(f) = {} <=>
                f.status["source"] = "good" /\ f.span["source"] = "within" /\ f.current # Absent
           /\ Bars(SourceFindings(f))
<1>1. f.status["source"] \in Standings /\ f.span["source"] \in Spans
  BY HandedRecords DEF FileParts
<1> DEFINE stood == Standing("fresh", f.status["source"])
           time == Span("fresh", f.span["source"])
           capture == If(f.current = Absent, Error("citation"))
<1>2. (stood = {} <=> f.status["source"] = "good") /\ Bars(stood)
  BY <1>1, StandingFinds DEF Barring, Bars
<1>3. (time = {} <=> f.span["source"] = "within") /\ Bars(time)
  BY <1>1, SpanFinds DEF Barring, Bars
<1>4. (capture = {} <=> f.current # Absent) /\ Bars(capture)
  BY FindingOf DEF If, Barring, Bars
<1>5. SourceFindings(f) = stood \cup time \cup capture
  BY DEF SourceFindings
<1> HIDE DEF stood, time, capture
<1> QED
  BY <1>2, <1>3, <1>4, <1>5 DEF Bars

LEMMA RightsRule ==
    ASSUME NEW f, FileParts(f)
    PROVE  /\ RightsFindings(f) = {} <=> /\ f.status["rights"] = "good" /\ f.span["rights"] = "within"
                                         /\ "rights" \notin f.unfit /\ f.covers # {}
           /\ Bars(RightsFindings(f))
<1>1. f.status["rights"] \in Standings /\ f.span["rights"] \in Spans
  BY HandedRecords DEF FileParts
<1> DEFINE stood == Standing("fresh", f.status["rights"])
           time == Span("fresh", f.span["rights"])
           cover == If("rights" \in f.unfit \/ f.covers = {}, Error("citation"))
<1>2. (stood = {} <=> f.status["rights"] = "good") /\ Bars(stood)
  BY <1>1, StandingFinds DEF Barring, Bars
<1>3. (time = {} <=> f.span["rights"] = "within") /\ Bars(time)
  BY <1>1, SpanFinds DEF Barring, Bars
<1>4. (cover = {} <=> "rights" \notin f.unfit /\ f.covers # {}) /\ Bars(cover)
  BY FindingOf DEF If, Barring, Bars
<1>5. RightsFindings(f) = stood \cup time \cup cover
  BY DEF RightsFindings
<1> HIDE DEF stood, time, cover
<1> QED
  BY <1>2, <1>3, <1>4, <1>5 DEF Bars

LEMMA LinkRule ==
    ASSUME NEW f
    PROVE  /\ LinkFindings(f) = {} <=>
                /\ \A c \in AssessedClaims, e \in AssessedEvidence : (e \in f.names[c]) <=> (c \in f.about[e])
                /\ \A c \in AssessedClaims : \E e \in AssessedEvidence : Linked(f, c, e) /\ f.status[e] = "good"
                /\ \A e \in AssessedEvidence : \E c \in AssessedClaims : Linked(f, c, e)
           /\ Bars(LinkFindings(f))
<1>1. Error("claim") # {} /\ Bars(Error("claim"))
  BY FindingOf DEF Barring, Bars
<1> DEFINE agreed == \A c \in AssessedClaims, e \in AssessedEvidence : (e \in f.names[c]) <=> (c \in f.about[e])
           backed == \A c \in AssessedClaims :
                        \E e \in AssessedEvidence : Linked(f, c, e) /\ f.status[e] = "good"
           used == \A e \in AssessedEvidence : \E c \in AssessedClaims : Linked(f, c, e)
           first == If(\E c \in AssessedClaims, e \in AssessedEvidence :
                          (e \in f.names[c]) # (c \in f.about[e]), Error("claim"))
           second == If(\E c \in AssessedClaims :
                           ~\E e \in AssessedEvidence : Linked(f, c, e) /\ f.status[e] = "good", Error("claim"))
           third == If(\E e \in AssessedEvidence : ~\E c \in AssessedClaims : Linked(f, c, e), Error("claim"))
<1>2. (first = {} <=> agreed) /\ Bars(first)
  BY <1>1 DEF If, Bars
<1>3. (second = {} <=> backed) /\ Bars(second)
  BY <1>1 DEF If, Bars
<1>4. (third = {} <=> used) /\ Bars(third)
  BY <1>1 DEF If, Bars
<1>5. LinkFindings(f) = first \cup second \cup third
  BY DEF LinkFindings
<1>6. (first = {} /\ second = {} /\ third = {}) <=> (agreed /\ backed /\ used)
  BY <1>2, <1>3, <1>4
<1>7. LinkFindings(f) = {} <=> first = {} /\ second = {} /\ third = {}
  <2> HIDE DEF first, second, third
  <2> QED
    BY <1>5
<1>8. Bars(LinkFindings(f))
  <2> HIDE DEF first, second, third
  <2> QED
    BY <1>2, <1>3, <1>4, <1>5 DEF Bars
<1> QED
  BY <1>6, <1>7, <1>8

LEMMA EvidenceRule ==
    ASSUME NEW f, FileParts(f), NEW e \in AssessedEvidence
    PROVE  /\ EvidenceFindings(f, e) = {} <=>
                /\ f.status[e] = "good" /\ f.span[e] = "within" /\ e \notin f.unfit
                /\ f.taken[e] \in f.covers
                /\ f.status[f.taken[e]] = "good" /\ f.span[f.taken[e]] = "within"
                /\ f.status["rights"] = "good" /\ f.span["rights"] = "within"
           /\ Bars(EvidenceFindings(f, e))
<1>1. /\ f.status[e] \in Standings /\ f.span[e] \in Spans
      /\ f.span["rights"] \in Spans
      /\ f.taken[e] \in AssessedSnapshots \cup {Absent}
      /\ f.taken[e] \in AssessedSnapshots => f.status[f.taken[e]] \in Standings /\ f.span[f.taken[e]] \in Spans
      /\ Absent \notin f.covers
  BY HandedRecords, GeoAssessAssumption DEF FileParts
<1> DEFINE s == f.taken[e]
           stood == Standing("fresh", f.status[e])
           time == Span("fresh", f.span[e])
           fitting == If(e \in f.unfit, Error("citation"))
           quoted == IF s = Absent THEN Error("citation")
                     ELSE Standing("citation", f.status[s]) \cup Span("citation", f.span[s])
           permitted == If(f.status["rights"] # "good", Error("citation"))
           covered == If(s # Absent /\ s \notin f.covers, Error("citation"))
           lasting == Span("citation", f.span["rights"])
<1>2. (stood = {} <=> f.status[e] = "good") /\ Bars(stood)
  BY <1>1, StandingFinds DEF Barring, Bars
<1>3. (time = {} <=> f.span[e] = "within") /\ Bars(time)
  BY <1>1, SpanFinds DEF Barring, Bars
<1>4. (fitting = {} <=> e \notin f.unfit) /\ Bars(fitting)
  BY FindingOf DEF If, Barring, Bars
<1>5. (quoted = {} <=> s # Absent /\ f.status[s] = "good" /\ f.span[s] = "within") /\ Bars(quoted)
  <2>1. CASE s = Absent
    BY <2>1, FindingOf DEF Barring, Bars
  <2>2. CASE s # Absent
    <3>1. f.status[s] \in Standings /\ f.span[s] \in Spans
      BY <2>2, <1>1
    <3>2. /\ Standing("citation", f.status[s]) = {} <=> f.status[s] = "good"
          /\ Bars(Standing("citation", f.status[s]))
      BY <3>1, StandingFinds DEF Barring, Bars
    <3>3. /\ Span("citation", f.span[s]) = {} <=> f.span[s] = "within"
          /\ Bars(Span("citation", f.span[s]))
      BY <3>1, SpanFinds DEF Barring, Bars
    <3> QED
      BY <2>2, <3>2, <3>3 DEF Bars
  <2> QED
    BY <2>1, <2>2
<1>6. (permitted = {} <=> f.status["rights"] = "good") /\ Bars(permitted)
  BY FindingOf DEF If, Barring, Bars
<1>7. (covered = {} <=> s = Absent \/ s \in f.covers) /\ Bars(covered)
  BY FindingOf DEF If, Barring, Bars
<1>8. (lasting = {} <=> f.span["rights"] = "within") /\ Bars(lasting)
  BY <1>1, SpanFinds DEF Barring, Bars
<1>9. EvidenceFindings(f, e) =
        stood \cup time \cup fitting \cup quoted \cup permitted \cup covered \cup lasting
  BY DEF EvidenceFindings
<1>10. s \in f.covers <=> s # Absent /\ (s = Absent \/ s \in f.covers)
  BY <1>1
<1> HIDE DEF s, stood, time, fitting, quoted, permitted, covered, lasting
<1>11. EvidenceFindings(f, e) = {} <=>
         /\ stood = {} /\ time = {} /\ fitting = {} /\ quoted = {}
         /\ permitted = {} /\ covered = {} /\ lasting = {}
  BY <1>9
<1>12. Bars(EvidenceFindings(f, e))
  BY <1>2, <1>3, <1>4, <1>5, <1>6, <1>7, <1>8, <1>9 DEF Bars
<1> QED
  BY <1>2, <1>3, <1>4, <1>5, <1>6, <1>7, <1>8, <1>10, <1>11, <1>12 DEF s

LEMMA CrawlRule ==
    ASSUME NEW f, FileParts(f)
    PROVE  /\ CrawlFindings(f) = {} <=>
                /\ f.status["page"] = "good" /\ f.span["page"] = "within" /\ "page" \notin f.unfit
                /\ f.status["canonical"] = "good" /\ f.span["canonical"] = "within"
                /\ "canonical" \notin f.unfit
           /\ Bars(CrawlFindings(f))
<1>1. /\ f.span["page"] \in Spans
      /\ f.status["canonical"] \in Standings /\ f.span["canonical"] \in Spans
  BY HandedRecords DEF FileParts
<1> DEFINE public == If(f.status["page"] # "good" \/ "page" \in f.unfit, Error("crawl"))
           time == If(f.status["page"] # "missing", Span("fresh", f.span["page"]))
           stood == Standing("crawl", f.status["canonical"])
           freshness == Standing("fresh", f.status["canonical"])
           fitting == If("canonical" \in f.unfit, Error("crawl"))
           lasting == Span("fresh", f.span["canonical"])
<1>2. (public = {} <=> f.status["page"] = "good" /\ "page" \notin f.unfit) /\ Bars(public)
  BY FindingOf DEF If, Barring, Bars
<1>3. (time = {} <=> f.status["page"] = "missing" \/ f.span["page"] = "within") /\ Bars(time)
  <2>1. /\ Span("fresh", f.span["page"]) = {} <=> f.span["page"] = "within"
        /\ Bars(Span("fresh", f.span["page"]))
    BY <1>1, SpanFinds DEF Barring, Bars
  <2> QED
    BY <2>1 DEF If, Bars
<1>4. (stood = {} <=> f.status["canonical"] = "good") /\ Bars(stood)
  BY <1>1, StandingFinds DEF Barring, Bars
<1>5. Bars(freshness) /\ (freshness = {} <=> f.status["canonical"] = "good")
  BY <1>1, StandingFinds DEF Barring, Bars
<1>6. (fitting = {} <=> "canonical" \notin f.unfit) /\ Bars(fitting)
  BY FindingOf DEF If, Barring, Bars
<1>7. (lasting = {} <=> f.span["canonical"] = "within") /\ Bars(lasting)
  BY <1>1, SpanFinds DEF Barring, Bars
<1>8. CrawlFindings(f) = public \cup time \cup stood \cup freshness \cup fitting \cup lasting
  BY DEF CrawlFindings
<1> HIDE DEF public, time, stood, freshness, fitting, lasting
<1>9. CrawlFindings(f) = {} <=> /\ public = {} /\ time = {} /\ stood = {}
                                /\ freshness = {} /\ fitting = {} /\ lasting = {}
  BY <1>8
<1>10. Bars(CrawlFindings(f))
  BY <1>2, <1>3, <1>4, <1>5, <1>6, <1>7, <1>8 DEF Bars
<1> QED
  BY <1>2, <1>3, <1>4, <1>5, <1>6, <1>7, <1>9, <1>10

(* Every record is looked at: nothing is found exactly in a citable file.  *)
LEMMA FoundByRules ==
    ASSUME NEW f, FileParts(f)
    PROVE  /\ Findings(f) = {} <=>
                /\ EntityFindings(f) = {} /\ SourceFindings(f) = {} /\ RightsFindings(f) = {}
                /\ LinkFindings(f) = {} /\ CrawlFindings(f) = {}
                /\ \A c \in AssessedClaims : ClaimFindings(f, c) = {}
                /\ \A s \in AssessedSnapshots : SnapshotFindings(f, s) = {}
                /\ \A e \in AssessedEvidence : EvidenceFindings(f, e) = {}
           /\ Bars(Findings(f))
<1> DEFINE single == EntityFindings(f) \cup SourceFindings(f) \cup RightsFindings(f)
                     \cup LinkFindings(f) \cup CrawlFindings(f)
           claims == UNION {ClaimFindings(f, c) : c \in AssessedClaims}
           snapshots == UNION {SnapshotFindings(f, s) : s \in AssessedSnapshots}
           proofs == UNION {EvidenceFindings(f, e) : e \in AssessedEvidence}
<1>1. Findings(f) = single \cup claims \cup snapshots \cup proofs
  BY DEF Findings
<1>2. /\ single = {} <=> /\ EntityFindings(f) = {} /\ SourceFindings(f) = {} /\ RightsFindings(f) = {}
                         /\ LinkFindings(f) = {} /\ CrawlFindings(f) = {}
      /\ Bars(single)
  BY EntityRule, SourceRule, RightsRule, LinkRule, CrawlRule DEF Bars
<1>3. (claims = {} <=> \A c \in AssessedClaims : ClaimFindings(f, c) = {}) /\ Bars(claims)
  BY ClaimRule DEF Bars
<1>4. (snapshots = {} <=> \A s \in AssessedSnapshots : SnapshotFindings(f, s) = {}) /\ Bars(snapshots)
  BY SnapshotRule DEF Bars
<1>5. (proofs = {} <=> \A e \in AssessedEvidence : EvidenceFindings(f, e) = {}) /\ Bars(proofs)
  BY EvidenceRule DEF Bars
<1> HIDE DEF single, claims, snapshots, proofs
<1>6. Findings(f) = {} <=> single = {} /\ claims = {} /\ snapshots = {} /\ proofs = {}
  BY <1>1
<1>7. Bars(Findings(f))
  BY <1>1, <1>2, <1>3, <1>4, <1>5 DEF Bars
<1> QED
  BY <1>2, <1>3, <1>4, <1>5, <1>6, <1>7

LEMMA NothingFoundIfCitable ==
    ASSUME NEW f, FileParts(f), Citable(f)
    PROVE  Findings(f) = {}
<1>1. /\ \A r \in Handed : f.status[r] = "good"
      /\ \A r \in Dated : f.span[r] = "within"
      /\ \A r : r \notin f.unfit
      /\ f.declared /\ f.current # Absent /\ f.covers # {}
  BY DEF Citable
<1>2. EntityFindings(f) = {} /\ SourceFindings(f) = {} /\ RightsFindings(f) = {} /\ CrawlFindings(f) = {}
  BY <1>1, HandedRecords, EntityRule, SourceRule, RightsRule, CrawlRule DEF Singles
<1>3. \A c \in AssessedClaims : ClaimFindings(f, c) = {}
  BY <1>1, HandedRecords, ClaimRule DEF Citable
<1>4. \A s \in AssessedSnapshots : SnapshotFindings(f, s) = {}
  BY <1>1, HandedRecords, SnapshotRule
<1>5. \A e \in AssessedEvidence : EvidenceFindings(f, e) = {}
  <2>1. \A e \in AssessedEvidence : f.taken[e] \in f.covers /\ f.taken[e] \in AssessedSnapshots
    BY DEF Citable, FileParts
  <2> QED
    BY <2>1, <1>1, HandedRecords, EvidenceRule
<1>6. LinkFindings(f) = {}
  <2>1. \A c \in AssessedClaims, e \in AssessedEvidence : (e \in f.names[c]) <=> (c \in f.about[e])
    BY DEF Citable
  <2>2. \A c \in AssessedClaims : \E e \in AssessedEvidence : Linked(f, c, e) /\ f.status[e] = "good"
    BY <1>1, HandedRecords DEF Citable, FileParts, Linked
  <2>3. \A e \in AssessedEvidence : \E c \in AssessedClaims : Linked(f, c, e)
    BY DEF Citable, FileParts, Linked
  <2> QED
    BY <2>1, <2>2, <2>3, LinkRule
<1> QED
  BY <1>2, <1>3, <1>4, <1>5, <1>6, FoundByRules

LEMMA CitableIfNothingFound ==
    ASSUME NEW f, FileParts(f), Findings(f) = {}
    PROVE  Citable(f)
<1>1. /\ f.status["entity"] = "good" /\ f.declared
      /\ f.status["source"] = "good" /\ f.span["source"] = "within" /\ f.current # Absent
      /\ f.status["rights"] = "good" /\ f.span["rights"] = "within"
      /\ "rights" \notin f.unfit /\ f.covers # {}
      /\ f.status["page"] = "good" /\ f.span["page"] = "within" /\ "page" \notin f.unfit
      /\ f.status["canonical"] = "good" /\ f.span["canonical"] = "within" /\ "canonical" \notin f.unfit
  BY FoundByRules, EntityRule, SourceRule, RightsRule, CrawlRule
<1>2. \A c \in AssessedClaims : /\ f.status[c] = "good" /\ f.fresh[c] = "good"
                                /\ f.span[c] = "within" /\ c \notin f.unfit
  BY FoundByRules, ClaimRule
<1>3. \A s \in AssessedSnapshots : f.status[s] = "good" /\ f.span[s] = "within" /\ s \notin f.unfit
  BY FoundByRules, SnapshotRule
<1>4. \A e \in AssessedEvidence : /\ f.status[e] = "good" /\ f.span[e] = "within"
                                  /\ e \notin f.unfit /\ f.taken[e] \in f.covers
  BY FoundByRules, EvidenceRule
<1>5. /\ \A c \in AssessedClaims, e \in AssessedEvidence : (e \in f.names[c]) <=> (c \in f.about[e])
      /\ \A c \in AssessedClaims : \E e \in AssessedEvidence : Linked(f, c, e)
      /\ \A e \in AssessedEvidence : \E c \in AssessedClaims : Linked(f, c, e)
  BY FoundByRules, LinkRule
<1>6. \A r \in Handed : f.status[r] = "good"
  BY <1>1, <1>2, <1>3, <1>4 DEF Handed, Singles
<1>7. \A r \in Dated : f.span[r] = "within"
  BY <1>1, <1>2, <1>3, <1>4 DEF Dated, Handed, Singles
<1>8. f.unfit = {}
  <2>1. \A r \in Fitted : r \notin f.unfit
    BY <1>1, <1>2, <1>3, <1>4 DEF Fitted, Handed, Singles
  <2> QED
    BY <2>1 DEF FileParts
<1>9. \A c \in AssessedClaims : f.names[c] # {}
  BY <1>5 DEF Linked
<1>10. \A e \in AssessedEvidence : f.about[e] # {}
  BY <1>5 DEF Linked
<1> QED
  BY <1>1, <1>2, <1>4, <1>5, <1>6, <1>7, <1>8, <1>9, <1>10 DEF Citable

(* So an assessment is right about the file it was made of.                *)
LEMMA AssessmentSound ==
    ASSUME NEW f \in FileType
    PROVE  /\ Assessment(f).made /\ Assessment(f).file = f
           /\ Assessment(f).cite <=> Citable(f)
           /\ Assessment(f).cite => Assessment(f).crawl
<1> DEFINE findings == Findings(f)
           failed == \E x \in findings : x[2] = "error"
           crawl == Passes("crawl", findings) /\ ~failed
           cite == \A d \in {"citation", "claim", "fresh", "entity", "crawl"} : Passes(d, findings)
<1>1. Assessment(f) = [made |-> TRUE, file |-> f, crawl |-> crawl, cite |-> cite]
  BY DEF Assessment
<1>2. FileParts(f)
  BY FileHasParts
<1>3. Bars(findings)
  BY <1>2, FoundByRules
<1>4. cite <=> findings = {}
  BY <1>3 DEF Bars, Barring, Passes
<1>5. cite => crawl
  BY <1>4 DEF Passes
<1>6. cite <=> Citable(f)
  BY <1>2, <1>4, NothingFoundIfCitable, CitableIfNothingFound
<1> HIDE DEF crawl, cite
<1>7. Assessment(f).made /\ Assessment(f).file = f
  BY <1>1
<1>8. (Assessment(f).cite <=> cite) /\ (Assessment(f).crawl <=> crawl)
  BY <1>1
<1> QED
  BY <1>5, <1>6, <1>7, <1>8

ReportOf(report) == report.file \in FileType /\ report = Assessment(report.file)

AssessInv ==
    /\ file \in FileType
    /\ flaws \in 0 .. MaxFlaws
    /\ \A k \in AssessKeys : reports[k].made => ReportOf(reports[k])

LEMMA AssessStart == AssessInit => AssessInv
BY GeoAssessAssumption DEF AssessInit, AssessInv, NoReport

LEMMA AssessFrame ==
    ASSUME AssessInv, UNCHANGED assessVars
    PROVE  AssessInv'
BY DEF AssessInv, assessVars, ReportOf, FileType, Assessment

(* A record that is changed is still one of its kind.                      *)
LEMMA ChangedFile ==
    ASSUME file \in FileType, ChangeRecord
    PROVE  file' \in FileType
<1>1. ASSUME NEW r \in Handed, NEW s \in Standings, file' = [file EXCEPT !.status[r] = s]
      PROVE  file' \in FileType
  BY <1>1 DEF FileType
<1>2. ASSUME NEW r \in Dated, NEW s \in Spans, file' = [file EXCEPT !.span[r] = s]
      PROVE  file' \in FileType
  BY <1>2 DEF FileType
<1>3. ASSUME NEW r \in Fitted, file' = [file EXCEPT !.unfit = @ \cup {r}]
      PROVE  file' \in FileType
  BY <1>3 DEF FileType
<1>4. ASSUME NEW c \in AssessedClaims, NEW s \in Standings, file' = [file EXCEPT !.fresh[c] = s]
      PROVE  file' \in FileType
  BY <1>4 DEF FileType
<1>5. ASSUME NEW c \in AssessedClaims, NEW es \in SUBSET AssessedEvidence, file' = [file EXCEPT !.names[c] = es]
      PROVE  file' \in FileType
  BY <1>5 DEF FileType
<1>6. ASSUME NEW e \in AssessedEvidence, NEW cs \in SUBSET AssessedClaims, file' = [file EXCEPT !.about[e] = cs]
      PROVE  file' \in FileType
  BY <1>6 DEF FileType
<1>7. ASSUME NEW e \in AssessedEvidence, NEW s \in AssessedSnapshots \cup {Absent},
             file' = [file EXCEPT !.taken[e] = s]
      PROVE  file' \in FileType
  BY <1>7 DEF FileType
<1>8. ASSUME NEW ss \in SUBSET AssessedSnapshots, file' = [file EXCEPT !.covers = ss]
      PROVE  file' \in FileType
  BY <1>8 DEF FileType
<1>9. ASSUME file' = [file EXCEPT !.declared = FALSE]
      PROVE  file' \in FileType
  BY <1>9 DEF FileType
<1>10. ASSUME NEW s \in AssessedSnapshots \cup {Absent}, file' = [file EXCEPT !.current = s]
       PROVE  file' \in FileType
  BY <1>10 DEF FileType
<1> HIDE DEF FileType
<1> QED
  BY <1>1, <1>2, <1>3, <1>4, <1>5, <1>6, <1>7, <1>8, <1>9, <1>10 DEF ChangeRecord

LEMMA AssessStep ==
    ASSUME AssessInv, AssessNext
    PROVE  AssessInv'
<1>1. CASE ChangeRecord
  <2>1. file' \in FileType
    BY <1>1, ChangedFile DEF AssessInv
  <2>2. flaws' \in 0 .. MaxFlaws /\ UNCHANGED reports
    BY <1>1, GeoAssessAssumption DEF ChangeRecord, AssessInv
  <2> QED
    BY <2>1, <2>2 DEF AssessInv, ReportOf, FileType, Assessment
<1>2. ASSUME NEW k \in AssessKeys, Assess(k)
      PROVE  AssessInv'
  <2>1. reports' = [reports EXCEPT ![k] = Assessment(file)] /\ UNCHANGED <<file, flaws>>
    BY <1>2 DEF Assess
  <2>2. ReportOf(Assessment(file))
    BY AssessmentSound DEF AssessInv, ReportOf
  <2>3. \A j \in AssessKeys : reports'[j].made => ReportOf(reports'[j])
    BY <2>1, <2>2 DEF AssessInv
  <2> QED
    BY <2>1, <2>3 DEF AssessInv, ReportOf, FileType, Assessment
<1> QED
  BY <1>1, <1>2 DEF AssessNext

LEMMA AssessInvGives == AssessInv => AssessTypeOK /\ CitationSound
<1> SUFFICES ASSUME AssessInv
             PROVE  AssessTypeOK /\ CitationSound
  OBVIOUS
<1>1. AssessTypeOK
  BY DEF AssessTypeOK, AssessInv, ReportOf
<1>2. CitationSound
  BY AssessmentSound DEF CitationSound, AssessInv, ReportOf
<1> QED
  BY <1>1, <1>2

-----------------------------------------------------------------------------
(* GEO as a whole.                                                         *)
GeoInv == RegionInv /\ RunInv /\ AssessInv

(* The three invariants hold in every reachable state: each step is one of *)
(* one service and leaves the records of the others.                       *)
THEOREM GeoSound == GeoSpec => []GeoInv
<1>1. GeoInit => GeoInv
  BY RegionStart, RunStart, AssessStart DEF GeoInit, GeoInv
<1>2. GeoInv /\ [GeoNext]_geoVars => GeoInv'
  <2> SUFFICES ASSUME GeoInv, [GeoNext]_geoVars
               PROVE  GeoInv'
    OBVIOUS
  <2>1. CASE RegionNext /\ UNCHANGED <<geoRunVars, assessVars>>
    BY <2>1, RegionStep, RunFrame, AssessFrame DEF GeoInv
  <2>2. CASE GeoRunNext /\ UNCHANGED <<regionVars, assessVars>>
    BY <2>2, RunStep, RegionFrame, AssessFrame DEF GeoInv
  <2>3. CASE AssessNext /\ UNCHANGED <<regionVars, geoRunVars>>
    BY <2>3, AssessStep, RegionFrame, RunFrame DEF GeoInv
  <2>4. CASE UNCHANGED geoVars
    BY <2>4, RegionFrame, RunFrame, AssessFrame DEF GeoInv, geoVars
  <2> QED
    BY <2>1, <2>2, <2>3, <2>4 DEF GeoNext
<1> QED
  BY <1>1, <1>2, PTL DEF GeoSpec

(* The records of the three services keep their types.                     *)
THEOREM GeoTyped == GeoSpec => [](RegionTypeOK /\ GeoRunTypeOK /\ AssessTypeOK)
<1>1. GeoInv => RegionTypeOK /\ GeoRunTypeOK /\ AssessTypeOK
  BY RegionInvGives, RunInvGives, AssessInvGives DEF GeoInv
<1> QED
  BY <1>1, GeoSound, PTL

(* The pointer of a region names its one active version, a run is answered *)
(* as it was made, and a page is called ready for citation exactly if its  *)
(* records make it citable (service.py, runs.py).                          *)
THEOREM GeoKeptAlways == GeoSpec => []GeoKept
<1>1. GeoInv => GeoKept
  BY RegionInvGives, RunInvGives, AssessInvGives DEF GeoInv, GeoKept
<1> QED
  BY <1>1, GeoSound, PTL

-----------------------------------------------------------------------------
(* Render jobs. A worker goes on with a copy, so everything that is said   *)
(* of the job is said of the copies too. A failure is filed once for each  *)
(* attempt and code: who filed it is alone to put its schedule, which was  *)
(* never retried then, and a schedule that was claimed is put no more.     *)
RenderOps == {"none"} \cup Codes \cup Manual
RenderSteps == {"claimed", "stored", "due", "retrying", "failing", "filing", "filed", "saving", "deciding"}
FailureReports == {Unreported} \cup [class : ErrorClasses, code : Codes, attempt : Attempts, max : Nat \ {0}]
Working ==
    [at : RenderSteps, copy : JobType, retry : {NoRetry} \cup (Attempts \X (Codes \cup {"none"})),
     op : RenderOps, report : FailureReports]

JobBacked(j, arts) == j.arts \subseteq arts /\ (j.status = "succeeded" => j.arts # {})

JobKept == job \in JobType /\ JobBacked(job, artifacts)

(* A scheduled retry is of a failure on record that nobody retried.        *)
SchedulesKept(rows, known, tried) ==
    /\ rows \in [Attempts -> ScheduleRows] /\ known \subseteq Attempts \X Codes /\ tried \subseteq known
    /\ \A n \in Attempts : rows[n].status # "none" => <<n, rows[n].code>> \in known
    /\ \A n \in Attempts : rows[n].status = "scheduled" => <<n, rows[n].code>> \notin tried

StoreKept ==
    /\ objects \subseteq Scopes2 /\ artifacts \subseteq objects
    /\ tasks \in [ErrorClasses -> {"none", "queued", "completed"}]
    /\ SchedulesKept(schedules, failures, retried)

NoneAdded ==
    \A n \in Attempts :
        schedules'[n].code = schedules[n].code /\ (schedules'[n].status # "none" => schedules[n].status # "none")

(* What a worker knows of what it is doing.                                *)
WorkerKnows(s, objs, arts) ==
    /\ JobBacked(s.copy, arts)
    /\ s.at = "stored" => "full" \in objs
    /\ s.at = "deciding" => s.op \in Manual
    /\ s.at = "deciding" /\ s.op = "succeeded" => s.copy.arts # {}
    /\ s.at \in {"filing", "filed", "saving"} => s.report # Unreported
    /\ s.at = "failing" => s.op \in Codes
    /\ s.at \in {"filing", "filed", "saving", "deciding"} => s.retry = NoRetry
    /\ s.at = "due" => s.retry # NoRetry
    /\ s.at = "retrying" => s.retry # NoRetry

(* It carries out a retry that was claimed, or is about to put the first   *)
(* schedule of a failure it filed.                                         *)
Carries(s) == s # Resting /\ s.at # "due" /\ s.retry # NoRetry
Filed(s) == s # Resting /\ s.at = "filed"
FactOf(s) == <<s.report.attempt, s.report.code>>
ItsOwn(s, rows, known, tried) ==
    /\ Carries(s) => s.retry \in tried
    /\ Filed(s) => FactOf(s) \in known /\ FactOf(s) \notin tried
                   /\ ~(rows[s.report.attempt].status # "none" /\ rows[s.report.attempt].code = s.report.code)

Apart(s, t) ==
    /\ Carries(s) /\ Carries(t) => s.retry # t.retry
    /\ Filed(s) /\ Filed(t) => FactOf(s) # FactOf(t)

RenderInv ==
    /\ JobKept
    /\ StoreKept
    /\ worker \in [RenderWorkers -> {Resting} \cup Working]
    /\ \A w \in RenderWorkers : worker[w] # Resting => WorkerKnows(worker[w], objects, artifacts)
    /\ \A w \in RenderWorkers : ItsOwn(worker[w], schedules, failures, retried)
    /\ \A v, w \in RenderWorkers : v # w => Apart(worker[v], worker[w])

LEMMA NewJobFits == NewJob \in JobType /\ \A arts : JobBacked(NewJob, arts)
BY RenderAssumption DEF NewJob, JobType, JobStates, JobBacked

LEMMA RenderStarts == RenderInit => RenderInv
<1> SUFFICES ASSUME RenderInit
             PROVE  RenderInv
  OBVIOUS
<1>1. JobKept
  BY NewJobFits DEF RenderInit, JobKept
<1>2. StoreKept
  BY DEF RenderInit, StoreKept, SchedulesKept, ScheduleRows, Unscheduled
<1>3. worker \in [RenderWorkers -> {Resting} \cup Working] /\ \A w \in RenderWorkers : worker[w] = Resting
  BY DEF RenderInit
<1> QED
  BY <1>1, <1>2, <1>3 DEF RenderInv, ItsOwn, Apart, Carries, Filed

LEMMA RenderGives == RenderInv => SuccessBacked /\ RetriedOnce
BY DEF RenderInv, SuccessBacked, RetriedOnce, Retries, Carries, Apart, JobKept, JobBacked, StoreKept, SchedulesKept

LEMMA RenderKeeps == RenderInv /\ UNCHANGED renderVars => RenderInv'
BY DEF RenderInv, renderVars, JobKept, JobBacked, StoreKept, SchedulesKept, WorkerKnows, ItsOwn, Apart, Carries, Filed, FactOf

(* A worker at work has a copy in order, and an attempt to record.         *)
LEMMA AtWork ==
    ASSUME RenderInv, NEW w \in RenderWorkers, worker[w] # Resting
    PROVE  /\ worker[w] \in Working /\ WorkerKnows(worker[w], objects, artifacts)
           /\ worker[w].copy \in JobType /\ JobBacked(worker[w].copy, artifacts)
BY DEF RenderInv, Working, WorkerKnows

LEMMA Counted == ASSUME NEW j \in JobType PROVE Attempt(j) \in Attempts
BY RenderAssumption DEF JobType, Attempt, Attempts

(* A step of one worker keeps what the others know if storage and store    *)
(* only gain, what it takes up is nobody else's, and what the others filed *)
(* is neither scheduled nor retried by it.                                 *)
LEMMA RenderMoves ==
    ASSUME RenderInv, NEW w \in RenderWorkers, NEW s,
           JobKept', StoreKept',
           objects \subseteq objects', artifacts \subseteq artifacts',
           failures \subseteq failures', retried \subseteq retried',
           worker' = [worker EXCEPT ![w] = s],
           s = Resting \/ (s \in Working /\ WorkerKnows(s, objects', artifacts')),
           ItsOwn(s, schedules', failures', retried'),
           \A v \in RenderWorkers \ {w} :
              /\ Apart(s, worker[v]) /\ Apart(worker[v], s)
              /\ ItsOwn(worker[v], schedules', failures', retried')
    PROVE  RenderInv'
<1>1. worker' \in [RenderWorkers -> {Resting} \cup Working]
  BY DEF RenderInv
<1>2. worker'[w] = s /\ \A v \in RenderWorkers \ {w} : worker'[v] = worker[v]
  BY DEF RenderInv
<1>3. \A v \in RenderWorkers : worker'[v] # Resting => WorkerKnows(worker'[v], objects', artifacts')
  BY <1>2 DEF RenderInv, WorkerKnows, JobBacked
<1>4. \A v \in RenderWorkers : ItsOwn(worker'[v], schedules', failures', retried')
  BY <1>2
<1>5. \A u, v \in RenderWorkers : u # v => Apart(worker'[u], worker'[v])
  BY <1>2 DEF RenderInv
<1> QED
  BY <1>1, <1>3, <1>4, <1>5 DEF RenderInv

(* It is so of every step that leaves facts and retries as they are,       *)
(* schedules nothing new and goes on with the retry it has, or none.       *)
LEMMA RenderGoesOn ==
    ASSUME RenderInv, NEW w \in RenderWorkers, NEW s,
           JobKept', StoreKept',
           objects \subseteq objects', artifacts \subseteq artifacts', UNCHANGED <<failures, retried>>,
           NoneAdded,
           worker' = [worker EXCEPT ![w] = s],
           s = Resting \/ (s \in Working /\ WorkerKnows(s, objects', artifacts')),
           ~Filed(s), Carries(s) => Carries(worker[w]) /\ s.retry = worker[w].retry
    PROVE  RenderInv'
<1>1. ItsOwn(s, schedules', failures', retried')
  BY DEF RenderInv, ItsOwn
<1>2. ASSUME NEW v \in RenderWorkers, v # w
      PROVE  ItsOwn(worker[v], schedules', failures', retried')
  <2>1. ItsOwn(worker[v], schedules, failures, retried)
    BY DEF RenderInv
  <2>2. Filed(worker[v]) => worker[v].report.attempt \in Attempts
    BY AtWork DEF Filed, WorkerKnows, Working, FailureReports
  <2> QED
    BY <2>1, <2>2 DEF ItsOwn, NoneAdded
<1>3. ASSUME NEW v \in RenderWorkers, v # w
      PROVE  Apart(s, worker[v]) /\ Apart(worker[v], s)
  BY <1>3 DEF RenderInv, Apart
<1> QED
  BY <1>1, <1>2, <1>3, RenderMoves

LEMMA WrittenBack ==
    ASSUME NEW j \in JobType, NEW status \in JobStates
    PROVE  /\ [j EXCEPT !.status = status] \in JobType
           /\ [j EXCEPT !.status = status].arts = j.arts /\ [j EXCEPT !.status = status].status = status
BY DEF JobType

(* The record a worker goes on with.                                       *)
LEMMA DoingIs ==
    ASSUME NEW step \in RenderSteps, NEW copy \in JobType,
           NEW retry \in {NoRetry} \cup (Attempts \X (Codes \cup {"none"})), NEW op \in RenderOps,
           NEW report \in FailureReports
    PROVE  /\ Doing(step, copy, retry, op, report) \in Working
           /\ Doing(step, copy, retry, op, report).at = step /\ Doing(step, copy, retry, op, report).copy = copy
           /\ Doing(step, copy, retry, op, report).retry = retry /\ Doing(step, copy, retry, op, report).op = op
           /\ Doing(step, copy, retry, op, report).report = report
           /\ Doing(step, copy, retry, op, report) # Resting
<1>1. Doing(step, copy, retry, op, report) \in Working
  BY DEF Doing, Working
<1>2. Resting \notin Working
  BY DEF Resting, Working, RenderSteps
<1> QED
  BY <1>1, <1>2 DEF Doing

LEMMA ClaimsRunning ==
    ASSUME RenderInv, NEW w \in RenderWorkers, NEW retry, ClaimRunning(w, retry),
           retry = NoRetry \/ (worker[w] # Resting /\ worker[w].at = "retrying" /\ worker[w].retry = retry)
    PROVE  RenderInv'
<1> DEFINE s == Doing("claimed", job', retry, "none", Unreported)
<1>1. job' = [job EXCEPT !.status = "running", !.attempt = @ + 1]
      /\ UNCHANGED <<objects, artifacts, schedules, retried, failures, tasks>>
      /\ worker' = [worker EXCEPT ![w] = s] /\ job.attempt < MaxRenders
  BY DEF ClaimRunning, Goes
<1>2. job' \in JobType /\ job'.status = "running" /\ job'.arts = job.arts
  <2>1. job \in JobType
    BY DEF RenderInv, JobKept
  <2>2. job.attempt + 1 \in 0 .. MaxRenders
    BY <1>1, <2>1, RenderAssumption DEF JobType
  <2>3. job' = [job EXCEPT !.status = "running", !.attempt = job.attempt + 1]
    BY <1>1
  <2> QED
    BY <2>1, <2>2, <2>3 DEF JobType, JobStates
<1>3. JobKept'
  BY <1>1, <1>2 DEF RenderInv, JobKept, JobBacked
<1>4. StoreKept'
  BY <1>1 DEF RenderInv, StoreKept
<1>5. retry \in {NoRetry} \cup (Attempts \X (Codes \cup {"none"}))
  BY AtWork DEF Working
<1>6. s \in Working /\ s.at = "claimed" /\ s.copy = job' /\ s.retry = retry /\ s # Resting
  BY <1>2, <1>5, DoingIs DEF RenderSteps, RenderOps, FailureReports
<1> HIDE DEF s
<1>7. WorkerKnows(s, objects', artifacts')
  BY <1>3, <1>6 DEF WorkerKnows, JobKept
<1>8. ~Filed(s) /\ (Carries(s) => Carries(worker[w]) /\ s.retry = worker[w].retry)
  BY <1>6 DEF Filed, Carries
<1> QED
  BY <1>1, <1>3, <1>4, <1>6, <1>7, <1>8, RenderGoesOn DEF NoneAdded

LEMMA RendersFail ==
    ASSUME RenderInv, NEW w \in RenderWorkers, RenderFails(w)
    PROVE  RenderInv'
<1>1. PICK code \in RenderCodes : EndRender(w, code)
  BY DEF RenderFails
<1> DEFINE status == IF code = "RENDER_RESULT_UNKNOWN" THEN "unknown" ELSE "failed"
           t == Doing("failing", NewJob, worker[w].retry, code, Unreported)
           s == IF worker[w].retry = NoRetry THEN Resting ELSE t
<1>2. worker[w] # Resting /\ worker[w].at \in {"claimed", "stored"}
  BY DEF RenderFails, At
<1>3. job' = [worker[w].copy EXCEPT !.status = status]
  BY <1>1 DEF EndRender
<1>4. worker' = [worker EXCEPT ![w] = s]
  BY <1>1 DEF EndRender, Rests, Goes
<1>5. job' \in JobType /\ job'.status = status /\ job'.arts = worker[w].copy.arts
  <2>1. worker[w].copy \in JobType /\ status \in JobStates
    BY <1>2, AtWork DEF JobStates
  <2> QED
    BY <1>3, <2>1, WrittenBack
<1>6. UNCHANGED <<artifacts, schedules, retried, failures, tasks>> /\ objects \subseteq objects' /\ objects' \subseteq Scopes2
  BY DEF RenderFails, RenderInv, StoreKept, Scopes2
<1>7. JobKept'
  BY <1>2, <1>5, <1>6, AtWork DEF JobKept, JobBacked
<1>8. StoreKept'
  BY <1>6 DEF RenderInv, StoreKept
<1>9. t \in Working /\ t.at = "failing" /\ t.copy = NewJob /\ t.retry = worker[w].retry /\ t.op = code /\ t # Resting
  <2>1. worker[w].retry \in {NoRetry} \cup (Attempts \X (Codes \cup {"none"}))
    BY <1>2, AtWork DEF Working
  <2>2. code \in RenderOps /\ "failing" \in RenderSteps /\ Unreported \in FailureReports /\ NewJob \in JobType
    BY NewJobFits DEF RenderSteps, RenderOps, FailureReports, Codes
  <2> QED
    BY <2>1, <2>2, DoingIs
<1> HIDE DEF t, status
<1>10. WorkerKnows(t, objects', artifacts')
  BY <1>9, NewJobFits DEF WorkerKnows, Codes
<1>11. ~Filed(s) /\ (Carries(s) => Carries(worker[w]) /\ s.retry = worker[w].retry)
  BY <1>2, <1>9 DEF Filed, Carries
<1>12. s = Resting \/ (s \in Working /\ WorkerKnows(s, objects', artifacts'))
  BY <1>9, <1>10
<1> HIDE DEF s
<1> QED
  BY <1>4, <1>6, <1>7, <1>8, <1>11, <1>12, RenderGoesOn DEF NoneAdded

LEMMA ObjectsPut ==
    ASSUME RenderInv, NEW w \in RenderWorkers, PutObject(w)
    PROVE  RenderInv'
<1> DEFINE s == Doing("stored", job', worker[w].retry, "none", Unreported)
<1>1. worker[w] # Resting /\ worker[w].at = "claimed"
  BY DEF PutObject, At
<1>2. job' = [worker[w].copy EXCEPT !.pending = TRUE] /\ worker' = [worker EXCEPT ![w] = s]
  BY DEF PutObject, Goes
<1>3. job' \in JobType /\ job'.status = worker[w].copy.status /\ job'.arts = worker[w].copy.arts
  BY <1>1, <1>2, AtWork DEF JobType
<1>4. UNCHANGED <<artifacts, schedules, retried, failures, tasks>> /\ objects' = objects \cup {"full"}
  BY DEF PutObject
<1>5. JobKept'
  BY <1>1, <1>3, <1>4, AtWork DEF JobKept, JobBacked
<1>6. StoreKept'
  BY <1>4 DEF RenderInv, StoreKept, Scopes2
<1>7. s \in Working /\ s.at = "stored" /\ s.copy = job' /\ s.retry = worker[w].retry /\ s # Resting
  <2>1. worker[w].retry \in {NoRetry} \cup (Attempts \X (Codes \cup {"none"}))
    BY <1>1, AtWork DEF Working
  <2> QED
    BY <1>3, <2>1, DoingIs DEF RenderSteps, RenderOps, FailureReports
<1> HIDE DEF s
<1>8. WorkerKnows(s, objects', artifacts')
  BY <1>4, <1>5, <1>7 DEF WorkerKnows, JobKept
<1>9. ~Filed(s) /\ (Carries(s) => Carries(worker[w]) /\ s.retry = worker[w].retry)
  BY <1>1, <1>7 DEF Filed, Carries
<1> QED
  BY <1>2, <1>4, <1>5, <1>6, <1>7, <1>8, <1>9, RenderGoesOn DEF NoneAdded

(* Completing the row it claimed schedules nothing.                        *)
LEMMA RetryCompletes ==
    ASSUME RenderInv, NEW w \in RenderWorkers, worker[w] # Resting, worker[w].at # "due",
           CompletesRetry(worker[w].retry), UNCHANGED <<failures, retried>>
    PROVE  /\ SchedulesKept(schedules', failures', retried')
           /\ NoneAdded
<1> DEFINE n == worker[w].retry[1]
           code == worker[w].retry[2]
<1>1. SchedulesKept(schedules, failures, retried)
  BY DEF RenderInv, StoreKept
<1>2. CASE worker[w].retry # NoRetry /\ schedules[n].code = code
  <2>1. worker[w].retry \in retried
    BY <1>2 DEF RenderInv, ItsOwn, Carries
  <2>2. PICK m \in Attempts, c \in Codes : worker[w].retry = <<m, c>>
    BY <1>1, <2>1 DEF SchedulesKept
  <2>3. schedules' = [schedules EXCEPT ![m].status = "completed"] /\ schedules[m].code = c
    BY <1>2, <2>2 DEF CompletesRetry
  <2>4. schedules[m] \in [status : {"scheduled", "claimed", "completed"}, code : Codes]
    BY <1>1, <2>3, RenderAssumption DEF SchedulesKept, ScheduleRows, Unscheduled, Codes, NotExecutable
  <2>5. /\ schedules'[m].status = "completed" /\ schedules'[m].code = c /\ schedules'[m] \in ScheduleRows
        /\ schedules' = [schedules EXCEPT ![m] = schedules'[m]]
    BY <1>1, <2>3, <2>4 DEF SchedulesKept, ScheduleRows
  <2> QED
    BY <1>1, <2>3, <2>4, <2>5 DEF SchedulesKept, NoneAdded
<1>3. CASE ~(worker[w].retry # NoRetry /\ schedules[n].code = code)
  <2>1. schedules' = schedules
    BY <1>3 DEF CompletesRetry
  <2> QED
    BY <1>1, <2>1 DEF SchedulesKept, NoneAdded
<1> QED
  BY <1>2, <1>3

LEMMA RestIs == ~Filed(Resting) /\ ~Carries(Resting)
BY DEF Filed, Carries

LEMMA Confirms ==
    ASSUME RenderInv, NEW w \in RenderWorkers, Confirm(w)
    PROVE  RenderInv'
<1>1. worker[w] # Resting /\ worker[w].at \in {"claimed", "stored"} /\ "full" \in objects
  BY AtWork DEF Confirm, At, WorkerKnows
<1>2. job' = [worker[w].copy EXCEPT !.status = "succeeded", !.arts = @ \cup {"full"}, !.pending = FALSE]
      /\ artifacts' = artifacts \cup {"full"} /\ UNCHANGED <<objects, retried, failures, tasks>>
      /\ worker' = [worker EXCEPT ![w] = Resting] /\ CompletesRetry(worker[w].retry)
  BY DEF Confirm, Rests
<1>3. job' \in JobType /\ job'.status = "succeeded" /\ job'.arts = worker[w].copy.arts \cup {"full"}
  BY <1>1, <1>2, AtWork DEF JobType, JobStates, Scopes2
<1>4. JobKept'
  BY <1>1, <1>2, <1>3, AtWork DEF JobKept, JobBacked
<1>5. /\ SchedulesKept(schedules', failures', retried')
      /\ NoneAdded
  BY <1>1, <1>2, RetryCompletes
<1>6. StoreKept'
  BY <1>1, <1>2, <1>5 DEF RenderInv, StoreKept, Scopes2
<1> QED
  BY <1>2, <1>4, <1>5, <1>6, RestIs, RenderGoesOn DEF NoneAdded

LEMMA DueFound ==
    ASSUME RenderInv, NEW w \in RenderWorkers, NEW n \in Attempts, FindDue(w, n)
    PROVE  RenderInv'
<1> DEFINE s == Doing("due", NewJob, <<n, "none">>, "none", Unreported)
<1>1. worker' = [worker EXCEPT ![w] = s] /\ UNCHANGED <<job, objects, artifacts, schedules, retried, failures, tasks>>
  BY DEF FindDue, Goes
<1>2. JobKept' /\ StoreKept'
  BY <1>1 DEF RenderInv, JobKept, JobBacked, StoreKept
<1>3. <<n, "none">> \in Attempts \X (Codes \cup {"none"}) /\ <<n, "none">> # NoRetry
  BY DEF Attempts, NoRetry
<1>4. s \in Working /\ s.at = "due" /\ s.copy = NewJob /\ s.retry = <<n, "none">> /\ s # Resting
  BY <1>3, DoingIs, NewJobFits DEF RenderSteps, RenderOps, FailureReports
<1> HIDE DEF s
<1>5. WorkerKnows(s, objects', artifacts') /\ ~Filed(s) /\ ~Carries(s)
  BY <1>3, <1>4, NewJobFits DEF WorkerKnows, Filed, Carries
<1> QED
  BY <1>1, <1>2, <1>4, <1>5, RenderGoesOn DEF NoneAdded

LEMMA DueClaimed ==
    ASSUME RenderInv, NEW w \in RenderWorkers, ClaimDue(w)
    PROVE  RenderInv'
<1>1. worker[w] # Resting /\ worker[w].at = "due" /\ UNCHANGED <<job, objects, artifacts, failures, tasks>>
  BY DEF ClaimDue, At
<1>2. PICK n \in Attempts : n = worker[w].retry[1]
  BY <1>1, AtWork DEF Working, WorkerKnows
<1>3. PICK code : code = schedules[n].code
  OBVIOUS
<1>4. JobKept'
  BY <1>1 DEF RenderInv, JobKept, JobBacked
<1>5. SchedulesKept(schedules, failures, retried)
  BY DEF RenderInv, StoreKept
<1>6. CASE ClaimableDue(n)
  <2> DEFINE s == Doing("retrying", NewJob, <<n, code>>, "none", Unreported)
  <2>1. /\ schedules' = [schedules EXCEPT ![n].status = "claimed"] /\ retried' = retried \cup {<<n, code>>}
        /\ worker' = [worker EXCEPT ![w] = s]
    BY <1>2, <1>3, <1>6 DEF ClaimDue, Goes
  <2>2. schedules[n].status = "scheduled" /\ <<n, code>> \in failures /\ <<n, code>> \notin retried
    BY <1>3, <1>5, <1>6 DEF ClaimableDue, SchedulesKept
  <2>3. code \in Codes /\ schedules[n] \in [status : {"scheduled", "claimed", "completed"}, code : Codes]
    BY <1>3, <1>5, <2>2 DEF SchedulesKept, ScheduleRows, Unscheduled
  <2>4. /\ schedules'[n].status = "claimed" /\ schedules'[n].code = code /\ schedules'[n] \in ScheduleRows
        /\ schedules' = [schedules EXCEPT ![n] = schedules'[n]]
    BY <1>3, <1>5, <2>1, <2>3 DEF SchedulesKept, ScheduleRows
  <2>5. NoneAdded
    BY <1>3, <1>5, <2>2, <2>4 DEF SchedulesKept, NoneAdded
  <2>6. SchedulesKept(schedules', failures', retried')
    BY <1>1, <1>5, <2>1, <2>2, <2>4 DEF SchedulesKept
  <2>7. StoreKept'
    BY <1>1, <2>6 DEF RenderInv, StoreKept
  <2>8. <<n, code>> \in Attempts \X (Codes \cup {"none"}) /\ <<n, code>> # NoRetry
    BY <2>3 DEF Attempts, NoRetry
  <2>9. s \in Working /\ s.at = "retrying" /\ s.copy = NewJob /\ s.retry = <<n, code>> /\ s # Resting
    BY <2>8, DoingIs, NewJobFits DEF RenderSteps, RenderOps, FailureReports
  <2> HIDE DEF s
  <2>10. WorkerKnows(s, objects', artifacts') /\ ~Filed(s)
    BY <2>8, <2>9, NewJobFits DEF WorkerKnows, Filed
  <2>11. ItsOwn(s, schedules', failures', retried')
    BY <2>1, <2>9, <2>10 DEF ItsOwn
  <2>12. ASSUME NEW v \in RenderWorkers, v # w
         PROVE  ItsOwn(worker[v], schedules', failures', retried') /\ Apart(s, worker[v]) /\ Apart(worker[v], s)
    <3>1. ItsOwn(worker[v], schedules, failures, retried)
      BY DEF RenderInv
    <3>2. Filed(worker[v]) => worker[v].report.attempt \in Attempts
      BY AtWork DEF Filed, WorkerKnows, Working, FailureReports
    <3>3. Filed(worker[v]) => FactOf(worker[v]) # <<n, code>>
      BY <1>3, <2>2, <3>1 DEF ItsOwn, FactOf
    <3>4. ItsOwn(worker[v], schedules', failures', retried')
      BY <1>1, <2>1, <2>5, <3>1, <3>2, <3>3 DEF ItsOwn, NoneAdded
    <3> QED
      BY <2>2, <2>9, <2>10, <3>1, <3>4 DEF Apart, ItsOwn
  <2> QED
    BY <1>1, <1>4, <2>1, <2>7, <2>9, <2>10, <2>11, <2>12, RenderMoves
<1>7. CASE ~ClaimableDue(n)
  <2>1. UNCHANGED <<schedules, retried>> /\ worker' = [worker EXCEPT ![w] = Resting]
    BY <1>2, <1>7 DEF ClaimDue, Rests
  <2>2. StoreKept'
    BY <1>1, <2>1 DEF RenderInv, StoreKept
  <2> QED
    BY <1>1, <1>4, <2>1, <2>2, RestIs, RenderGoesOn DEF NoneAdded
<1> QED
  BY <1>6, <1>7

LEMMA RetriesRun ==
    ASSUME RenderInv, NEW w \in RenderWorkers, RunRetry(w)
    PROVE  RenderInv'
<1>1. worker[w] # Resting /\ worker[w].at = "retrying"
  BY DEF RunRetry, At
<1>2. CASE ClaimRunning(w, worker[w].retry)
  BY <1>1, <1>2, ClaimsRunning
<1>3. CASE /\ CompletesRetry(worker[w].retry) /\ Rests(w)
           /\ UNCHANGED <<job, objects, artifacts, retried, failures, tasks>>
  <2>1. /\ SchedulesKept(schedules', failures', retried')
        /\ NoneAdded
    BY <1>1, <1>3, RetryCompletes
  <2>2. JobKept' /\ StoreKept'
    BY <1>3, <2>1 DEF RenderInv, JobKept, JobBacked, StoreKept
  <2>3. worker' = [worker EXCEPT ![w] = Resting]
    BY <1>3 DEF Rests
  <2> QED
    BY <1>3, <2>1, <2>2, <2>3, RestIs, RenderGoesOn DEF NoneAdded
<1>4. CASE /\ Goes(w, "failing", NewJob, worker[w].retry, NotExecutable)
           /\ UNCHANGED <<job, objects, artifacts, schedules, retried, failures, tasks>>
  <2> DEFINE s == Doing("failing", NewJob, worker[w].retry, NotExecutable, Unreported)
  <2>1. worker' = [worker EXCEPT ![w] = s]
    BY <1>4 DEF Goes
  <2>2. worker[w].retry \in {NoRetry} \cup (Attempts \X (Codes \cup {"none"}))
    BY <1>1, AtWork DEF Working
  <2>3. s \in Working /\ s.at = "failing" /\ s.copy = NewJob /\ s.retry = worker[w].retry /\ s.op = NotExecutable /\ s # Resting
    BY <2>2, DoingIs, NewJobFits DEF RenderSteps, RenderOps, FailureReports, Codes
  <2> HIDE DEF s
  <2>4. WorkerKnows(s, objects', artifacts')
    BY <2>3, NewJobFits DEF WorkerKnows, Codes
  <2>5. ~Filed(s) /\ (Carries(s) => Carries(worker[w]) /\ s.retry = worker[w].retry)
    BY <1>1, <2>3 DEF Filed, Carries
  <2>6. JobKept' /\ StoreKept'
    BY <1>4 DEF RenderInv, JobKept, JobBacked, StoreKept
  <2> QED
    BY <1>4, <2>1, <2>3, <2>4, <2>5, <2>6, RenderGoesOn DEF NoneAdded
<1> QED
  BY <1>2, <1>3, <1>4 DEF RunRetry

(* A worker that goes on with a report carries out no retry.               *)
LEMMA ReportTaken ==
    ASSUME NEW step \in {"filing", "filed", "saving"}, NEW copy \in JobType,
           NEW r \in [class : ErrorClasses, code : Codes, attempt : Attempts, max : Nat \ {0}]
    PROVE  LET s == Doing(step, copy, NoRetry, "none", r) IN
           /\ s \in Working /\ s # Resting /\ s.at = step /\ s.copy = copy /\ s.retry = NoRetry /\ s.report = r
           /\ ~Carries(s) /\ (Filed(s) => step = "filed")
           /\ \A objs, arts : JobBacked(copy, arts) => WorkerKnows(s, objs, arts)
<1> DEFINE s == Doing(step, copy, NoRetry, "none", r)
<1>1. s \in Working /\ s # Resting /\ s.at = step /\ s.copy = copy /\ s.retry = NoRetry /\ s.report = r
  BY DoingIs DEF RenderSteps, RenderOps, FailureReports
<1>2. r # Unreported
  BY DEF Unreported, Attempts
<1> HIDE DEF s
<1>3. ~Carries(s) /\ (Filed(s) => step = "filed") /\ \A objs, arts : JobBacked(copy, arts) => WorkerKnows(s, objs, arts)
  BY <1>1, <1>2 DEF Carries, Filed, WorkerKnows
<1> QED
  BY <1>1, <1>3 DEF s

LEMMA ClassesOf == \A code : ClassifyError(code) \in ErrorClasses
BY DEF ClassifyError, ErrorClasses

LEMMA FailuresRead ==
    ASSUME RenderInv, NEW w \in RenderWorkers, ReadFailed(w)
    PROVE  RenderInv'
<1>1. UNCHANGED <<job, objects, artifacts, schedules, retried, failures, tasks>>
  BY DEF ReadFailed
<1>2. JobKept' /\ StoreKept' /\ job \in JobType /\ JobBacked(job, artifacts)
  BY <1>1 DEF RenderInv, JobKept, JobBacked, StoreKept
<1>3. CASE worker' = [worker EXCEPT ![w] = Resting]
  BY <1>1, <1>2, <1>3, RestIs, RenderGoesOn DEF NoneAdded
<1>4. ASSUME NEW r \in [class : ErrorClasses, code : Codes, attempt : Attempts, max : Nat \ {0}], Files(w, "filing", job, r)
      PROVE  RenderInv'
  <2> DEFINE s == Doing("filing", job, NoRetry, "none", r)
  <2>1. worker' = [worker EXCEPT ![w] = s]
    BY <1>4 DEF Files
  <2>2. s \in Working /\ ~Carries(s) /\ ~Filed(s) /\ WorkerKnows(s, objects', artifacts')
    BY <1>1, <1>2, ReportTaken
  <2> HIDE DEF s
  <2> QED
    BY <1>1, <1>2, <2>1, <2>2, RenderGoesOn DEF NoneAdded
<1>5. Attempt(job) \in Attempts /\ job.max \in Nat \ {0}
  BY <1>2, Counted DEF JobType
<1>6. ASSUME NEW class \in ErrorClasses, NEW code \in RenderCodes, NEW n \in 1 .. Attempt(job),
             NEW max \in OtherMaxima \cup {job.max}, Files(w, "filing", job, FailureReport(class, code, n, max))
      PROVE  RenderInv'
  <2>1. n \in Attempts /\ max \in Nat \ {0} /\ code \in Codes
    BY <1>5, RenderAssumption DEF Attempts, Codes
  <2>2. FailureReport(class, code, n, max) \in [class : ErrorClasses, code : Codes, attempt : Attempts, max : Nat \ {0}]
    BY <2>1 DEF FailureReport
  <2> QED
    BY <1>4, <1>6, <2>2
<1>7. ASSUME At(w, "failing"),
             Files(w, "filing", job, FailureReport(ClassifyError(worker[w].op), worker[w].op, Attempt(job), job.max))
      PROVE  RenderInv'
  <2>1. worker[w].op \in Codes
    BY <1>7, AtWork DEF At, WorkerKnows
  <2>2. FailureReport(ClassifyError(worker[w].op), worker[w].op, Attempt(job), job.max)
          \in [class : ErrorClasses, code : Codes, attempt : Attempts, max : Nat \ {0}]
    BY <1>5, <2>1, ClassesOf DEF FailureReport
  <2> QED
    BY <1>4, <1>7, <2>2
<1> QED
  BY <1>3, <1>6, <1>7 DEF ReadFailed, Rests

(* What a worker with a report has in hand.                                *)
LEMMA Reporting ==
    ASSUME RenderInv, NEW w \in RenderWorkers, worker[w] # Resting, worker[w].at \in {"filing", "filed", "saving"}
    PROVE  /\ worker[w].report \in [class : ErrorClasses, code : Codes, attempt : Attempts, max : Nat \ {0}]
           /\ worker[w].copy \in JobType /\ JobBacked(worker[w].copy, artifacts)
           /\ FactOf(worker[w]) \in Attempts \X Codes
<1>1. worker[w].report \in FailureReports /\ worker[w].report # Unreported
  BY AtWork DEF Working, WorkerKnows
<1> QED
  BY <1>1, AtWork DEF FailureReports, FactOf

LEMMA FailuresFiled ==
    ASSUME RenderInv, NEW w \in RenderWorkers, FileFailure(w)
    PROVE  RenderInv'
<1>1. worker[w] # Resting /\ worker[w].at = "filing" /\ UNCHANGED <<job, objects, artifacts, schedules, retried, tasks>>
  BY DEF FileFailure, At
<1>2. PICK r : r = worker[w].report
  OBVIOUS
<1>3. PICK copy : copy = worker[w].copy
  OBVIOUS
<1>4. /\ r \in [class : ErrorClasses, code : Codes, attempt : Attempts, max : Nat \ {0}]
      /\ copy \in JobType /\ JobBacked(copy, artifacts) /\ <<r.attempt, r.code>> \in Attempts \X Codes
  BY <1>1, <1>2, <1>3, Reporting DEF FactOf
<1>5. JobKept'
  BY <1>1 DEF RenderInv, JobKept, JobBacked
<1>6. CASE <<r.attempt, r.code>> \in failures
  <2>1. UNCHANGED failures /\ worker' = [worker EXCEPT ![w] = Resting]
    BY <1>2, <1>6 DEF FileFailure, Rests
  <2>2. StoreKept'
    BY <1>1, <2>1 DEF RenderInv, StoreKept
  <2> QED
    BY <1>1, <1>5, <2>1, <2>2, RestIs, RenderGoesOn DEF NoneAdded
<1>7. CASE <<r.attempt, r.code>> \notin failures
  <2> DEFINE s == Doing("filed", copy, NoRetry, "none", r)
  <2>1. failures' = failures \cup {<<r.attempt, r.code>>} /\ worker' = [worker EXCEPT ![w] = s]
    BY <1>2, <1>3, <1>7 DEF FileFailure, Files
  <2>2. s \in Working /\ ~Carries(s) /\ s.report = r /\ WorkerKnows(s, objects', artifacts')
    BY <1>1, <1>4, ReportTaken
  <2> HIDE DEF s
  <2>3. SchedulesKept(schedules, failures, retried)
    BY DEF RenderInv, StoreKept
  <2>4. SchedulesKept(schedules', failures', retried')
    BY <1>1, <1>4, <2>1, <2>3 DEF SchedulesKept
  <2>5. StoreKept'
    BY <1>1, <2>4 DEF RenderInv, StoreKept
  <2>6. ItsOwn(s, schedules', failures', retried')
    BY <1>1, <1>4, <1>7, <2>1, <2>2, <2>3 DEF ItsOwn, FactOf, SchedulesKept
  <2>7. ASSUME NEW v \in RenderWorkers, v # w
        PROVE  ItsOwn(worker[v], schedules', failures', retried') /\ Apart(s, worker[v]) /\ Apart(worker[v], s)
    <3>1. ItsOwn(worker[v], schedules, failures, retried)
      BY DEF RenderInv
    <3> QED
      BY <1>1, <1>7, <2>1, <2>2, <3>1 DEF ItsOwn, Apart, FactOf
  <2> QED
    BY <1>1, <1>5, <2>1, <2>2, <2>5, <2>6, <2>7, RenderMoves
<1> QED
  BY <1>6, <1>7

LEMMA FailuresAnswered ==
    ASSUME RenderInv, NEW w \in RenderWorkers, AnswerFailure(w)
    PROVE  RenderInv'
<1>1. worker[w] # Resting /\ worker[w].at = "filed" /\ UNCHANGED <<job, objects, artifacts, retried, failures>>
  BY DEF AnswerFailure, At
<1>2. PICK r : r = worker[w].report
  OBVIOUS
<1>3. PICK copy : copy = worker[w].copy
  OBVIOUS
<1>4. PICK status : status = AfterFailure(r)
  OBVIOUS
<1>5. /\ r \in [class : ErrorClasses, code : Codes, attempt : Attempts, max : Nat \ {0}]
      /\ copy \in JobType /\ JobBacked(copy, artifacts)
  BY <1>1, <1>2, <1>3, Reporting
<1> DEFINE s == Doing("saving", copy, NoRetry, "none", r)
<1>6. /\ worker' = [worker EXCEPT ![w] = s]
      /\ schedules' = IF status # "retry_scheduled" THEN schedules
                      ELSE [schedules EXCEPT ![r.attempt] = [status |-> "scheduled", code |-> r.code]]
      /\ tasks' = IF status \in {"unknown", "dead_letter"} /\ tasks[r.class] = "none"
                  THEN [tasks EXCEPT ![r.class] = "queued"] ELSE tasks
  BY <1>2, <1>3, <1>4 DEF AnswerFailure, Files
<1>7. s \in Working /\ ~Carries(s) /\ ~Filed(s) /\ WorkerKnows(s, objects', artifacts')
  BY <1>1, <1>5, ReportTaken
<1> HIDE DEF s
<1>8. JobKept'
  BY <1>1 DEF RenderInv, JobKept, JobBacked
<1>9. tasks' \in [ErrorClasses -> {"none", "queued", "completed"}]
  BY <1>5, <1>6 DEF RenderInv, StoreKept
<1>10. SchedulesKept(schedules, failures, retried)
  BY DEF RenderInv, StoreKept
<1>11. CASE status # "retry_scheduled"
  <2>1. schedules' = schedules
    BY <1>6, <1>11
  <2>2. StoreKept'
    BY <1>1, <1>9, <2>1 DEF RenderInv, StoreKept
  <2> QED
    BY <1>1, <1>6, <1>7, <1>8, <2>1, <2>2, RenderGoesOn DEF NoneAdded
<1>12. CASE status = "retry_scheduled"
  <2>1. PICK row : row = [status |-> "scheduled", code |-> r.code]
    OBVIOUS
  <2>2. schedules' = [schedules EXCEPT ![r.attempt] = row] /\ row.status = "scheduled"
        /\ row.code = r.code /\ row \in ScheduleRows
    BY <1>5, <1>6, <1>12, <2>1 DEF ScheduleRows
  <2>3. <<r.attempt, r.code>> \in failures /\ <<r.attempt, r.code>> \notin retried
    BY <1>1, <1>2 DEF RenderInv, ItsOwn, Filed, FactOf
  <2>4. SchedulesKept(schedules', failures', retried')
    BY <1>1, <1>5, <1>10, <2>2, <2>3 DEF SchedulesKept
  <2>5. StoreKept'
    BY <1>1, <1>9, <2>4 DEF RenderInv, StoreKept
  <2>6. ItsOwn(s, schedules', failures', retried')
    BY <1>7 DEF ItsOwn
  <2>7. ASSUME NEW v \in RenderWorkers, v # w
        PROVE  ItsOwn(worker[v], schedules', failures', retried') /\ Apart(s, worker[v]) /\ Apart(worker[v], s)
    <3>1. ItsOwn(worker[v], schedules, failures, retried) /\ Apart(worker[v], worker[w])
      BY <2>7 DEF RenderInv
    <3>2. Filed(worker[v]) => worker[v].report.attempt \in Attempts
      BY AtWork DEF Filed, WorkerKnows, Working, FailureReports
    <3>3. Filed(worker[v]) => FactOf(worker[v]) # <<r.attempt, r.code>>
      BY <1>1, <1>2, <3>1 DEF Apart, Filed, FactOf
    <3>4. ItsOwn(worker[v], schedules', failures', retried')
      BY <1>1, <1>5, <1>10, <2>2, <3>1, <3>2, <3>3 DEF ItsOwn, FactOf, SchedulesKept
    <3> QED
      BY <1>7, <3>4 DEF Apart
  <2> QED
    BY <1>1, <1>6, <1>7, <1>8, <2>5, <2>6, <2>7, RenderMoves
<1> QED
  BY <1>11, <1>12

LEMMA FailuresSaved ==
    ASSUME RenderInv, NEW w \in RenderWorkers, SaveFailure(w)
    PROVE  RenderInv'
<1>1. worker[w] # Resting /\ worker[w].at = "saving" /\ UNCHANGED <<objects, artifacts, schedules, retried, failures, tasks>>
      /\ worker' = [worker EXCEPT ![w] = Resting]
  BY DEF SaveFailure, At, Rests
<1>2. PICK r : r = worker[w].report
  OBVIOUS
<1>3. PICK copy : copy = worker[w].copy
  OBVIOUS
<1>4. PICK status : status = AfterFailure(r)
  OBVIOUS
<1>5. /\ r \in [class : ErrorClasses, code : Codes, attempt : Attempts, max : Nat \ {0}]
      /\ copy \in JobType /\ JobBacked(copy, artifacts)
  BY <1>1, <1>2, <1>3, Reporting
<1>6. status \in JobStates /\ status # "succeeded"
  BY <1>4 DEF AfterFailure, JobStates
<1>7. job' = [copy EXCEPT !.status = status, !.max = r.max]
  BY <1>2, <1>3, <1>4 DEF SaveFailure
<1>8. job' \in JobType /\ job'.arts = copy.arts /\ job'.status = status
  BY <1>5, <1>6, <1>7 DEF JobType
<1>9. JobKept'
  BY <1>1, <1>5, <1>6, <1>8 DEF JobKept, JobBacked
<1>10. StoreKept'
  BY <1>1 DEF RenderInv, StoreKept
<1> QED
  BY <1>1, <1>9, <1>10, RestIs, RenderGoesOn DEF NoneAdded

LEMMA CommandsBegin ==
    ASSUME RenderInv, NEW w \in RenderWorkers, NEW op \in RenderCommands, BeginCommand(w, op)
    PROVE  RenderInv'
<1> DEFINE s == Doing("deciding", job, NoRetry, op, Unreported)
<1>1. /\ UNCHANGED <<job, objects, artifacts, schedules, retried, failures, tasks>>
      /\ worker' = [worker EXCEPT ![w] = s] /\ MayBegin(op)
  BY DEF BeginCommand, Goes
<1>2. JobKept' /\ StoreKept' /\ job \in JobType /\ JobBacked(job, artifacts)
  BY <1>1 DEF RenderInv, JobKept, JobBacked, StoreKept
<1>3. op \in Manual
  BY RenderAssumption
<1>4. s \in Working /\ s # Resting /\ s.at = "deciding" /\ s.copy = job /\ s.retry = NoRetry /\ s.op = op
  <2>1. op \in RenderOps /\ "deciding" \in RenderSteps /\ Unreported \in FailureReports
    BY <1>3 DEF RenderSteps, RenderOps, FailureReports
  <2> QED
    BY <1>2, <2>1, DoingIs
<1>5. op = "succeeded" => job.arts # {}
  BY <1>1 DEF MayBegin
<1> HIDE DEF s
<1>6. WorkerKnows(s, objects', artifacts') /\ ~Filed(s) /\ ~Carries(s)
  BY <1>1, <1>2, <1>3, <1>4, <1>5 DEF WorkerKnows, Filed, Carries
<1> QED
  BY <1>1, <1>2, <1>4, <1>6, RenderGoesOn DEF NoneAdded

LEMMA ShotsRerendered ==
    ASSUME RenderInv, NEW w \in RenderWorkers, RerenderShot(w)
    PROVE  RenderInv'
<1>1. worker[w] # Resting /\ worker' = [worker EXCEPT ![w] = Resting] /\ UNCHANGED <<schedules, retried, failures, tasks>>
  BY DEF RerenderShot, At, Rests
<1>2. CASE /\ objects' = objects \cup {"shot"} /\ artifacts' = artifacts \cup {"shot"}
           /\ job' = [worker[w].copy EXCEPT !.arts = @ \cup {"shot"}]
  <2>1. job' \in JobType /\ job'.status = worker[w].copy.status /\ job'.arts = worker[w].copy.arts \cup {"shot"}
    BY <1>1, <1>2, AtWork DEF JobType, Scopes2
  <2>2. JobKept'
    BY <1>1, <1>2, <2>1, AtWork DEF JobKept, JobBacked
  <2>3. StoreKept'
    BY <1>1, <1>2 DEF RenderInv, StoreKept, Scopes2
  <2> QED
    BY <1>1, <1>2, <2>2, <2>3, RestIs, RenderGoesOn DEF NoneAdded
<1>3. CASE objects' \in {objects, objects \cup {"shot"}} /\ UNCHANGED <<job, artifacts>>
  <2>1. JobKept'
    BY <1>3 DEF RenderInv, JobKept, JobBacked
  <2>2. StoreKept' /\ objects \subseteq objects'
    BY <1>1, <1>3 DEF RenderInv, StoreKept, Scopes2
  <2> QED
    BY <1>1, <1>3, <2>1, <2>2, RestIs, RenderGoesOn DEF NoneAdded
<1> QED
  BY <1>2, <1>3 DEF RerenderShot

LEMMA Decides ==
    ASSUME RenderInv, NEW w \in RenderWorkers, Decide(w)
    PROVE  RenderInv'
<1> DEFINE op == worker[w].op
           status == IF op \in {"bury", "force"} THEN "dead_letter" ELSE op
<1>1. /\ worker[w] # Resting /\ worker[w].at = "deciding" /\ op # "rerender"
      /\ job' = [worker[w].copy EXCEPT !.status = status]
      /\ worker' = [worker EXCEPT ![w] = Resting]
      /\ UNCHANGED <<objects, artifacts, schedules, retried, failures>>
  BY DEF Decide, At, Rests
<1>2. worker[w].copy \in JobType /\ JobBacked(worker[w].copy, artifacts) /\ (op = "succeeded" => worker[w].copy.arts # {})
  BY <1>1, AtWork DEF WorkerKnows
<1>3. status \in JobStates
  BY <1>1, AtWork DEF WorkerKnows, Manual, JobStates
<1>4. status = "succeeded" => op = "succeeded"
  OBVIOUS
<1> HIDE DEF status, op
<1>5. job' \in JobType /\ job'.arts = worker[w].copy.arts /\ job'.status = status
  BY <1>1, <1>2, <1>3, WrittenBack
<1>6. JobKept'
  BY <1>1, <1>2, <1>4, <1>5 DEF JobKept, JobBacked
<1>7. tasks' \in [ErrorClasses -> {"none", "queued", "completed"}]
  BY DEF Decide, RenderInv, StoreKept
<1>8. StoreKept'
  BY <1>1, <1>7 DEF RenderInv, StoreKept
<1> QED
  BY <1>1, <1>6, <1>8, RestIs, RenderGoesOn DEF NoneAdded

LEMMA RenderSteps1 == ASSUME RenderInv, RenderNext PROVE RenderInv'
<1> PICK w \in RenderWorkers :
        \/ StartRender(w) \/ RenderFails(w) \/ PutObject(w) \/ Confirm(w)
        \/ \E n \in Attempts : FindDue(w, n)
        \/ ClaimDue(w) \/ RunRetry(w)
        \/ ReadFailed(w) \/ FileFailure(w) \/ AnswerFailure(w) \/ SaveFailure(w)
        \/ \E op \in RenderCommands : BeginCommand(w, op)
        \/ RerenderShot(w) \/ Decide(w)
  BY DEF RenderNext
<1>1. CASE StartRender(w)
  BY <1>1, ClaimsRunning DEF StartRender
<1>2. CASE RenderFails(w) \/ PutObject(w) \/ Confirm(w)
  BY <1>2, RendersFail, ObjectsPut, Confirms
<1>3. CASE (\E n \in Attempts : FindDue(w, n)) \/ ClaimDue(w) \/ RunRetry(w)
  BY <1>3, DueFound, DueClaimed, RetriesRun
<1>4. CASE ReadFailed(w) \/ FileFailure(w) \/ AnswerFailure(w) \/ SaveFailure(w)
  BY <1>4, FailuresRead, FailuresFiled, FailuresAnswered, FailuresSaved
<1>5. CASE (\E op \in RenderCommands : BeginCommand(w, op)) \/ RerenderShot(w) \/ Decide(w)
  BY <1>5, CommandsBegin, ShotsRerendered, Decides
<1> QED
  BY <1>1, <1>2, <1>3, <1>4, <1>5

-----------------------------------------------------------------------------
(* What is checked of an asset. A report is what its findings make of the  *)
(* facts it was made of, and a lineage what they were when it was filed.   *)
FactsOf(d) == \A f \in Gradings : d[f] \in GradesOf(f)

MediaFindings(d) == FileFindings(d) \cup ProbeFindings(d) \cup SubtitleFindings(d)
ContentFindings(d) == TokenFindings(d) \cup LabelFindings(d) \cup AssetRightsFindings(d)

LineageOf(l) ==
    /\ l.rights = Supplied(l.facts, AssetRights) /\ l.claims \subseteq AssetClaims
    /\ l.facts["names"] = "all" => l.rights = AssetRights
    /\ l.status = LineageStatus(l.facts, l.claims, l.rights)

FoundGraded == found = [f \in Gradings |-> found[f]] /\ FactsOf(found)

ReportsStand ==
    /\ qa = [c \in {"media", "content"} |-> qa[c]]
    /\ qa["media"].status # "none" =>
           FactsOf(qa["media"].facts) /\ qa["media"].status = StatusOf(MediaFindings(qa["media"].facts))
    /\ qa["content"].status # "none" =>
           FactsOf(qa["content"].facts) /\ qa["content"].status = StatusOf(ContentFindings(qa["content"].facts))

LineagesStand ==
    /\ \E S : lineages \in Seq(S)
    /\ \A n \in DOMAIN lineages : LineageOf(lineages[n])
    /\ \E S : edgeAt \in Seq(S)
    /\ lineages # <<>> =>
          LET l == lineages[Len(lineages)]
          IN  /\ {"variant"} \cup l.claims \cup l.rights \subseteq {edgeAt[n] : n \in DOMAIN edgeAt}
              /\ standing = "made" => l.status = "valid"

CheckInv == FoundGraded /\ ReportsStand /\ LineagesStand

LEMMA ChecksStart == CheckInit => CheckInv
<1> SUFFICES ASSUME CheckInit
             PROVE  CheckInv
  OBVIOUS
<1>1. \A f \in Gradings : AllGood[f] \in GradesOf(f)
  <2> SUFFICES ASSUME NEW f \in Gradings
               PROVE  AllGood[f] \in GradesOf(f)
    OBVIOUS
  <2>1. CASE f \in FileFacts
    BY <2>1, CheckBounds DEF AllGood, GradesOf, FileFacts
  <2>2. CASE f \in {"text", "label", "port", "variant", "names"}
    BY <2>2, CheckBounds DEF AllGood, GradesOf, FileFacts
  <2>3. CASE f \in Grounds
    BY <2>3, CheckBounds DEF AllGood, GradesOf, FileFacts
  <2> QED
    BY <2>1, <2>2, <2>3 DEF Gradings
<1>2. found = AllGood /\ AllGood = [f \in Gradings |-> AllGood[f]]
  BY DEF CheckInit, AllGood
<1>3. qa = [c \in {"media", "content"} |-> NoReportYet] /\ lineages = <<>> /\ edgeAt = <<>>
  BY DEF CheckInit
<1>4. NoReportYet.status = "none"
  BY DEF NoReportYet
<1> HIDE DEF AllGood
<1>5. <<>> \in Seq({})
  OBVIOUS
<1>6. DOMAIN lineages = {}
  BY <1>3
<1> QED
  BY <1>1, <1>2, <1>3, <1>4, <1>5, <1>6 DEF CheckInv, FoundGraded, ReportsStand, LineagesStand, FactsOf

(* The facts of a file and of an asset, as they are graded.                *)
LEMMA Graded ==
    ASSUME NEW d, FactsOf(d)
    PROVE  /\ d["ref"] \in {"private", "public"} /\ d["declared"] \in {"good", "bad"}
           /\ \A f \in {"head", "bytes"} : d[f] \in {"same", "differs", "missing", "unavailable"}
           /\ \A f \in {"visual", "audio"} : d[f] \in {"same", "differs", "silent"}
           /\ d["probe"] \in {"answers", "unavailable"} /\ d["subtitle"] \in {"there", "missing"}
           /\ \A f \in {"sound", "tracks"} : d[f] \in {"wanted", "unwanted"}
           /\ d["track"] \in {"named", "other", "missing"} /\ d["cues"] \in {"good", "bad"}
           /\ d["text"] \in {"same", "reordered", "changed", "unread"} /\ d["label"] \in {"good", "bad"}
           /\ d["port"] \in {"agrees", "refuses", "fails"} /\ d["names"] \in {"all", "none"}
<1>1. \A f \in FileFacts \cup {"text", "label", "port", "variant", "names"} : d[f] \in GradesOf(f)
  BY DEF FactsOf, Gradings
<1>0. \A f \in FileFacts \cup {"text", "label", "port", "variant", "names"} : f \notin Grounds
  BY CheckBounds
<1>2. d["ref"] \in {"private", "public"}
  BY <1>0, <1>1 DEF FileFacts, GradesOf
<1>3. \A f \in {"head", "bytes"} : d[f] \in {"same", "differs", "missing", "unavailable"}
  BY <1>0, <1>1 DEF FileFacts, GradesOf
<1>4. \A f \in {"visual", "audio"} : d[f] \in {"same", "differs", "silent"}
  BY <1>0, <1>1 DEF FileFacts, GradesOf
<1>5. d["probe"] \in {"answers", "unavailable"} /\ d["subtitle"] \in {"there", "missing"}
  BY <1>0, <1>1 DEF FileFacts, GradesOf
<1>6. \A f \in {"sound", "tracks"} : d[f] \in {"wanted", "unwanted"}
  BY <1>0, <1>1 DEF FileFacts, GradesOf
<1>7. d["track"] \in {"named", "other", "missing"}
  BY <1>0, <1>1 DEF FileFacts, GradesOf
<1>9. d["cues"] \in {"good", "bad"} /\ d["label"] \in {"good", "bad"} /\ d["declared"] \in {"good", "bad"}
  BY <1>0, <1>1 DEF FileFacts, GradesOf
<1>10. d["text"] \in {"same", "reordered", "changed", "unread"}
  BY <1>0, <1>1 DEF GradesOf
<1>11. d["port"] \in {"agrees", "refuses", "fails"} /\ d["names"] \in {"all", "none"}
  BY <1>0, <1>1 DEF GradesOf
<1> QED
  BY <1>2, <1>3, <1>4, <1>5, <1>6, <1>7, <1>9, <1>10, <1>11

LEMMA StatusSays ==
    ASSUME NEW findings
    PROVE  /\ StatusOf(findings) = "passed" => findings = {}
           /\ StatusOf(findings) = "needs_review" => findings # {} /\ \A f \in findings : f[2] # "error"
           /\ StatusOf(findings) # "none"
BY DEF StatusOf

LEMMA FilesSound == CheckInv => FileSound
<1> SUFFICES ASSUME CheckInv
             PROVE  FileSound
  OBVIOUS
<1> DEFINE d == qa["media"].facts
           status == qa["media"].status
<1>1. status \in {"passed", "needs_review"} => FactsOf(d) /\ status = StatusOf(MediaFindings(d))
  BY DEF CheckInv, FoundGraded, ReportsStand, LineagesStand
<1> HIDE DEF d, status
<1>2. ASSUME status = "passed"
      PROVE  /\ d["ref"] = "private" /\ d["head"] = "same" /\ d["bytes"] = "same" /\ d["declared"] = "good"
             /\ d["probe"] = "answers" /\ d["visual"] = "same"
             /\ d["sound"] = "wanted" => d["audio"] = "same"
             /\ d["tracks"] = "wanted" => d["subtitle"] = "there" /\ d["track"] # "missing" /\ d["cues"] = "good"
  <2>1. FileFindings(d) = {} /\ ProbeFindings(d) = {} /\ SubtitleFindings(d) = {}
    BY <1>1, <1>2, StatusSays DEF MediaFindings
  <2>2. FactsOf(d)
    BY <1>1, <1>2
  <2>3. d["ref"] = "private" /\ d["head"] = "same" /\ d["bytes"] = "same" /\ d["declared"] = "good"
    BY <2>1, <2>2, Graded DEF FileFindings, ReadFindings, Wrong, Doubt
  <2>4. d["probe"] = "answers" /\ d["visual"] = "same" /\ (d["sound"] = "wanted" => d["audio"] = "same")
    BY <2>1, <2>2, Graded DEF ProbeFindings, Compared, Wrong, Doubt
  <2>5. d["tracks"] = "wanted" => d["subtitle"] = "there" /\ d["track"] # "missing" /\ d["cues"] = "good"
    BY <2>1, <2>2, Graded DEF SubtitleFindings, CueFindings, Wrong
  <2> QED
    BY <2>3, <2>4, <2>5
<1>3. ASSUME status = "needs_review",
             \A f \in {"head", "bytes", "probe", "visual", "audio"} : d[f] \notin {"unavailable", "silent"}
      PROVE  FALSE
  <2>1. MediaFindings(d) # {} /\ \A f \in MediaFindings(d) : f[2] # "error"
    BY <1>1, <1>3, StatusSays
  <2>2. FactsOf(d)
    BY <1>1, <1>3
  <2>3. \A f \in FileFindings(d) : f[2] = "error"
    BY <1>3, <2>2, Graded DEF FileFindings, ReadFindings, Wrong, Doubt
  <2>4. \A f \in ProbeFindings(d) : f[2] = "error"
    BY <1>3, <2>2, Graded DEF ProbeFindings, Compared, Wrong, Doubt
  <2>5. \A f \in SubtitleFindings(d) : f[2] = "error"
    BY <2>2, Graded DEF SubtitleFindings, CueFindings, Wrong
  <2> QED
    BY <2>1, <2>3, <2>4, <2>5 DEF MediaFindings
<1>4. status = "needs_review" =>
         {"unavailable", "silent"} \cap {d[f] : f \in {"head", "bytes", "probe", "visual", "audio"}} # {}
  BY <1>3
<1> QED
  BY <1>2, <1>4 DEF FileSound, d, status

LEMMA ContentsSound == CheckInv => ContentSound
<1> SUFFICES ASSUME CheckInv
             PROVE  ContentSound
  OBVIOUS
<1> DEFINE d == qa["content"].facts
           status == qa["content"].status
<1> SUFFICES ASSUME status = "passed"
             PROVE  /\ d["label"] = "good" /\ d["text"] \in {"same", "reordered"}
                    /\ \E r \in AssetRights : d[r] = "good"
                    /\ d["names"] = "all" => \A r \in AssetRights : d[r] # "missing"
  BY DEF ContentSound
<1>1. FactsOf(d) /\ status = StatusOf(ContentFindings(d))
  BY DEF CheckInv, FoundGraded, ReportsStand, LineagesStand
<1> HIDE DEF d, status
<1>2. TokenFindings(d) = {} /\ LabelFindings(d) = {} /\ AssetRightsFindings(d) = {}
  BY <1>1, StatusSays DEF ContentFindings
<1>3. d["label"] = "good" /\ d["text"] \in {"same", "reordered"}
  <2>1. d["text"] \in {"same", "reordered", "changed", "unread"} /\ d["label"] \in {"good", "bad"}
    BY <1>1, Graded
  <2> QED
    BY <1>2, <2>1 DEF TokenFindings, LabelFindings, Wrong, Doubt
<1>4. ~NamedMissing(d) /\ {r \in Supplied(d, AssetRights) : d[r] = "good"} # {}
  BY <1>2 DEF AssetRightsFindings, Wrong
<1> QED
  BY <1>3, <1>4 DEF NamedMissing, NamedRights, Supplied

LEMMA LineagesAgree == CheckInv => RightsAgree
<1> SUFFICES ASSUME CheckInv, NEW n \in DOMAIN lineages,
                    lineages[n].status = "valid", lineages[n].rights # {}, lineages[n].facts["port"] = "agrees"
             PROVE  AssetRightsFindings(lineages[n].facts) = {}
  BY DEF RightsAgree
<1>1. LineageOf(lineages[n])
  BY DEF CheckInv, FoundGraded, ReportsStand, LineagesStand
<1>2. \A r \in lineages[n].rights : lineages[n].facts[r] = "good"
  BY <1>1 DEF LineageOf, LineageStatus
<1> QED
  BY <1>1, <1>2 DEF LineageOf, AssetRightsFindings, NamedMissing, NamedRights, Supplied

LEMMA LastFiled == CheckInv => EdgesFiled
<1> SUFFICES ASSUME CheckInv, lineages # <<>>
             PROVE  LET l == lineages[Len(lineages)]
                    IN  /\ {"variant"} \cup l.claims \cup l.rights \subseteq {edgeAt[n] : n \in DOMAIN edgeAt}
                        /\ standing = "made" => l.status = "valid" /\ \A t \in l.claims \cup l.rights : l.facts[t] = "good"
  BY DEF EdgesFiled, Last
<1>1. Len(lineages) \in DOMAIN lineages
  BY DEF CheckInv, FoundGraded, ReportsStand, LineagesStand
<1> DEFINE l == lineages[Len(lineages)]
<1>2. LineageOf(l) /\ {"variant"} \cup l.claims \cup l.rights \subseteq {edgeAt[n] : n \in DOMAIN edgeAt}
      /\ (standing = "made" => l.status = "valid")
  BY <1>1 DEF CheckInv, FoundGraded, ReportsStand, LineagesStand
<1> HIDE DEF l
<1>3. l.status = "valid" => \A t \in l.claims \cup l.rights : l.facts[t] = "good"
  BY <1>2 DEF LineageOf, LineageStatus
<1> QED
  BY <1>2, <1>3 DEF l

(* Every member of a finite set is in the sequence made of it.             *)
LEMMA Sequenced ==
    ASSUME NEW S, IsFiniteSet(S)
    PROVE  /\ SetToSeq(S) \in Seq(S) /\ Len(SetToSeq(S)) = Cardinality(S)
           /\ \A x \in S : \E n \in 1 .. Cardinality(S) : SetToSeq(S)[n] = x
<1> DEFINE n == Cardinality(S)
           D == 1 .. Cardinality(S)
<1>1. n \in Nat /\ ExistsBijection(D, S)
  BY FS_CardinalityType
<1>2. \E f \in [D -> S] : IsInjective(f)
  BY <1>1 DEF ExistsBijection, Bijection, Injection
<1>3. SetToSeq(S) \in [D -> S] /\ IsInjective(SetToSeq(S))
  BY <1>2 DEF SetToSeq
<1>4. SetToSeq(S) \in Injection(D, S)
  BY <1>3 DEF Injection
<1>5. IsFiniteSet(D) /\ Cardinality(D) = n
  BY <1>1, FS_Interval
<1>6. SetToSeq(S) \in Surjection(D, S)
  BY <1>4, <1>5, FS_Injection
<1>7. \A x \in S : \E m \in D : SetToSeq(S)[m] = x
  BY <1>6 DEF Surjection
<1>8. SetToSeq(S) \in Seq(S) /\ Len(SetToSeq(S)) = n
  BY <1>1, <1>3
<1> QED
  BY <1>7, <1>8

LEMMA SourcesNamed ==
    ASSUME NEW claims \in SUBSET AssetClaims, NEW cleared \in SUBSET AssetRights
    PROVE  /\ \E S : LineageSources(claims, cleared) \in Seq(S)
           /\ \A x \in {"variant"} \cup claims \cup cleared :
                 \E n \in 1 .. Len(LineageSources(claims, cleared)) : LineageSources(claims, cleared)[n] = x
<1>1. IsFiniteSet(claims) /\ IsFiniteSet(cleared)
  BY CheckBounds, FS_Subset
<1> DEFINE all == {"variant"} \cup claims \cup cleared
           a == <<"variant">>
           b == SetToSeq(claims)
           c == SetToSeq(cleared)
<1>2. b \in Seq(claims) /\ c \in Seq(cleared) /\ a \in Seq(all)
  BY <1>1, Sequenced
<1>3. (\A x \in claims : \E n \in 1 .. Len(b) : b[n] = x) /\ (\A x \in cleared : \E n \in 1 .. Len(c) : c[n] = x)
  BY <1>1, Sequenced
<1>4. b \in Seq(all) /\ c \in Seq(all)
  BY <1>2, SeqMonotonic
<1>5. Len(a) = 1 /\ a[1] = "variant" /\ Len(b) \in Nat /\ Len(c) \in Nat
  BY <1>4
<1> HIDE DEF a, b, c, all
<1>6. a \o b \in Seq(all) /\ (a \o b) \o c \in Seq(all) /\ Len((a \o b) \o c) = 1 + Len(b) + Len(c)
  <2>1. a \o b \in Seq(all) /\ Len(a \o b) = 1 + Len(b)
    <3>1. a \in Seq(all) /\ b \in Seq(all)
      BY <1>2, <1>4
    <3>2. a \o b \in Seq(all) /\ Len(a \o b) = Len(a) + Len(b)
      BY <3>1, ConcatProperties
    <3> QED
      BY <1>5, <3>2
  <2>2. a \o b \in Seq(all) /\ c \in Seq(all)
    BY <1>4, <2>1
  <2>3. (a \o b) \o c \in Seq(all) /\ Len((a \o b) \o c) = Len(a \o b) + Len(c)
    BY <2>2, ConcatProperties
  <2> QED
    BY <2>1, <2>3
<1>7. ((a \o b) \o c)[1] = "variant"
  BY <1>2, <1>4, <1>5, <1>6
<1>8. \A n \in 1 .. Len(b) : ((a \o b) \o c)[1 + n] = b[n]
  BY <1>2, <1>4, <1>5, <1>6
<1>9. \A n \in 1 .. Len(c) : ((a \o b) \o c)[1 + Len(b) + n] = c[n]
  BY <1>2, <1>4, <1>5, <1>6
<1>10. LineageSources(claims, cleared) = (a \o b) \o c
  BY DEF LineageSources, a, b, c
<1> DEFINE w == (a \o b) \o c
<1>11. w \in Seq(all) /\ Len(w) = 1 + Len(b) + Len(c) /\ w[1] = "variant"
       /\ (\A n \in 1 .. Len(b) : w[1 + n] = b[n]) /\ (\A n \in 1 .. Len(c) : w[1 + Len(b) + n] = c[n])
  BY <1>6, <1>7, <1>8, <1>9
<1> HIDE DEF w
<1>12. ASSUME NEW x \in all
       PROVE  \E n \in 1 .. Len(w) : w[n] = x
  <2>1. CASE x = "variant"
    BY <1>5, <1>11, <2>1
  <2>2. CASE x \in claims
    <3>1. PICK n \in 1 .. Len(b) : b[n] = x
      BY <1>3, <2>2
    <3> QED
      BY <1>5, <1>11, <3>1
  <2>3. CASE x \in cleared
    <3>1. PICK n \in 1 .. Len(c) : c[n] = x
      BY <1>3, <2>3
    <3> QED
      BY <1>5, <1>11, <3>1
  <2> QED
    BY <2>1, <2>2, <2>3 DEF all
<1> QED
  BY <1>10, <1>11, <1>12 DEF all, w

LEMMA LineagesKeep ==
    ASSUME LineagesStand, UNCHANGED <<lineages, edgeAt>>, standing' = "made" => standing = "made"
    PROVE  LineagesStand'
<1>1. \A n \in DOMAIN lineages : lineages'[n] = lineages[n]
  OBVIOUS
<1>2. (\E S : lineages' \in Seq(S)) /\ (\E S : edgeAt' \in Seq(S))
  BY DEF LineagesStand
<1>3. \A n \in DOMAIN lineages' : LineageOf(lineages'[n])
  BY DEF LineagesStand
<1> QED
  BY <1>2, <1>3 DEF LineagesStand

LEMMA ReportsKeep ==
    ASSUME ReportsStand, UNCHANGED qa
    PROVE  ReportsStand'
BY DEF ReportsStand

LEMMA ChecksKeep == CheckInv /\ UNCHANGED checkVars => CheckInv'
<1> SUFFICES ASSUME CheckInv, UNCHANGED checkVars
             PROVE  CheckInv'
  OBVIOUS
<1>1. FoundGraded'
  BY DEF CheckInv, FoundGraded, checkVars
<1> QED
  BY <1>1, LineagesKeep, ReportsKeep DEF CheckInv, checkVars

LEMMA FactsChange ==
    ASSUME CheckInv, NEW f \in Gradings, NEW grade \in GradesOf(f), FactChanges(f, grade)
    PROVE  CheckInv'
<1>1. found' = [found EXCEPT ![f] = grade] /\ UNCHANGED <<qa, lineages, edgeAt, standing>>
  BY DEF FactChanges
<1>2. found = [g \in Gradings |-> found[g]] /\ \A g \in Gradings : found[g] \in GradesOf(g)
  BY DEF CheckInv, FoundGraded, FactsOf
<1>3. found' = [g \in Gradings |-> found'[g]] /\ \A g \in Gradings : found'[g] \in GradesOf(g)
  BY <1>1, <1>2
<1>4. FoundGraded'
  BY <1>3 DEF FoundGraded, FactsOf
<1> QED
  BY <1>1, <1>4, LineagesKeep, ReportsKeep DEF CheckInv

LEMMA ReportsFiled ==
    ASSUME CheckInv, NEW check \in {"media", "content"}, NEW findings, FileReport(check, findings),
           check = "media" => findings = MediaFindings(found),
           check = "content" => findings = ContentFindings(found)
    PROVE  CheckInv'
<1> DEFINE report == [facts |-> found, status |-> StatusOf(findings)]
<1>1. qa' = [qa EXCEPT ![check] = report] /\ UNCHANGED <<found, lineages, edgeAt, standing>>
  BY DEF FileReport
<1>2. report.facts = found /\ report.status = StatusOf(findings) /\ FactsOf(found)
  BY DEF CheckInv, FoundGraded
<1> HIDE DEF report
<1>3. qa' = [c \in {"media", "content"} |-> qa'[c]] /\ qa'[check] = report
      /\ \A c \in {"media", "content"} \ {check} : qa'[c] = qa[c]
  BY <1>1 DEF CheckInv, ReportsStand
<1>4. qa'["media"].status # "none" =>
           FactsOf(qa'["media"].facts) /\ qa'["media"].status = StatusOf(MediaFindings(qa'["media"].facts))
  BY <1>2, <1>3 DEF CheckInv, ReportsStand
<1>5. qa'["content"].status # "none" =>
           FactsOf(qa'["content"].facts) /\ qa'["content"].status = StatusOf(ContentFindings(qa'["content"].facts))
  BY <1>2, <1>3 DEF CheckInv, ReportsStand
<1>6. FoundGraded'
  BY <1>1 DEF CheckInv, FoundGraded
<1>7. ReportsStand'
  BY <1>3, <1>4, <1>5 DEF ReportsStand
<1> QED
  BY <1>1, <1>6, <1>7, LineagesKeep DEF CheckInv

LEMMA VersionsFiled ==
    ASSUME CheckInv, NEW claims \in SUBSET Supplied(found, AssetClaims), CreateAssetVersion(claims)
    PROVE  CheckInv'
<1> DEFINE cleared == Supplied(found, AssetRights)
           status == LineageStatus(found, claims, cleared)
           sources == LineageSources(claims, cleared)
           l == [claims |-> claims, rights |-> cleared, status |-> status, facts |-> found]
           long == IF Len(edgeAt) > Len(sources) THEN Len(edgeAt) ELSE Len(sources)
<1>1. /\ found["names"] = "all" => cleared = AssetRights
      /\ lineages' = Append(lineages, l)
      /\ edgeAt' = [n \in 1 .. long |-> IF n <= Len(sources) THEN sources[n] ELSE edgeAt[n]]
      /\ standing' = IF status = "valid" THEN "made" ELSE status
      /\ UNCHANGED <<found, qa>>
  BY DEF CreateAssetVersion, SaveLineage
<1>2. claims \in SUBSET AssetClaims /\ cleared \in SUBSET AssetRights
  BY DEF Supplied
<1>3. l.claims = claims /\ l.rights = cleared /\ l.status = status /\ l.facts = found
  OBVIOUS
<1>4. LineageOf(l)
  BY <1>1, <1>2, <1>3 DEF LineageOf
<1>5. PICK S : sources \in Seq(S)
  BY <1>2, SourcesNamed
<1>6. \A x \in {"variant"} \cup claims \cup cleared : \E n \in 1 .. Len(sources) : sources[n] = x
  BY <1>2, SourcesNamed
<1>7. PICK T : edgeAt \in Seq(T)
  BY DEF CheckInv, FoundGraded, ReportsStand, LineagesStand
<1> HIDE DEF l, sources, status, cleared, long
<1>8. Len(sources) \in Nat /\ Len(edgeAt) \in Nat /\ long \in Nat /\ Len(sources) <= long
  BY <1>5, <1>7 DEF long
<1>9. edgeAt' \in Seq(S \cup T)
  <2>1. \A n \in 1 .. long : (IF n <= Len(sources) THEN sources[n] ELSE edgeAt[n]) \in S \cup T
    BY <1>5, <1>7, <1>8 DEF long
  <2>2. edgeAt' \in [1 .. long -> S \cup T]
    BY <1>1, <2>1
  <2> QED
    BY <1>8, <2>2
<1>10. DOMAIN edgeAt' = 1 .. long /\ \A n \in 1 .. Len(sources) : edgeAt'[n] = sources[n]
  BY <1>1, <1>8
<1>11. {"variant"} \cup l.claims \cup l.rights \subseteq {edgeAt'[n] : n \in DOMAIN edgeAt'}
  <2>1. \A x \in {"variant"} \cup claims \cup cleared : \E n \in DOMAIN edgeAt' : edgeAt'[n] = x
    <3> SUFFICES ASSUME NEW x \in {"variant"} \cup claims \cup cleared
                 PROVE  \E n \in DOMAIN edgeAt' : edgeAt'[n] = x
      OBVIOUS
    <3>1. PICK n \in 1 .. Len(sources) : sources[n] = x
      BY <1>6
    <3>2. n \in DOMAIN edgeAt' /\ edgeAt'[n] = x
      BY <1>8, <1>10, <3>1
    <3> QED
      BY <3>2
  <2> QED
    BY <1>3, <2>1
<1>12. standing' = "made" => l.status = "valid"
  BY <1>1, <1>3 DEF status, LineageStatus
<1>13. PICK U : lineages \in Seq(U)
  BY DEF CheckInv, FoundGraded, ReportsStand, LineagesStand
<1>14. lineages \in Seq(U \cup {l}) /\ l \in U \cup {l}
  BY <1>13, SeqMonotonic
<1>15. /\ lineages' \in Seq(U \cup {l}) /\ Len(lineages') = Len(lineages) + 1
       /\ \A i \in 1 .. Len(lineages) : lineages'[i] = lineages[i]
       /\ lineages'[Len(lineages) + 1] = l
  BY <1>1, <1>14, AppendProperties
<1>16. Len(lineages) \in Nat /\ DOMAIN lineages = 1 .. Len(lineages) /\ DOMAIN lineages' = 1 .. Len(lineages) + 1
  BY <1>13, <1>15
<1>17. \A n \in DOMAIN lineages' : LineageOf(lineages'[n])
  BY <1>4, <1>15, <1>16 DEF CheckInv, FoundGraded, ReportsStand, LineagesStand
<1>18. lineages'[Len(lineages')] = l
  BY <1>15
<1>19. (\E V : lineages' \in Seq(V)) /\ (\E V : edgeAt' \in Seq(V))
  BY <1>9, <1>15
<1>20. LineagesStand'
  BY <1>11, <1>12, <1>17, <1>18, <1>19 DEF LineagesStand
<1>21. FoundGraded' /\ ReportsStand'
  BY <1>1, ReportsKeep DEF CheckInv, FoundGraded
<1> QED
  BY <1>20, <1>21 DEF CheckInv

LEMMA ChecksMove == ASSUME CheckInv, FileNext \/ AssetNext PROVE CheckInv'
<1>1. CASE \E f \in Gradings : \E grade \in GradesOf(f) : FactChanges(f, grade)
  BY <1>1, FactsChange
<1>2. CASE RunMediaQA
  BY <1>2, ReportsFiled DEF RunMediaQA, MediaFindings
<1>3. CASE RunContentQA
  BY <1>3, ReportsFiled DEF RunContentQA, SaveContentReport, ContentFindings
<1>4. CASE \E claims \in SUBSET Supplied(found, AssetClaims) : CreateAssetVersion(claims)
  BY <1>4, VersionsFiled
<1>5. CASE WithdrawAsset
  <2>1. standing' # "made" /\ UNCHANGED <<found, qa, lineages, edgeAt>>
    BY <1>5 DEF WithdrawAsset
  <2>2. FoundGraded'
    BY <2>1 DEF CheckInv, FoundGraded
  <2> QED
    BY <2>1, <2>2, LineagesKeep, ReportsKeep DEF CheckInv
<1>6. FileFacts \subseteq Gradings
  BY DEF Gradings
<1> QED
  BY <1>1, <1>2, <1>3, <1>4, <1>5, <1>6 DEF FileNext, AssetNext

-----------------------------------------------------------------------------
(* Video plans. What a version or a draft is made of, and what it follows, *)
(* is said of the rows made so far; rows are only added, so it stays so.   *)
Kinds == {"script", "board", "visuals", "subtitle", "spec"}
KeptAs(rows, kind) == {i \in DOMAIN rows : rows[i].line[1] = kind}
Peers(rows, line) == {i \in DOMAIN rows : rows[i].line = line}

MadeOf(rows, m) ==
    /\ m.script # 0 => m.script \in KeptAs(rows, "script") /\ m.duration = rows[m.script].duration
    /\ m.board # 0 => m.board \in KeptAs(rows, "board") /\ rows[m.board].script = m.script
    /\ m.visuals # 0 => /\ m.visuals \in KeptAs(rows, "visuals")
                        /\ rows[m.visuals].script = m.script
                        /\ rows[m.visuals].board = m.board

Fits(kind, body, m) ==
    /\ kind \in Kinds /\ m.duration \in Durations
    /\ kind = "script" => m.script = 0 /\ Spoken(m.words) <= SpokenBudget[m.duration]
    /\ kind \notin {"script", "spec"} => m.script # 0
    /\ kind \in {"script", "board"} => m.board = 0
    /\ kind = "spec" <=> m.visuals # 0
    /\ kind = "board" => body \in DOMAIN PlanOf /\ PlanFits(body, m.duration)
    /\ kind = "subtitle" => body \in DOMAIN CuesOf /\ TrackFits(body, m.duration)
    /\ kind = "visuals" => /\ body \in DOMAIN ItemsOf
                           /\ \A n \in DOMAIN ItemsOf[body] :
                                  ItemsOf[body][n].role = "keyframe" => ItemsOf[body][n].time < SegmentEnds[m.duration][3]

FollowsOn(rows, line, number, base, m) ==
    /\ number \in Nat \ {0} /\ (number = 1 <=> base = 0)
    /\ base # 0 => /\ base \in DOMAIN rows
                   /\ rows[base].line = line /\ rows[base].number = number - 1
                   /\ rows[base].script = m.script /\ rows[base].board = m.board
                   /\ rows[base].visuals = m.visuals

RowKept(rows, r) ==
    /\ MadeOf(rows, r) /\ Fits(r.line[1], r.body, r)
    /\ FollowsOn(rows, r.line, r.number, r.base, r)

Drafted(rows, d) ==
    /\ d.material = Material(d.material.script, d.material.board, d.material.visuals, d.material.duration, d.material.words)
    /\ MadeOf(rows, d.material) /\ Fits(d.line[1], d.body, d.material)
    /\ FollowsOn(rows, d.line, d.number, d.base, d.material)
    /\ d.op = "create" <=> d.number = 1

RowsKept == \A i \in DOMAIN made : RowKept(made, made[i])

CurrentKept ==
    /\ DOMAIN current = {made[i].line : i \in DOMAIN made}
    /\ \A line \in DOMAIN current :
           /\ current[line] \in DOMAIN made /\ made[current[line]].line = line
           /\ made[current[line]].number = Cardinality(Peers(made, line))
           /\ {made[j].number : j \in Peers(made, line)} = 1 .. Cardinality(Peers(made, line))

CommandsKept ==
    /\ \A c \in DOMAIN commands : commands[c].version \in DOMAIN made
    /\ \A i \in DOMAIN made : \E c \in DOMAIN commands : commands[c].version = i
    /\ \A c, o \in DOMAIN commands : commands[c].version = commands[o].version => c = o

DraftsKept ==
    /\ drafts = [e \in Editors |-> drafts[e]]
    /\ \A e \in Editors : drafts[e] # NoDraft => Drafted(made, drafts[e])

MadeSeq == \E S : made \in Seq(S)

MediaInv == MadeSeq /\ RowsKept /\ CurrentKept /\ CommandsKept /\ DraftsKept

(* Parts in order do not overlap.                                          *)
LEMMA InOrder ==
    ASSUME NEW parts \in Seq(Parts3),
           \A i \in DOMAIN parts : parts[i].end > parts[i].start /\ (i # 1 => parts[i].start >= parts[i - 1].end),
           NEW i \in DOMAIN parts, NEW j \in DOMAIN parts, i < j
    PROVE  parts[i].end <= parts[j].start
<1> DEFINE Late == {n \in Nat : n \in DOMAIN parts /\ i < n /\ ~(parts[i].end <= parts[n].start)}
<1>1. \A n \in DOMAIN parts : n \in 1 .. Len(parts) /\ parts[n] \in Parts3
  OBVIOUS
<1>2. Len(parts) \in Nat /\ DOMAIN parts = 1 .. Len(parts)
  OBVIOUS
<1>3. CASE Late # {}
  <2>1. PICK n \in Late : \A m \in Late : ~(m < n)
    <3>1. Late \subseteq Nat
      OBVIOUS
    <3>2. \E n \in Late : \A m \in Late : ~(<<m, n>> \in OpToRel(<, Nat))
      BY <1>3, <3>1, NatLessThanWellFounded, WFMin
    <3> QED
      BY <3>1, <3>2 DEF OpToRel
  <2>2. n - 1 \in Nat /\ n - 1 \in DOMAIN parts
    BY <1>1, <1>2
  <2>3. parts[n].start >= parts[n - 1].end /\ parts[n - 1].end > parts[n - 1].start
    BY <1>1, <2>2
  <2>4. parts[i] \in Parts3 /\ parts[n] \in Parts3 /\ parts[n - 1] \in Parts3
    BY <1>1, <2>2
  <2>5. n - 1 = i \/ (i < n - 1 /\ n - 1 \notin Late)
    BY <1>1, <2>1, <2>2
  <2> QED
    BY <2>2, <2>3, <2>4, <2>5 DEF Parts3
<1>4. CASE Late = {}
  BY <1>1, <1>2, <1>4
<1> QED
  BY <1>3, <1>4

LEMMA ShownOnce ==
    ASSUME NEW parts \in Seq(Parts3),
           \A i \in DOMAIN parts : parts[i].end > parts[i].start /\ (i # 1 => parts[i].start >= parts[i - 1].end),
           NEW t \in Nat, NEW n \in Shown(parts, t)
    PROVE  Shown(parts, t) = {n}
<1>1. \A i \in DOMAIN parts : i \in 1 .. Len(parts) /\ parts[i] \in Parts3
  OBVIOUS
<1>2. \A i, j \in DOMAIN parts : i < j => parts[i].end <= parts[j].start
  BY InOrder
<1>3. ASSUME NEW m \in Shown(parts, t), m # n
      PROVE  FALSE
  <2>1. m < n \/ n < m
    BY <1>1, <1>3 DEF Shown
  <2>2. parts[m] \in Parts3 /\ parts[n] \in Parts3
    BY <1>1 DEF Shown
  <2> QED
    BY <1>2, <2>1, <2>2 DEF Shown, Parts3
<1> QED
  BY <1>3

(* A moment inside a segment is in that segment only.                      *)
LEMMA OneSegment ==
    ASSUME NEW d \in Durations, NEW n \in 1 .. 3, NEW t \in Nat,
           SegmentFrom(d, n) <= t, t < SegmentEnds[d][n]
    PROVE  SegmentAt(d, t) = n
<1>1. /\ SegmentEnds[d][1] \in Nat /\ SegmentEnds[d][2] \in Nat /\ SegmentEnds[d][3] \in Nat
      /\ SegmentEnds[d][1] < SegmentEnds[d][2] /\ SegmentEnds[d][2] < SegmentEnds[d][3]
  BY MediaBounds
<1>2. \A m \in 1 .. 3 : SegmentFrom(d, m) <= t /\ t < SegmentEnds[d][m] => m = n
  BY <1>1 DEF SegmentFrom
<1> QED
  BY <1>2 DEF SegmentAt

(* A plan that fits shows every moment, in its segment.                    *)
LEMMA PlanShows ==
    ASSUME NEW d \in Durations, NEW p \in DOMAIN PlanOf, PlanFits(p, d),
           NEW t \in 0 .. SegmentEnds[d][3] - 1
    PROVE  \E n \in DOMAIN PlanOf[p] : Shown(PlanOf[p], t) = {n} /\ PlanOf[p][n].segment = SegmentAt(d, t)
<1> DEFINE shots == PlanOf[p]
           Ahead == {n \in Nat : n \in DOMAIN shots /\ t < shots[n].end}
<1>1. shots \in Seq(Parts3) /\ shots # <<>>
  BY MediaBounds
<1>2. Len(shots) \in Nat \ {0} /\ DOMAIN shots = 1 .. Len(shots) /\ \A i \in DOMAIN shots : shots[i] \in Parts3
  BY <1>1, EmptySeq
<1>3. /\ \A i \in DOMAIN shots : /\ shots[i].start = IF i = 1 THEN 0 ELSE shots[i - 1].end
                                 /\ shots[i].end > shots[i].start /\ Inside(shots[i], d)
      /\ shots[Len(shots)].end = SegmentEnds[d][3]
  BY DEF PlanFits
<1> HIDE DEF shots
<1>4. SegmentEnds[d][3] \in Nat /\ t \in Nat /\ t < SegmentEnds[d][3]
  BY MediaBounds
<1>5. Len(shots) \in Ahead
  BY <1>2, <1>3, <1>4
<1>6. PICK n \in Ahead : \A m \in Ahead : ~(m < n)
  <2>1. Ahead \subseteq Nat
    OBVIOUS
  <2>2. \E n \in Ahead : \A m \in Ahead : ~(<<m, n>> \in OpToRel(<, Nat))
    BY <1>5, <2>1, NatLessThanWellFounded, WFMin
  <2> QED
    BY <2>1, <2>2 DEF OpToRel
<1>7. shots[n].start <= t
  <2>1. CASE n = 1
    BY <2>1, <1>2, <1>3, <1>4
  <2>2. CASE n # 1
    <3>1. n - 1 \in Nat /\ n - 1 \in DOMAIN shots /\ n - 1 < n
      BY <2>2, <1>2
    <3>2. ~(t < shots[n - 1].end) /\ shots[n - 1] \in Parts3
      BY <3>1, <1>2, <1>6
    <3> QED
      BY <2>2, <3>1, <3>2, <1>3, <1>4 DEF Parts3
  <2> QED
    BY <2>1, <2>2
<1>8. n \in Shown(shots, t)
  BY <1>7 DEF Shown
<1>9. \A i \in DOMAIN shots : shots[i].end > shots[i].start /\ (i # 1 => shots[i].start >= shots[i - 1].end)
  <2> SUFFICES ASSUME NEW i \in DOMAIN shots, i # 1
               PROVE  shots[i].start >= shots[i - 1].end
    BY <1>3
  <2>1. i - 1 \in DOMAIN shots
    BY <1>2
  <2> QED
    BY <2>1, <1>2, <1>3 DEF Parts3
<1>10. Shown(shots, t) = {n}
  BY <1>1, <1>4, <1>8, <1>9, ShownOnce
<1>11. shots[n].segment = SegmentAt(d, t)
  <2>1. /\ shots[n] \in Parts3 /\ Inside(shots[n], d) /\ t < shots[n].end
        /\ SegmentFrom(d, shots[n].segment) <= shots[n].start
        /\ shots[n].end <= SegmentEnds[d][shots[n].segment]
    BY <1>2, <1>3 DEF Inside
  <2>2. shots[n].segment \in 1 .. 3 /\ shots[n].start \in Nat /\ shots[n].end \in Nat
    BY <2>1 DEF Parts3
  <2>3. SegmentEnds[d][shots[n].segment] \in Nat /\ SegmentFrom(d, shots[n].segment) \in Nat
    BY <2>2, MediaBounds DEF SegmentFrom
  <2>4. SegmentFrom(d, shots[n].segment) <= t /\ t < SegmentEnds[d][shots[n].segment]
    BY <1>4, <1>7, <2>1, <2>2, <2>3
  <2> QED
    BY <1>4, <2>2, <2>4, OneSegment
<1> QED
  BY <1>8, <1>10, <1>11 DEF Shown, shots

(* A track that fits shows at most one caption at a time.                  *)
LEMMA TrackShows ==
    ASSUME NEW d \in Durations, NEW c \in DOMAIN CuesOf, TrackFits(c, d), NEW t \in Nat
    PROVE  Cardinality(Shown(CuesOf[c], t)) <= 1
<1> DEFINE cues == CuesOf[c]
<1>1. cues \in Seq(Parts3)
  BY MediaBounds
<1>2. DOMAIN cues = 1 .. Len(cues) /\ \A i \in DOMAIN cues : cues[i] \in Parts3
  BY <1>1
<1>3. \A i \in DOMAIN cues : cues[i].start >= (IF i = 1 THEN 0 ELSE cues[i - 1].end) /\ cues[i].end > cues[i].start
  BY DEF TrackFits
<1> HIDE DEF cues
<1>4. \A i \in DOMAIN cues : cues[i].end > cues[i].start /\ (i # 1 => cues[i].start >= cues[i - 1].end)
  BY <1>3
<1>5. CASE Shown(cues, t) = {}
  BY <1>5, FS_EmptySet DEF cues
<1>6. CASE Shown(cues, t) # {}
  <2>1. PICK n \in Shown(cues, t) : TRUE
    BY <1>6
  <2>2. Shown(cues, t) = {n}
    BY <1>1, <1>4, <2>1, ShownOnce
  <2>3. Cardinality({n}) = 1
    BY FS_Singleton
  <2> QED
    BY <2>2, <2>3 DEF cues
<1> QED
  BY <1>5, <1>6

(* The words a template makes can be spoken in the time.                   *)
LEMMA TemplateSpeaks ==
    ASSUME NEW d \in Durations, NEW b \in DOMAIN BlocksOf
    PROVE  Spoken(TemplateWords(b, d)) <= SpokenBudget[d]
<1>1. SpokenBudget[d] \in Nat /\ CtaWords \in Nat /\ BlocksOf[b].sentence \in Nat /\ BlocksOf[b].words \in Nat
  BY MediaBounds
<1>2. ASSUME NEW x \in Int, NEW y \in Int
      PROVE  Min({x, y}) \in Int /\ Min({x, y}) <= x /\ Min({x, y}) <= y
  <2>1. \E z \in {x, y} : \A w \in {x, y} : z <= w
    OBVIOUS
  <2> QED
    BY <2>1 DEF Min
<1>3. ASSUME NEW x \in Int, NEW y \in Int
      PROVE  Max({x, y}) \in Int
  <2>1. \E z \in {x, y} : \A w \in {x, y} : z >= w
    OBVIOUS
  <2> QED
    BY <2>1 DEF Max
<1> DEFINE budget == SpokenBudget[d]
           limit == Max({1, Min({budget \div 5, budget - CtaWords - 1})})
           hook == Min({BlocksOf[b].sentence, limit})
           rest == Min({BlocksOf[b].words, budget - hook - CtaWords})
<1>4. budget \div 5 \in Int /\ budget - CtaWords - 1 \in Int
  BY <1>1
<1>5. Min({budget \div 5, budget - CtaWords - 1}) \in Int
  BY <1>2, <1>4
<1>6. limit \in Int
  BY <1>3, <1>5
<1> HIDE DEF limit
<1>7. hook \in Int
  <2>1. BlocksOf[b].sentence \in Int
    BY <1>1
  <2> QED
    BY <1>2, <1>6, <2>1
<1> HIDE DEF hook
<1>8. budget - hook - CtaWords \in Int
  BY <1>1, <1>7
<1>9. rest \in Int /\ rest <= budget - hook - CtaWords
  <2>1. BlocksOf[b].words \in Int
    BY <1>1
  <2> QED
    BY <1>2, <1>8, <2>1
<1>10. TemplateWords(b, d) = <<hook, rest, CtaWords>>
  BY DEF TemplateWords, hook, limit
<1> HIDE DEF rest
<1> QED
  BY <1>1, <1>7, <1>9, <1>10 DEF Spoken

-----------------------------------------------------------------------------
(* What the services keep.                                                 *)
LEMMA MediaStarts == MediaInit(<<>>) => MediaInv
<1> SUFFICES ASSUME MediaInit(<<>>)
             PROVE  MediaInv
  OBVIOUS
<1>1. made = <<>> /\ DOMAIN made = {} /\ made \in Seq({})
  BY DEF MediaInit
<1>2. DOMAIN current = {} /\ DOMAIN commands = {}
  BY <1>1 DEF MediaInit
<1>3. drafts = [e \in Editors |-> NoDraft]
  BY DEF MediaInit
<1> QED
  BY <1>1, <1>2, <1>3 DEF MediaInv, MadeSeq, RowsKept, CurrentKept, CommandsKept, DraftsKept

LEMMA RestKeeps ==
    ASSUME MadeSeq, RowsKept, CurrentKept, CommandsKept, UNCHANGED <<made, current, commands>>
    PROVE  MadeSeq' /\ RowsKept' /\ CurrentKept' /\ CommandsKept'
<1>1. MadeSeq' /\ RowsKept'
  BY DEF MadeSeq, RowsKept
<1>2. CurrentKept'
  BY DEF CurrentKept
<1>3. CommandsKept'
  BY DEF CommandsKept
<1> QED
  BY <1>1, <1>2, <1>3

LEMMA MediaKeeps == MediaInv /\ UNCHANGED mediaVars => MediaInv'
<1> SUFFICES ASSUME MediaInv, UNCHANGED mediaVars
             PROVE  MediaInv'
  OBVIOUS
<1>1. UNCHANGED <<made, current, commands, drafts>>
  BY DEF mediaVars
<1>2. MadeSeq' /\ RowsKept' /\ CurrentKept' /\ CommandsKept'
  BY <1>1, RestKeeps DEF MediaInv
<1>3. DraftsKept'
  BY <1>1 DEF MediaInv, DraftsKept
<1> QED
  BY <1>2, <1>3 DEF MediaInv

(* Rows are only added, so what was said of earlier ones stands.           *)
LEMMA MadeOfGrows ==
    ASSUME NEW rows, NEW more, NEW m, MadeOf(rows, m), DOMAIN rows \subseteq DOMAIN more,
           \A i \in DOMAIN rows : more[i] = rows[i]
    PROVE  MadeOf(more, m)
BY DEF MadeOf, KeptAs

LEMMA FollowsGrows ==
    ASSUME NEW rows, NEW more, NEW line, NEW number, NEW base, NEW m, FollowsOn(rows, line, number, base, m),
           DOMAIN rows \subseteq DOMAIN more, \A i \in DOMAIN rows : more[i] = rows[i]
    PROVE  FollowsOn(more, line, number, base, m)
BY DEF FollowsOn

(* The current version of a line, as it is found.                          *)
LEMMA LatestFound ==
    ASSUME MediaInv, NEW kind, NEW line \in Lines(kind)
    PROVE  /\ line[1] = kind /\ line \in DOMAIN current /\ current[line] \in DOMAIN made /\ current[line] # 0
           /\ Latest(line).line = line /\ RowKept(made, Latest(line))
<1>1. line[1] = kind /\ line \in DOMAIN current
  BY DEF Lines, Of, MediaInv, CurrentKept
<1>2. current[line] \in DOMAIN made /\ Latest(line).line = line
  BY <1>1 DEF MediaInv, CurrentKept, Latest
<1>3. \A i \in DOMAIN made : i # 0
  BY DEF MediaInv, MadeSeq
<1> QED
  BY <1>1, <1>2, <1>3 DEF MediaInv, RowsKept, Latest

(* A draft of what fits and follows is kept.                               *)
LEMMA DraftKept ==
    ASSUME MediaInv, NEW e \in Editors, NEW op, NEW key, NEW line, NEW number, NEW body, NEW m,
           Draft(e, op, key, line, number, body, m),
           m = Material(m.script, m.board, m.visuals, m.duration, m.words),
           MadeOf(made, m), Fits(line[1], body, m),
           FollowsOn(made, line, number, IF number = 1 THEN 0 ELSE current[line], m),
           op = "create" <=> number = 1
    PROVE  MediaInv'
<1> DEFINE d == [line |-> line, number |-> number, body |-> body, material |-> m,
                 base |-> IF number = 1 THEN 0 ELSE current[line], op |-> op, key |-> key]
<1>1. drafts' = [drafts EXCEPT ![e] = d] /\ UNCHANGED <<made, current, commands>>
  BY DEF Draft
<1>2. Drafted(made, d)
  BY DEF Drafted
<1> HIDE DEF d
<1>3. DraftsKept'
  <2>1. drafts' = [x \in Editors |-> IF x = e THEN d ELSE drafts[x]]
    BY <1>1 DEF MediaInv, DraftsKept
  <2>2. \A x \in Editors : drafts'[x] # NoDraft => Drafted(made, drafts'[x])
    BY <1>2, <2>1 DEF MediaInv, DraftsKept
  <2>3. drafts' = [x \in Editors |-> drafts'[x]]
    BY <2>1
  <2>4. made' = made
    BY <1>1
  <2> QED
    BY <2>2, <2>3, <2>4 DEF DraftsKept
<1>4. MadeSeq' /\ RowsKept' /\ CurrentKept' /\ CommandsKept'
  BY <1>1, RestKeeps DEF MediaInv
<1> QED
  BY <1>3, <1>4 DEF MediaInv

LEMMA FirstFollows ==
    ASSUME NEW line, NEW m
    PROVE  FollowsOn(made, line, 1, IF 1 = 1 THEN 0 ELSE current[line], m)
BY DEF FollowsOn

(* A later draft follows the current version, of the same material.        *)
LEMMA NextFollows ==
    ASSUME MediaInv, NEW kind, NEW line \in Lines(kind), NEW m,
           m.script = Latest(line).script, m.board = Latest(line).board, m.visuals = Latest(line).visuals
    PROVE  /\ FollowsOn(made, line, Latest(line).number + 1,
                      IF Latest(line).number + 1 = 1 THEN 0 ELSE current[line], m)
           /\ Latest(line).number + 1 # 1
<1>1. current[line] \in DOMAIN made /\ current[line] # 0 /\ Latest(line).line = line /\ Latest(line).number \in Nat \ {0}
  BY LatestFound DEF RowKept, FollowsOn
<1> QED
  BY <1>1 DEF FollowsOn, Latest

-----------------------------------------------------------------------------
(* Each operation drafts what fits and follows.                            *)
LEMMA Materials ==
    ASSUME NEW s, NEW b, NEW v, NEW d, NEW w
    PROVE  LET m == Material(s, b, v, d, w)
           IN  /\ m.script = s /\ m.board = b /\ m.visuals = v /\ m.duration = d /\ m.words = w
               /\ m = Material(m.script, m.board, m.visuals, m.duration, m.words)
BY DEF Material

LEMMA RowAt ==
    ASSUME MediaInv, NEW kind, NEW i \in Of(kind)
    PROVE  /\ i \in KeptAs(made, kind) /\ i # 0 /\ RowKept(made, made[i])
           /\ MadeOf(made, made[i]) /\ Fits(kind, made[i].body, made[i])
<1>1. \A j \in DOMAIN made : j # 0
  BY DEF MediaInv, MadeSeq
<1> QED
  BY <1>1 DEF Of, KeptAs, MediaInv, RowsKept, RowKept

LEMMA ScriptsMade ==
    ASSUME MediaInv, NEW e \in Editors, NEW key, NEW d \in Durations, NEW b \in DOMAIN BlocksOf, CreateScript(e, key, d, b)
    PROVE  MediaInv'
<1> DEFINE m == Material(0, 0, 0, d, TemplateWords(b, d))
           line == <<"script", d, 0>>
<1>1. /\ m.script = 0 /\ m.board = 0 /\ m.visuals = 0 /\ m.duration = d /\ m.words = TemplateWords(b, d)
      /\ m = Material(m.script, m.board, m.visuals, m.duration, m.words)
  BY Materials
<1>2. Draft(e, "create", key, line, 1, b, m)
  BY DEF CreateScript
<1>3. line[1] = "script"
  OBVIOUS
<1> HIDE DEF m, line
<1>4. MadeOf(made, m) /\ Fits(line[1], b, m)
  BY <1>1, <1>3, TemplateSpeaks DEF MadeOf, Fits, Kinds
<1> QED
  BY <1>1, <1>2, <1>4, FirstFollows, DraftKept

LEMMA ScriptsEdited ==
    ASSUME MediaInv, NEW e \in Editors, NEW key, NEW line \in Lines("script"), NEW x, EditScript(e, key, line, x)
    PROVE  MediaInv'
<1> DEFINE last == Latest(line)
           words == [last.words EXCEPT ![EditOf[x].segment] = EditOf[x].words]
           m == Material(0, 0, 0, last.duration, words)
<1>1. /\ m.script = 0 /\ m.board = 0 /\ m.visuals = 0 /\ m.duration = last.duration /\ m.words = words
      /\ m = Material(m.script, m.board, m.visuals, m.duration, m.words)
  BY Materials
<1>2. Draft(e, "edit", key, line, last.number + 1, x, m) /\ Spoken(words) <= SpokenBudget[last.duration]
  BY DEF EditScript
<1>3. line[1] = "script" /\ last.line = line /\ RowKept(made, last)
  BY LatestFound
<1> HIDE DEF m, words, last
<1>4. last.script = 0 /\ last.board = 0 /\ last.visuals = 0 /\ last.duration \in Durations
  BY <1>3 DEF RowKept, Fits
<1>5. MadeOf(made, m) /\ Fits(line[1], x, m)
  BY <1>1, <1>2, <1>3, <1>4 DEF MadeOf, Fits, Kinds
<1>6. /\ FollowsOn(made, line, last.number + 1, IF last.number + 1 = 1 THEN 0 ELSE current[line], m)
      /\ last.number + 1 # 1
  BY <1>1, <1>4, NextFollows DEF last
<1> QED
  BY <1>1, <1>2, <1>5, <1>6, DraftKept

LEMMA BoardsMade ==
    ASSUME MediaInv, NEW e \in Editors, NEW key, NEW s \in Of("script"), NEW p \in DOMAIN PlanOf, CreateStoryboard(e, key, s, p)
    PROVE  MediaInv'
<1> DEFINE m == BoardMaterial(s)
           line == <<"board", s, 0>>
<1>1. /\ m.script = s /\ m.board = 0 /\ m.visuals = 0 /\ m.duration = Duration(s)
      /\ m = Material(m.script, m.board, m.visuals, m.duration, m.words)
  BY Materials DEF BoardMaterial
<1>2. Draft(e, "create", key, line, 1, p, m) /\ PlanFits(p, Duration(s))
  BY DEF CreateStoryboard
<1>3. s \in KeptAs(made, "script") /\ s # 0 /\ Duration(s) \in Durations /\ line[1] = "board"
  BY RowAt DEF Fits, Duration
<1> HIDE DEF m, line
<1>4. MadeOf(made, m) /\ Fits(line[1], p, m)
  BY <1>1, <1>2, <1>3 DEF MadeOf, Fits, Kinds, Duration
<1> QED
  BY <1>1, <1>2, <1>4, FirstFollows, DraftKept

LEMMA BoardsRevised ==
    ASSUME MediaInv, NEW e \in Editors, NEW key, NEW line \in Lines("board"), NEW p \in DOMAIN PlanOf,
           ReviseStoryboard(e, key, line, p)
    PROVE  MediaInv'
<1> DEFINE last == Latest(line)
           m == BoardMaterial(last.script)
<1>1. /\ m.script = last.script /\ m.board = 0 /\ m.visuals = 0 /\ m.duration = Duration(last.script)
      /\ m = Material(m.script, m.board, m.visuals, m.duration, m.words)
  BY Materials DEF BoardMaterial
<1>2. Draft(e, "revise", key, line, last.number + 1, p, m) /\ PlanFits(p, Duration(last.script))
  BY DEF ReviseStoryboard
<1>3. line[1] = "board" /\ last.line = line /\ RowKept(made, last)
  BY LatestFound
<1> HIDE DEF m, last
<1>4. /\ last.script # 0 /\ last.board = 0 /\ last.visuals = 0 /\ last.script \in KeptAs(made, "script")
      /\ last.duration \in Durations /\ last.duration = Duration(last.script)
  BY <1>3 DEF RowKept, Fits, MadeOf, Duration
<1>5. MadeOf(made, m) /\ Fits(line[1], p, m)
  BY <1>1, <1>2, <1>3, <1>4 DEF MadeOf, Fits, Kinds, Duration
<1>6. /\ FollowsOn(made, line, last.number + 1, IF last.number + 1 = 1 THEN 0 ELSE current[line], m)
      /\ last.number + 1 # 1
  BY <1>1, <1>4, NextFollows DEF last
<1> QED
  BY <1>1, <1>2, <1>5, <1>6, DraftKept

LEMMA VisualsMade ==
    ASSUME MediaInv, NEW e \in Editors, NEW key, NEW s \in Of("script"), NEW b, NEW l \in DOMAIN ItemsOf,
           CreateAssetSet(e, key, s, b, l)
    PROVE  MediaInv'
<1> DEFINE m == VisualMaterial(s, b)
           line == <<"visuals", s, b>>
<1>1. /\ m.script = s /\ m.board = b /\ m.visuals = 0 /\ m.duration = Duration(s)
      /\ m = Material(m.script, m.board, m.visuals, m.duration, m.words)
  BY Materials DEF VisualMaterial
<1>2. Draft(e, "create", key, line, 1, l, m) /\ ItemsFit(l, Duration(s)) /\ b \in VisualBoards(s)
  BY DEF CreateAssetSet
<1>3. s \in KeptAs(made, "script") /\ s # 0 /\ Duration(s) \in Durations /\ line[1] = "visuals"
  BY RowAt DEF Fits, Duration
<1>4. b # 0 => b \in KeptAs(made, "board") /\ made[b].script = s
  BY <1>2 DEF VisualBoards, Of, KeptAs
<1>5. \A n \in DOMAIN ItemsOf[l] : ItemsOf[l][n].role = "keyframe" => ItemsOf[l][n].time < SegmentEnds[Duration(s)][3]
  BY <1>2 DEF ItemsFit
<1> HIDE DEF m, line
<1>6. MadeOf(made, m)
  BY <1>1, <1>3, <1>4 DEF MadeOf, Duration
<1>7. Fits(line[1], l, m)
  BY <1>1, <1>3, <1>5 DEF Fits, Kinds
<1> QED
  BY <1>1, <1>2, <1>6, <1>7, FirstFollows, DraftKept

LEMMA VisualsRevised ==
    ASSUME MediaInv, NEW e \in Editors, NEW key, NEW line \in Lines("visuals"), NEW l \in DOMAIN ItemsOf,
           ReviseAssetSet(e, key, line, l)
    PROVE  MediaInv'
<1> DEFINE last == Latest(line)
           m == VisualMaterial(last.script, last.board)
<1>1. /\ m.script = last.script /\ m.board = last.board /\ m.visuals = 0 /\ m.duration = Duration(last.script)
      /\ m = Material(m.script, m.board, m.visuals, m.duration, m.words)
  BY Materials DEF VisualMaterial
<1>2. Draft(e, "revise", key, line, last.number + 1, l, m) /\ ItemsFit(l, last.duration)
  BY DEF ReviseAssetSet
<1>3. line[1] = "visuals" /\ last.line = line /\ RowKept(made, last)
  BY LatestFound
<1>4. \A n \in DOMAIN ItemsOf[l] : ItemsOf[l][n].role = "keyframe" => ItemsOf[l][n].time < SegmentEnds[last.duration][3]
  BY <1>2 DEF ItemsFit
<1> HIDE DEF m, last
<1>5. /\ last.script # 0 /\ last.visuals = 0 /\ last.duration \in Durations /\ MadeOf(made, last)
      /\ last.duration = Duration(last.script)
  BY <1>3 DEF RowKept, Fits, MadeOf, Duration
<1>6. MadeOf(made, m)
  BY <1>1, <1>5 DEF MadeOf, Duration
<1>7. Fits(line[1], l, m)
  BY <1>1, <1>3, <1>4, <1>5 DEF Fits, Kinds
<1>8. /\ FollowsOn(made, line, last.number + 1, IF last.number + 1 = 1 THEN 0 ELSE current[line], m)
      /\ last.number + 1 # 1
  BY <1>1, <1>5, NextFollows DEF last
<1> QED
  BY <1>1, <1>2, <1>6, <1>7, <1>8, DraftKept

LEMMA SubtitlesMade ==
    ASSUME MediaInv, NEW e \in Editors, NEW key, NEW s \in Of("script"), NEW b, NEW c \in DOMAIN CuesOf,
           CreateSubtitle(e, key, s, b, c)
    PROVE  MediaInv'
<1> DEFINE m == SubtitleMaterial(s, b)
           line == <<"subtitle", s, b>>
<1>1. /\ m.script = s /\ m.board = b /\ m.visuals = 0 /\ m.duration = Duration(s)
      /\ m = Material(m.script, m.board, m.visuals, m.duration, m.words)
  BY Materials DEF SubtitleMaterial
<1>2. Draft(e, "create", key, line, 1, c, m) /\ TrackFits(c, Duration(s)) /\ b \in SubtitleBoards(s)
  BY DEF CreateSubtitle
<1>3. s \in KeptAs(made, "script") /\ s # 0 /\ Duration(s) \in Durations /\ line[1] = "subtitle"
  BY RowAt DEF Fits, Duration
<1>4. b # 0 => b \in KeptAs(made, "board") /\ made[b].script = s
  BY <1>2 DEF SubtitleBoards, Of, KeptAs
<1> HIDE DEF m, line
<1>5. MadeOf(made, m)
  BY <1>1, <1>3, <1>4 DEF MadeOf, Duration
<1>6. Fits(line[1], c, m)
  BY <1>1, <1>2, <1>3 DEF Fits, Kinds
<1> QED
  BY <1>1, <1>2, <1>5, <1>6, FirstFollows, DraftKept

LEMMA SubtitlesRevised ==
    ASSUME MediaInv, NEW e \in Editors, NEW key, NEW line \in Lines("subtitle"), NEW c \in DOMAIN CuesOf,
           ReviseSubtitle(e, key, line, c)
    PROVE  MediaInv'
<1> DEFINE last == Latest(line)
           m == SubtitleMaterial(last.script, last.board)
<1>1. /\ m.script = last.script /\ m.board = last.board /\ m.visuals = 0 /\ m.duration = Duration(last.script)
      /\ m = Material(m.script, m.board, m.visuals, m.duration, m.words)
  BY Materials DEF SubtitleMaterial
<1>2. Draft(e, "revise", key, line, last.number + 1, c, m) /\ TrackFits(c, Duration(last.script))
  BY DEF ReviseSubtitle
<1>3. line[1] = "subtitle" /\ last.line = line /\ RowKept(made, last)
  BY LatestFound
<1> HIDE DEF m, last
<1>4. /\ last.script # 0 /\ last.visuals = 0 /\ last.duration \in Durations /\ MadeOf(made, last)
      /\ last.duration = Duration(last.script)
  BY <1>3 DEF RowKept, Fits, MadeOf, Duration
<1>5. MadeOf(made, m)
  BY <1>1, <1>4 DEF MadeOf, Duration
<1>6. Fits(line[1], c, m)
  BY <1>1, <1>2, <1>3, <1>4 DEF Fits, Kinds
<1>7. /\ FollowsOn(made, line, last.number + 1, IF last.number + 1 = 1 THEN 0 ELSE current[line], m)
      /\ last.number + 1 # 1
  BY <1>1, <1>4, NextFollows DEF last
<1> QED
  BY <1>1, <1>2, <1>5, <1>6, <1>7, DraftKept

(* What a set of visual assets is made of, an output specification of it   *)
(* is made of too.                                                         *)
LEMMA SpecOf ==
    ASSUME MediaInv, NEW v \in Of("visuals"), NEW body
    PROVE  LET m == SpecMaterial(v)
           IN  /\ m.script = made[v].script /\ m.board = made[v].board /\ m.visuals = v
               /\ m = Material(m.script, m.board, m.visuals, m.duration, m.words)
               /\ MadeOf(made, m) /\ Fits("spec", body, m)
<1> DEFINE m == SpecMaterial(v)
<1>1. /\ m.script = made[v].script /\ m.board = made[v].board /\ m.visuals = v /\ m.duration = made[v].duration
      /\ m = Material(m.script, m.board, m.visuals, m.duration, m.words)
  BY Materials DEF SpecMaterial, Duration
<1>2. v \in KeptAs(made, "visuals") /\ v # 0 /\ MadeOf(made, made[v]) /\ Fits("visuals", made[v].body, made[v])
  BY RowAt
<1> HIDE DEF m
<1>3. MadeOf(made, m)
  BY <1>1, <1>2 DEF MadeOf
<1>4. Fits("spec", body, m)
  BY <1>1, <1>2 DEF Fits, Kinds
<1> QED
  BY <1>1, <1>3, <1>4 DEF m

LEMMA SpecsMade ==
    ASSUME MediaInv, NEW e \in Editors, NEW key, NEW v \in Of("visuals"), NEW p, CreateOutputSpec(e, key, v, p)
    PROVE  MediaInv'
<1> DEFINE m == SpecMaterial(v)
           line == <<"spec", v, 0>>
<1>1. /\ m = Material(m.script, m.board, m.visuals, m.duration, m.words)
      /\ MadeOf(made, m) /\ Fits(line[1], p, m)
  BY SpecOf
<1>2. Draft(e, "create", key, line, 1, p, m)
  BY DEF CreateOutputSpec
<1> HIDE DEF m, line
<1> QED
  BY <1>1, <1>2, FirstFollows, DraftKept

LEMMA SpecsRevised ==
    ASSUME MediaInv, NEW e \in Editors, NEW key, NEW line \in Lines("spec"), NEW p, ReviseOutputSpec(e, key, line, p)
    PROVE  MediaInv'
<1> DEFINE last == Latest(line)
           m == SpecMaterial(last.visuals)
<1>1. Draft(e, "revise", key, line, last.number + 1, p, m)
  BY DEF ReviseOutputSpec
<1>2. line[1] = "spec" /\ last.line = line /\ RowKept(made, last)
  BY LatestFound
<1> HIDE DEF last
<1>3. /\ last.visuals \in Of("visuals")
      /\ made[last.visuals].script = last.script /\ made[last.visuals].board = last.board
  BY <1>2 DEF RowKept, Fits, MadeOf, Of, KeptAs
<1>4. /\ m.script = last.script /\ m.board = last.board /\ m.visuals = last.visuals
      /\ m = Material(m.script, m.board, m.visuals, m.duration, m.words)
      /\ MadeOf(made, m) /\ Fits(line[1], p, m)
  BY <1>2, <1>3, SpecOf
<1> HIDE DEF m
<1>5. /\ FollowsOn(made, line, last.number + 1, IF last.number + 1 = 1 THEN 0 ELSE current[line], m)
      /\ last.number + 1 # 1
  BY <1>4, NextFollows DEF last
<1> QED
  BY <1>1, <1>4, <1>5, DraftKept

-----------------------------------------------------------------------------
(* The store. A version it takes is the next of its line.                  *)
LEMMA AppendRow ==
    ASSUME MadeSeq, NEW r
    PROVE  LET rows == Append(made, r)
               v == Len(made) + 1
           IN  /\ Len(made) \in Nat /\ DOMAIN made = 1 .. Len(made) /\ DOMAIN rows = 1 .. v
               /\ \A i \in DOMAIN made : rows[i] = made[i]
               /\ rows[v] = r /\ v \notin DOMAIN made /\ v # 0
               /\ DOMAIN rows = DOMAIN made \cup {v}
               /\ \E S : rows \in Seq(S)
<1>1. PICK S : made \in Seq(S)
  BY DEF MadeSeq
<1>2. made \in Seq(S \cup {r})
  <2>1. S \subseteq S \cup {r}
    OBVIOUS
  <2> QED
    BY <1>1, <2>1, SeqMonotonic
<1>3. r \in S \cup {r}
  OBVIOUS
<1>4. Len(made) \in Nat /\ DOMAIN made = 1 .. Len(made)
  BY <1>2
<1>5. /\ Append(made, r) \in Seq(S \cup {r}) /\ Len(Append(made, r)) = Len(made) + 1
      /\ \A i \in 1 .. Len(made) : Append(made, r)[i] = made[i]
      /\ Append(made, r)[Len(made) + 1] = r
  BY <1>2, <1>3, AppendProperties
<1>6. DOMAIN Append(made, r) = 1 .. Len(made) + 1
  BY <1>5
<1> QED
  BY <1>4, <1>5, <1>6

LEMMA PeersFinite ==
    ASSUME MadeSeq, NEW line
    PROVE  IsFiniteSet(Peers(made, line)) /\ Cardinality(Peers(made, line)) \in Nat
<1>1. Len(made) \in Nat /\ DOMAIN made = 1 .. Len(made)
  BY DEF MadeSeq
<1>2. IsFiniteSet(1 .. Len(made)) /\ Peers(made, line) \subseteq 1 .. Len(made)
  BY <1>1, FS_Interval DEF Peers
<1> QED
  BY <1>2, FS_Subset, FS_CardinalityType

LEMMA RowFrom ==
    ASSUME NEW rows, NEW d, Drafted(rows, d)
    PROVE  LET r == RowOf(d)
           IN  /\ r.line = d.line /\ r.number = d.number /\ r.base = d.base
               /\ RowKept(rows, r)
<1> DEFINE r == RowOf(d)
<1>1. /\ r.line = d.line /\ r.number = d.number /\ r.base = d.base /\ r.body = d.body
      /\ r.script = d.material.script /\ r.board = d.material.board /\ r.visuals = d.material.visuals
      /\ r.duration = d.material.duration /\ r.words = d.material.words
  BY DEF RowOf
<1> HIDE DEF r
<1>2. MadeOf(rows, r)
  BY <1>1 DEF Drafted, MadeOf
<1>3. Fits(r.line[1], r.body, r)
  BY <1>1 DEF Drafted, Fits
<1>4. FollowsOn(rows, r.line, r.number, r.base, r)
  BY <1>1 DEF Drafted, FollowsOn
<1> QED
  BY <1>1, <1>2, <1>3, <1>4 DEF RowKept, r

(* What a draft that is not the first of its line follows.                 *)
LEMMA DraftFollows ==
    ASSUME MediaInv, NEW d, Drafted(made, d), d.op # "create"
    PROVE  d.line \in DOMAIN current
BY DEF Drafted, FollowsOn, MediaInv, CurrentKept

LEMMA Taken ==
    ASSUME MediaInv, NEW e \in Editors, Take(e)
    PROVE  MediaInv'
<1> DEFINE d == drafts[e]
           r == RowOf(d)
           v == Len(made) + 1
           c == <<d.line[1], d.op, d.key>>
<1>1. /\ drafts[e] # NoDraft /\ (Insertable(d) \/ Appendable(d))
      /\ made' = Append(made, r) /\ current' = Filing(current, d.line, v)
      /\ commands' = Filing(commands, c, [request |-> <<d.line, d.number - 1, d.body>>, version |-> v])
      /\ drafts' = [drafts EXCEPT ![e] = NoDraft]
  BY DEF Take, File
<1>2. Drafted(made, d)
  BY <1>1 DEF MediaInv, DraftsKept
<1>3. r.line = d.line /\ r.number = d.number /\ r.base = d.base /\ RowKept(made, r)
  BY <1>2, RowFrom
<1>4. Unused(d)
  BY <1>1 DEF Insertable, Appendable
<1>5. d.op = "create" => d.number = 1 /\ d.line \notin DOMAIN current
  BY <1>1, <1>2 DEF Insertable, Appendable, Drafted
<1>6. d.op # "create" => d.line \in DOMAIN current /\ Latest(d.line).number = d.number - 1
  BY <1>1, <1>2, DraftFollows DEF Insertable, Appendable
<1>7. d.number \in Nat \ {0}
  BY <1>2 DEF Drafted, FollowsOn
<1>8. /\ Len(made) \in Nat /\ DOMAIN made = 1 .. Len(made) /\ DOMAIN made' = DOMAIN made \cup {v}
      /\ \A i \in DOMAIN made : made'[i] = made[i]
      /\ made'[v] = r /\ v \notin DOMAIN made /\ v # 0 /\ MadeSeq'
  BY <1>1, AppendRow DEF MediaInv, MadeSeq
<1>9. c \notin DOMAIN commands
  BY <1>4 DEF Unused
<1> HIDE DEF d, r, v, c
<1>10. RowsKept'
  <2> SUFFICES ASSUME NEW i \in DOMAIN made'
               PROVE  RowKept(made', made'[i])
    BY DEF RowsKept
  <2>1. RowKept(made, made'[i])
    BY <1>3, <1>8 DEF MediaInv, RowsKept
  <2>2. DOMAIN made \subseteq DOMAIN made'
    BY <1>8
  <2> QED
    BY <1>8, <2>1, <2>2, MadeOfGrows, FollowsGrows DEF RowKept
<1>11. CurrentKept'
  <2>1. /\ DOMAIN current' = DOMAIN current \cup {d.line} /\ current'[d.line] = v
        /\ \A line \in DOMAIN current : line # d.line => current'[line] = current[line]
    BY <1>1 DEF Filing
  <2>2. DOMAIN current' = {made'[i].line : i \in DOMAIN made'}
    BY <1>3, <1>8, <2>1 DEF MediaInv, CurrentKept
  <2>3. ASSUME NEW line, line # d.line
        PROVE  /\ Peers(made', line) = Peers(made, line)
               /\ {made'[j].number : j \in Peers(made', line)} = {made[j].number : j \in Peers(made, line)}
    <3>1. Peers(made', line) = Peers(made, line)
      BY <1>3, <1>8, <2>3 DEF Peers
    <3>2. \A j \in Peers(made, line) : made'[j] = made[j]
      BY <1>8 DEF Peers
    <3> QED
      BY <3>1, <3>2
  <2>4. /\ Peers(made', d.line) = Peers(made, d.line) \cup {v} /\ v \notin Peers(made, d.line)
        /\ \A j \in Peers(made, d.line) : made'[j] = made[j]
    BY <1>3, <1>8 DEF Peers
  <2>5. IsFiniteSet(Peers(made, d.line)) /\ Cardinality(Peers(made, d.line)) \in Nat
    BY PeersFinite DEF MediaInv
  <2>6. Cardinality(Peers(made', d.line)) = Cardinality(Peers(made, d.line)) + 1
    BY <2>4, <2>5, FS_AddElement
  <2>7. /\ d.number = Cardinality(Peers(made, d.line)) + 1
        /\ {made[j].number : j \in Peers(made, d.line)} = 1 .. Cardinality(Peers(made, d.line))
    <3>1. CASE d.op = "create"
      <4>1. Peers(made, d.line) = {} /\ d.number = 1
        BY <1>5, <3>1 DEF Peers, MediaInv, CurrentKept
      <4> QED
        BY <4>1, FS_EmptySet
    <3>2. CASE d.op # "create"
      BY <1>6, <1>7, <2>5, <3>2 DEF MediaInv, CurrentKept, Latest
    <3> QED
      BY <3>1, <3>2
  <2>8. {made'[j].number : j \in Peers(made', d.line)} = 1 .. Cardinality(Peers(made', d.line))
    <3>1. {made'[j].number : j \in Peers(made', d.line)} = {made[j].number : j \in Peers(made, d.line)} \cup {d.number}
      BY <1>3, <1>8, <2>4
    <3>2. \A n \in Nat : (1 .. n) \cup {n + 1} = 1 .. n + 1
      OBVIOUS
    <3>3. {made[j].number : j \in Peers(made, d.line)} \cup {d.number} = 1 .. Cardinality(Peers(made, d.line)) + 1
      BY <2>5, <2>7, <3>2
    <3> QED
      BY <2>6, <3>1, <3>3
  <2>9. ASSUME NEW line \in DOMAIN current'
        PROVE  /\ current'[line] \in DOMAIN made' /\ made'[current'[line]].line = line
               /\ made'[current'[line]].number = Cardinality(Peers(made', line))
               /\ {made'[j].number : j \in Peers(made', line)} = 1 .. Cardinality(Peers(made', line))
    <3>1. CASE line = d.line
      BY <1>3, <1>8, <2>1, <2>6, <2>7, <2>8, <3>1
    <3>2. CASE line # d.line
      <4>1. line \in DOMAIN current /\ current'[line] = current[line]
        BY <2>1, <3>2
      <4> QED
        BY <1>8, <2>3, <3>2, <4>1 DEF MediaInv, CurrentKept
    <3> QED
      BY <3>1, <3>2
  <2> QED
    BY <2>2, <2>9 DEF CurrentKept
<1>12. CommandsKept'
  <2>1. /\ DOMAIN commands' = DOMAIN commands \cup {c} /\ commands'[c].version = v
        /\ \A o \in DOMAIN commands : commands'[o] = commands[o]
    BY <1>1, <1>9 DEF Filing
  <2>2. \A o \in DOMAIN commands' : commands'[o].version \in DOMAIN made'
    BY <1>8, <2>1 DEF MediaInv, CommandsKept
  <2>3. \A i \in DOMAIN made' : \E o \in DOMAIN commands' : commands'[o].version = i
    BY <1>8, <2>1 DEF MediaInv, CommandsKept
  <2>4. \A o, p \in DOMAIN commands' : commands'[o].version = commands'[p].version => o = p
    BY <1>8, <2>1 DEF MediaInv, CommandsKept
  <2> QED
    BY <2>2, <2>3, <2>4 DEF CommandsKept
<1>13. DraftsKept'
  <2>1. drafts' = [x \in Editors |-> IF x = e THEN NoDraft ELSE drafts[x]]
    BY <1>1 DEF MediaInv, DraftsKept
  <2>2. ASSUME NEW x \in Editors, drafts'[x] # NoDraft
        PROVE  Drafted(made', drafts'[x])
    <3>1. drafts'[x] = drafts[x] /\ Drafted(made, drafts[x])
      BY <2>1, <2>2 DEF MediaInv, DraftsKept
    <3>2. DOMAIN made \subseteq DOMAIN made'
      BY <1>8
    <3> QED
      BY <1>8, <3>1, <3>2, MadeOfGrows, FollowsGrows DEF Drafted
  <2>3. drafts' = [x \in Editors |-> drafts'[x]]
    BY <2>1
  <2> QED
    BY <2>2, <2>3 DEF DraftsKept
<1> QED
  BY <1>8, <1>10, <1>11, <1>12, <1>13 DEF MediaInv

LEMMA Turned ==
    ASSUME MediaInv, NEW e \in Editors, Turn(e)
    PROVE  MediaInv'
<1>1. drafts' = [drafts EXCEPT ![e] = NoDraft] /\ UNCHANGED <<made, current, commands>>
  BY DEF Turn
<1>2. DraftsKept'
  <2>1. drafts' = [x \in Editors |-> IF x = e THEN NoDraft ELSE drafts[x]]
    BY <1>1 DEF MediaInv, DraftsKept
  <2>2. \A x \in Editors : drafts'[x] # NoDraft => Drafted(made, drafts'[x])
    BY <2>1 DEF MediaInv, DraftsKept
  <2>3. drafts' = [x \in Editors |-> drafts'[x]] /\ made' = made
    BY <1>1, <2>1
  <2> QED
    BY <2>2, <2>3 DEF DraftsKept
<1> QED
  BY <1>1, <1>2, RestKeeps DEF MediaInv

LEMMA MediaSteps ==
    ASSUME MediaInv,
           \/ \E e \in Editors, k \in MediaKeys :
                  ScriptNext(e, k) \/ BoardNext(e, k) \/ VisualNext(e, k) \/ SubtitleNext(e, k) \/ SpecNext(e, k)
           \/ StoreNext
    PROVE  MediaInv'
<1>1. ASSUME NEW e \in Editors, NEW k \in MediaKeys, ScriptNext(e, k)
      PROVE  MediaInv'
  BY <1>1, ScriptsMade, ScriptsEdited DEF ScriptNext
<1>2. ASSUME NEW e \in Editors, NEW k \in MediaKeys, BoardNext(e, k)
      PROVE  MediaInv'
  BY <1>2, BoardsMade, BoardsRevised DEF BoardNext
<1>3. ASSUME NEW e \in Editors, NEW k \in MediaKeys, VisualNext(e, k)
      PROVE  MediaInv'
  BY <1>3, VisualsMade, VisualsRevised DEF VisualNext
<1>4. ASSUME NEW e \in Editors, NEW k \in MediaKeys, SubtitleNext(e, k)
      PROVE  MediaInv'
  BY <1>4, SubtitlesMade, SubtitlesRevised DEF SubtitleNext
<1>5. ASSUME NEW e \in Editors, NEW k \in MediaKeys, SpecNext(e, k)
      PROVE  MediaInv'
  BY <1>5, SpecsMade, SpecsRevised DEF SpecNext
<1>6. ASSUME NEW e \in Editors, Take(e) \/ Turn(e)
      PROVE  MediaInv'
  BY <1>6, Taken, Turned
<1>7. ASSUME NEW thing \in Ground, Withdraw(thing)
      PROVE  MediaInv'
  <2>1. UNCHANGED <<made, current, commands, drafts>>
    BY <1>7 DEF Withdraw
  <2>2. DraftsKept'
    BY <2>1 DEF MediaInv, DraftsKept
  <2> QED
    BY <2>1, <2>2, RestKeeps DEF MediaInv
<1> QED
  BY <1>1, <1>2, <1>3, <1>4, <1>5, <1>6, <1>7 DEF StoreNext

(* What the invariant says of the lines, their commands, what they are     *)
(* made of and the time they fill.                                         *)
LEMMA MediaLinear == MediaInv => LinesLinear
<1> SUFFICES ASSUME MediaInv, NEW i \in DOMAIN made
             PROVE  LET line == made[i].line
                        peers == {j \in DOMAIN made : made[j].line = line}
                    IN  /\ {made[j].number : j \in peers} = 1 .. Cardinality(peers)
                        /\ made[i].number = 1 <=> made[i].base = 0
                        /\ made[i].base # 0 => made[made[i].base].line = line
                                               /\ made[made[i].base].number = made[i].number - 1
                        /\ Latest(line).number = Cardinality(peers)
  BY DEF LinesLinear
<1>1. made[i].line \in DOMAIN current
  BY DEF MediaInv, CurrentKept
<1>2. /\ made[current[made[i].line]].number = Cardinality(Peers(made, made[i].line))
      /\ {made[j].number : j \in Peers(made, made[i].line)} = 1 .. Cardinality(Peers(made, made[i].line))
  BY <1>1 DEF MediaInv, CurrentKept
<1>3. FollowsOn(made, made[i].line, made[i].number, made[i].base, made[i])
  BY DEF MediaInv, RowsKept, RowKept
<1> QED
  BY <1>2, <1>3 DEF Peers, Latest, FollowsOn

LEMMA MediaMadeOnce == MediaInv => MadeOnce
BY DEF MediaInv, CommandsKept, MadeOnce

LEMMA MediaLineage == MediaInv => LineageKept
<1> SUFFICES ASSUME MediaInv, NEW i \in DOMAIN made
             PROVE  LET v == made[i]
                    IN  /\ v.script # 0 => v.script \in Of("script") /\ v.duration = Duration(v.script)
                        /\ v.board # 0 => v.board \in Of("board") /\ made[v.board].script = v.script
                        /\ v.visuals # 0 => /\ v.visuals \in Of("visuals")
                                            /\ made[v.visuals].script = v.script
                                            /\ made[v.visuals].board = v.board
                        /\ v.base # 0 => LET b == made[v.base]
                                         IN  b.script = v.script /\ b.board = v.board /\ b.visuals = v.visuals
  BY DEF LineageKept
<1>1. MadeOf(made, made[i]) /\ FollowsOn(made, made[i].line, made[i].number, made[i].base, made[i])
  BY DEF MediaInv, RowsKept, RowKept
<1> QED
  BY <1>1 DEF MadeOf, FollowsOn, KeptAs, Of, Duration

LEMMA MediaTime == MediaInv => TimeKept
<1> SUFFICES ASSUME MediaInv
             PROVE  TimeKept
  OBVIOUS
<1>1. ASSUME NEW i \in Of("board"), NEW t \in 0 .. SegmentEnds[Duration(i)][3] - 1
      PROVE  \E n \in DOMAIN PlanOf[made[i].body] :
                 /\ Shown(PlanOf[made[i].body], t) = {n}
                 /\ PlanOf[made[i].body][n].segment = SegmentAt(Duration(i), t)
  <2>1. Duration(i) \in Durations /\ made[i].body \in DOMAIN PlanOf /\ PlanFits(made[i].body, Duration(i))
    BY RowAt DEF Fits, Duration
  <2> QED
    BY <2>1, PlanShows
<1>2. ASSUME NEW i \in Of("subtitle"), NEW t \in 0 .. SegmentEnds[Duration(i)][3] - 1
      PROVE  Cardinality(Shown(CuesOf[made[i].body], t)) <= 1
  <2>1. Duration(i) \in Durations /\ made[i].body \in DOMAIN CuesOf /\ TrackFits(made[i].body, Duration(i))
    BY RowAt DEF Fits, Duration
  <2>2. t \in Nat
    BY <2>1, MediaBounds
  <2> QED
    BY <2>1, <2>2, TrackShows
<1>3. ASSUME NEW i \in Of("visuals"), NEW n \in DOMAIN ItemsOf[made[i].body]
      PROVE  ItemsOf[made[i].body][n].time \in 0 .. SegmentEnds[Duration(i)][3] - 1
  <2>1. /\ Duration(i) \in Durations /\ made[i].body \in DOMAIN ItemsOf
        /\ ItemsOf[made[i].body][n].role = "keyframe" => ItemsOf[made[i].body][n].time < SegmentEnds[Duration(i)][3]
    BY <1>3, RowAt DEF Fits, Duration
  <2>2. /\ ItemsOf[made[i].body][n].time \in Nat
        /\ ItemsOf[made[i].body][n].role # "keyframe" => ItemsOf[made[i].body][n].time = 0
    BY <1>3, <2>1, MediaBounds
  <2>3. SegmentEnds[Duration(i)][3] \in Nat /\ 0 < SegmentEnds[Duration(i)][3]
    BY <2>1, MediaBounds
  <2> QED
    BY <2>1, <2>2, <2>3
<1>4. ASSUME NEW i \in Of("script")
      PROVE  Spoken(made[i].words) <= SpokenBudget[Duration(i)]
  BY RowAt DEF Fits, Duration
<1> QED
  BY <1>1, <1>2, <1>3, <1>4 DEF TimeKept

-----------------------------------------------------------------------------
(* Video as a whole: nothing made yet, then a step of one of the services. *)
VideoInit == RenderInit /\ MediaInit(<<>>) /\ CheckInit

MediaNext ==
    \/ \E e \in Editors, k \in MediaKeys :
           ScriptNext(e, k) \/ BoardNext(e, k) \/ VisualNext(e, k) \/ SubtitleNext(e, k) \/ SpecNext(e, k)
    \/ StoreNext

VideoNext ==
    \/ RenderNext /\ UNCHANGED <<mediaVars, checkVars>>
    \/ MediaNext /\ UNCHANGED <<renderVars, checkVars>>
    \/ (FileNext \/ AssetNext) /\ UNCHANGED <<renderVars, mediaVars>>

VideoSpec == VideoInit /\ [][VideoNext]_videoVars

VideoInv == RenderInv /\ MediaInv /\ CheckInv

(* The three invariants hold in every reachable state: each step is one of *)
(* one service and leaves the records of the others.                       *)
THEOREM VideoSound == VideoSpec => []VideoInv
<1>1. VideoInit => VideoInv
  BY RenderStarts, MediaStarts, ChecksStart DEF VideoInit, VideoInv
<1>2. VideoInv /\ [VideoNext]_videoVars => VideoInv'
  <2> SUFFICES ASSUME VideoInv, [VideoNext]_videoVars
               PROVE  VideoInv'
    OBVIOUS
  <2>1. CASE RenderNext /\ UNCHANGED <<mediaVars, checkVars>>
    BY <2>1, RenderSteps1, MediaKeeps, ChecksKeep DEF VideoInv
  <2>2. CASE MediaNext /\ UNCHANGED <<renderVars, checkVars>>
    BY <2>2, MediaSteps, RenderKeeps, ChecksKeep DEF VideoInv, MediaNext
  <2>3. CASE (FileNext \/ AssetNext) /\ UNCHANGED <<renderVars, mediaVars>>
    BY <2>3, ChecksMove, RenderKeeps, MediaKeeps DEF VideoInv
  <2>4. CASE UNCHANGED videoVars
    BY <2>4, RenderKeeps, MediaKeeps, ChecksKeep DEF VideoInv, videoVars
  <2> QED
    BY <2>1, <2>2, <2>3, <2>4 DEF VideoNext
<1> QED
  BY <1>1, <1>2, PTL DEF VideoSpec

(* A render job that succeeded can show its artifact and a retry is        *)
(* carried out once (service.py, retry.py); versions follow one line, made *)
(* by one command, belong together down to the script and fill its time    *)
(* (the five stores); reports and lineages say what was found (the         *)
(* checks).                                                                *)
THEOREM VideoKeptAlways == VideoSpec => []VideoKept
<1>1. VideoInv => VideoKept
  BY RenderGives, MediaLinear, MediaMadeOnce, MediaLineage, MediaTime, FilesSound, ContentsSound, LineagesAgree,
     LastFiled DEF VideoInv, VideoKept
<1> QED
  BY <1>1, VideoSound, PTL
=============================================================================
