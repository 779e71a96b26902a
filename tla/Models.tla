------------------------------- MODULE Models -------------------------------
(***************************************************************************)
(* From the model a client names to the model of Bedrock that answers, and *)
(* back: translate/models.rs.  A name is a record of its parts:            *)
(* claude-<family>-<major>[-<minor>][-<date>], followed in Bedrock's names *)
(* by an optional tag (-v1:0).  Mappings are kept in a cache, with what is *)
(* built into the program behind it; a name that neither knows is looked   *)
(* for among the inference profiles, and the answer is kept for good.  The *)
(* code compares text, so that a number is kept as its digits: what begins *)
(* with claude-opus-4-1 may be claude-opus-4-10.                           *)
(***************************************************************************)
EXTENDS Integers, Sequences

CONSTANTS
    Families, Majors, Minors, Dates,
    Absent,           \* a part that a name has not; no name
    BuiltIn,          \* names with a model in hardcoded_anthropic_to_bedrock()
    BuiltInReverse,   \* <<stem, name>> in the order of the arms of
                      \* hardcoded_bedrock_to_anthropic()
    MaxProfiles       \* bound of the model: inference profiles

Name == [family : Families, major : Majors, minor : Minors \cup {Absent},
         date : Dates \cup {Absent}]

BedrockModel == [name : Name, tag : BOOLEAN]

SameVersion(m, n) == m.family = n.family /\ m.major = n.major /\ m.minor = n.minor

\* A date has eight digits and a minor version at most three, by which
\* strip_date_suffix() and bedrock_stem_matches() tell them apart.  What is
\* built in keeps the version.
ASSUME ModelsAssumption ==
    /\ MaxProfiles \in Nat
    /\ Majors \subseteq Seq(0..9)
    /\ \A n \in Minors : n \in Seq(0..9) /\ Len(n) \in 1..3
    /\ \A d \in Dates : d \in Seq(0..9) /\ Len(d) = 8
    /\ Absent \notin Minors \cup Dates \cup BedrockModel
    /\ \A list \in SUBSET BedrockModel : Absent # list
    /\ DOMAIN BuiltIn \subseteq Name
    /\ \A m \in DOMAIN BuiltIn : BuiltIn[m] \in BedrockModel /\ SameVersion(m, BuiltIn[m].name)
    /\ BuiltInReverse \in Seq(Name \X Name)
    /\ \A k \in DOMAIN BuiltInReverse : SameVersion(BuiltInReverse[k][1], BuiltInReverse[k][2])

VARIABLES
    mappings,    \* the cache: per name a row [suffix, display], or Absent
    profiles,    \* what ListInferenceProfiles returns, in its order
    guessed      \* history: names mapped to a model of another version

modelVars == <<mappings, profiles, guessed>>

\* strip_date_suffix()
StripDate(m) == [m EXCEPT !.date = Absent]

\* is_minor_version_bearing()
MinorBearing(m) == m.minor # Absent

\* The digits u are where those of v begin.
Begins(u, v) == Len(u) <= Len(v) /\ \A k \in 1..Len(u) : u[k] = v[k]

\* The number that follows the major version: the minor one, or the date.
Following(n) == IF n.minor # Absent THEN n.minor ELSE n.date

\* The text of m occurs in that of n, which may go on within the last number.
Occurs(m, n) ==
    /\ m.family = n.family
    /\ \/ m.date # Absent /\ SameVersion(m, n) /\ m.date = n.date
       \/ /\ m.date = Absent /\ m.minor # Absent
          /\ m.major = n.major /\ Following(n) # Absent /\ Begins(m.minor, Following(n))
       \/ m.date = Absent /\ m.minor = Absent /\ Begins(m.major, n.major)

\* Faulty: the text that follows is not looked at.
StemMatchesFaulty(n, stem) == Occurs(stem, n)

\* bedrock_stem_matches(): a minor version must not follow.
StemMatches(n, stem) ==
    /\ Occurs(stem, n)
    /\ stem.minor = Absent /\ stem.date = Absent /\ stem.major = n.major => n.minor = Absent

-----------------------------------------------------------------------------
(* Forward *)

\* ModelCache::lookup_forward()
Cached(m) == IF mappings[m] = Absent THEN Absent ELSE mappings[m].suffix

\* ModelCache::lookup_forward_with_fallback()
WithFallback(m) ==
    IF Cached(m) # Absent THEN Cached(m)
    ELSE IF StripDate(m) # m /\ MinorBearing(m) THEN Cached(StripDate(m))
    ELSE Absent

\* hardcoded_anthropic_to_bedrock()
HardCoded(m) == IF m \in DOMAIN BuiltIn THEN BuiltIn[m] ELSE Absent

\* anthropic_to_bedrock(): a cache that is being written is passed over.
\* Absent: the name itself, which has no dot, so that it is looked for.
Forward(m, contended) ==
    IF ~contended /\ WithFallback(m) # Absent THEN WithFallback(m) ELSE HardCoded(m)

-----------------------------------------------------------------------------
(* Discovery *)

FirstOf(places) == CHOOSE k \in places : \A j \in places : k <= j

\* select_profile_id(): the exact stem, the stem with a tag, and then any
\* profile in whose name the stem occurs.
Select(ids, stripped) ==
    LET exact == {k \in DOMAIN ids : ids[k].name = stripped /\ ~ids[k].tag}
        versioned == {k \in DOMAIN ids : ids[k].name = stripped}
        fuzzy == {k \in DOMAIN ids : Occurs(stripped, ids[k].name)}
    IN  CASE exact # {} -> ids[FirstOf(exact)]
          [] exact = {} /\ versioned # {} -> ids[FirstOf(versioned)]
          [] exact = {} /\ versioned = {} /\ fuzzy # {} -> ids[FirstOf(fuzzy)]
          [] OTHER -> Absent

\* build_mapping_row(): of the name as it was asked for.
MappingRow(m, chosen) ==
    [suffix |-> chosen, display |-> IF StripDate(m) = m THEN Absent ELSE m]

\* discover_model(), for a name that is not known, and the insertion into the
\* cache by its caller (handlers.rs:735)
Discover(m) ==
    LET chosen == Select(profiles, StripDate(m))
    IN  /\ \E contended \in BOOLEAN : Forward(m, contended) = Absent
        /\ chosen # Absent
        /\ mappings' = [mappings EXCEPT ![m] = MappingRow(m, chosen)]
        /\ guessed' = IF SameVersion(m, chosen.name) THEN guessed \ {m}
                      ELSE guessed \cup {m}
        /\ UNCHANGED profiles

\* AWS publishes another profile, at any place of the list.
Publish(b, k) ==
    /\ Len(profiles) < MaxProfiles
    /\ profiles' = SubSeq(profiles, 1, k - 1) \o <<b>> \o SubSeq(profiles, k, Len(profiles))
    /\ UNCHANGED <<mappings, guessed>>

-----------------------------------------------------------------------------
(* Back *)

\* derive_canonical_from_bedrock_suffix(), strip_bedrock_version_tag()
Canonical(b) == b.name

\* What a matching row makes of itself.
Shown(row) == IF row.display # Absent THEN row.display ELSE Canonical(row.suffix)

Mapped == {m \in DOMAIN mappings : mappings[m] # Absent}

\* ModelCache::lookup_reverse(): the first row that matches, in no order.
CachedReverse(b) ==
    LET exact == {m \in Mapped : mappings[m].suffix = b}
        byStem == {m \in Mapped : \/ StemMatches(b.name, m)
                                  \/ /\ ~mappings[m].suffix.tag
                                     /\ StemMatches(b.name, mappings[m].suffix.name)}
    IN  {Shown(mappings[m]) : m \in IF exact # {} THEN exact ELSE byStem}

\* hardcoded_bedrock_to_anthropic(): the first arm that matches.
HardCodedReverse(b) ==
    LET fits == {k \in DOMAIN BuiltInReverse : StemMatches(b.name, BuiltInReverse[k][1])}
    IN  IF fits = {} THEN b.name
        ELSE BuiltInReverse[FirstOf(fits)][2]

\* bedrock_to_anthropic(): what it may answer.
Answered(b) ==
    {HardCodedReverse(b)} \cup CachedReverse(b)

-----------------------------------------------------------------------------
(* What an endpoint has, and what GET /v1/models makes of it *)

\* is_covered(): the text of one is a prefix of the other's.
Covers(b, c) == Occurs(b.name, c.name) /\ (b.tag => c = b)

\* What the region lists, with those of the first resolved models that nothing
\* covers.
Union(cri, resolved) ==
    LET union[n \in 0..Len(resolved)] ==
          IF n = 0 THEN cri
          ELSE IF \E a \in union[n - 1] : Covers(a, resolved[n]) THEN union[n - 1]
          ELSE union[n - 1] \cup {resolved[n]}
    IN  union

Members(list) == {list[k] : k \in DOMAIN list}

\* compute_health_state(): the profiles that the region lists (Absent: the call
\* fails), the models that the endpoint's overrides stand for, in the order of
\* the map, and that of its older override; Absent among them: the call fails,
\* or what it returns cannot be parsed.
ComputeHealthState(cri, resolved, legacy, hasLegacy) ==
    LET Sick == [healthy |-> FALSE, available |-> {}, derived |-> {}]
        Added == Union(cri, resolved)[Len(resolved)]
    IN  CASE cri = Absent -> Sick
          [] cri # Absent /\ resolved = <<>> /\ ~hasLegacy ->
                [healthy |-> TRUE, available |-> cri, derived |-> {}]
          [] cri # Absent /\ resolved = <<>> /\ hasLegacy ->
                IF legacy = Absent THEN Sick
                ELSE [healthy |-> TRUE, available |-> {legacy}, derived |-> {legacy}]
          [] OTHER ->
                IF Absent \in Members(resolved) THEN Sick
                ELSE [healthy |-> TRUE, available |-> Added, derived |-> Added \ cri]

\* should_probe_profile(): which of them the health loop tries the betas on.
Probed(state, aipEnabled) ==
    IF aipEnabled THEN state.available ELSE state.available \ state.derived

\* model_display_name() shows the version, and no date.
DisplayName(m) == StripDate(m)

\* build_models_response_with_variants(): an entry for each name, and another
\* for each with a profile on which the beta of long contexts is known to work.
ModelsResponse(pairs, capable) ==
    LET Entry(p, long) == [id |-> p[1], long |-> long, shown |-> DisplayName(p[1])]
    IN  {Entry(p, FALSE) : p \in pairs}
            \cup {Entry(p, TRUE) : p \in {q \in pairs : q[2] \in capable}}

\* list_models(): what it may list of the gateway's own models and of those of
\* the endpoints, [available, supported].
ListedModels(default, pool) ==
    LET bedrockIds == default \cup UNION {c.available : c \in pool}
        capable == UNION {c.available \cap c.supported : c \in pool}
    IN  ModelsResponse(UNION {Answered(b) \X {b} : b \in bedrockIds}, capable)

-----------------------------------------------------------------------------

ModelsInit ==
    /\ mappings = [m \in Name |-> Absent]
    /\ profiles = <<>>
    /\ guessed = {}

ModelsNext ==
    \/ \E m \in Name : Discover(m)
    \/ \E b \in BedrockModel, k \in 1..(Len(profiles) + 1) : Publish(b, k)

ModelsSpec == ModelsInit /\ [][ModelsNext]_modelVars

-----------------------------------------------------------------------------

\* A stem that ends within a number of n: claude-opus-4-1 in claude-opus-4-10,
\* and claude-opus-4-2 in claude-opus-4-20250514.
EndsWithin(stem, n) ==
    /\ Occurs(stem, n) /\ stem.date = Absent
    /\ IF stem.minor = Absent THEN stem.major # n.major ELSE stem.minor # n.minor

\* The stems that a model is compared with on the way back.
Stems == Mapped \cup {mappings[m].suffix.name : m \in Mapped}
         \cup {BuiltInReverse[k][1] : k \in DOMAIN BuiltInReverse}

\* No name that occurs in its own has been given to another version, and no
\* stem ends within one of its numbers.
Unmistaken(b) ==
    /\ \A m \in guessed : ~Occurs(StripDate(m), b.name)
    /\ \A s \in Stems : ~EndsWithin(s, b.name)

\* With an override for b at an endpoint, and its beta tried with success: what
\* GET /v1/models lists is there, and b is listed with its beta, unless a name
\* that is a prefix of b's stands for it.
ListsWhatIsThere(b) ==
    LET state == ComputeHealthState(Members(profiles), <<b>>, Absent, FALSE)
        listed == ListedModels({}, {[available |-> state.available,
                                     supported |-> {b} \cap Probed(state, TRUE)]})
    IN  (\A p \in state.available : Unmistaken(p)) =>
            /\ \A e \in listed :
                  \E p \in state.available :
                      SameVersion(e.shown, p.name) /\ (e.long => p = b)
            /\ \/ \E e \in listed : e.long /\ SameVersion(e.id, b.name)
               \/ \E p \in Members(profiles) \ {b} : Covers(p, b)

\* The names by whose rows a request may be answered.
AskedAs(m) == {m} \cup (IF MinorBearing(m) THEN {StripDate(m)} ELSE {})

\* A request is answered by a model of the version it names, whatever has been
\* discovered before and whether or not the cache can be read, unless the very
\* name, or the one without its date, was given to another version by the third
\* pass of select_profile_id(), and then by one in whose text its own occurs; a
\* response names a model of the version that answered, and list_models()
\* models of the versions that are available, as long as no such name occurs in
\* theirs and no known stem ends within one of their numbers.
SameModel ==
    /\ \A m \in Name, contended \in BOOLEAN :
          LET b == Forward(m, contended)
          IN  \/ b = Absent \/ SameVersion(m, b.name)
              \/ AskedAs(m) \cap guessed # {} /\ Occurs(StripDate(m), b.name)
    /\ profiles # <<>> =>
          \A b \in BedrockModel :
             /\ Unmistaken(b) => \A n \in Answered(b) : SameVersion(n, b.name)
             /\ ListsWhatIsThere(b)
=============================================================================
