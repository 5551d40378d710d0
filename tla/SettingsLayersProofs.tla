------------------------ MODULE SettingsLayersProofs ------------------------
(***************************************************************************)
(* Proofs about SettingsLayers, for every set of documents.  The inductive   *)
(* invariant says what `effective` is at each stage as a function of the     *)
(* request and the server's settings; that the result is the documented one  *)
(* is then a fact about the two readers of a text, and lemmas ReadableFinds  *)
(* and ScannableMentions give it: both see what was written.                 *)
(***************************************************************************)
EXTENDS SettingsLayers, TLAPS

Values == [Fields -> SUBSET Layers]

\* What `effective` is, stage by stage.
Computed ==
    /\ stage = "layered" => effective = Layered(request, settings)
    /\ stage = "converted" => effective = Optioned(request, Layered(request, settings))

IInv == TypeOK /\ settings = ApplyEnv(LoadPref(pref), env) /\ Computed

-----------------------------------------------------------------------------
\* The parser returns a value for every field.
LEMMA ParsedType ==
    ASSUME NEW t, NEW layer \in Layers
    PROVE  Parsed(t, layer) \in Values
  BY DEF Parsed, Values, DefaultSettings, Layers

LEMMA StartType ==
    ASSUME NEW d, NEW e \in BOOLEAN
    PROVE  ApplyEnv(LoadPref(d), e) \in Values
<1>1. DefaultSettings \in Values
  BY DEF DefaultSettings, Values, Layers
<1>2. Parsed(Text(d, {}), "pref") \in Values
  BY ParsedType DEF Layers
<1>3. LoadPref(d) \in Values
  BY <1>1, <1>2 DEF LoadPref
<1> QED
  BY <1>3 DEF ApplyEnv, Values, Layers

LEMMA LayeredType ==
    ASSUME NEW r, NEW s \in Values
    PROVE  Layered(r, s) \in Values
<1> DEFINE t == Text(r.doc, r.added)
<1>1. Parsed(t, "external") \in Values
  BY ParsedType DEF Layers
<1>2. Overlay(t, s) \in Values
  BY <1>1 DEF Overlay, Values
<1>3. s["api_access_token"] \in SUBSET Layers
  BY DEF Values, Fields
<1>4. [Overlay(t, s) EXCEPT !.api_access_token = s.api_access_token] \in Values
  BY <1>2, <1>3 DEF Values
<1> QED
  BY <1>2, <1>4 DEF Layered

LEMMA OptionedType ==
    ASSUME NEW r, NEW s \in Values
    PROVE  Optioned(r, s) \in Values
  BY DEF Optioned, Values, Layers

-----------------------------------------------------------------------------
LEMMA InitInv == Init => IInv
<1> SUFFICES ASSUME Init PROVE IInv
  OBVIOUS
<1>1. Written(pref) /\ Written(NoDocument) /\ env \in BOOLEAN
  BY DocumentsAssumption, EnvAssumption DEF Init
<1>2. settings \in Values
  BY <1>1, StartType DEF Init
<1> QED
  BY <1>1, <1>2 DEF Init, IInv, TypeOK, Computed, NoRequest, Values

LEMMA NextInv == IInv /\ [Next]_vars => IInv'
<1> SUFFICES ASSUME IInv, [Next]_vars PROVE IInv'
  OBVIOUS
<1> USE DEF IInv
<1>1. CASE Accept
  <2>1. PICK r \in Request : request' = r
    BY <1>1 DEF Accept
  <2>2. Written(r.doc)
    BY DocumentsAssumption DEF Request
  <2> QED
    BY <1>1, <2>1, <2>2 DEF Accept, TypeOK, Computed, Request
<1>2. CASE Layer
  <2>1. Layered(request, settings) \in Values
    BY LayeredType DEF TypeOK, Values
  <2> QED
    BY <1>2, <2>1 DEF Layer, TypeOK, Computed, Values
<1>3. CASE Convert
  <2>1. Optioned(request, effective) \in Values
    BY OptionedType DEF TypeOK, Values
  <2> QED
    BY <1>3, <2>1 DEF Convert, TypeOK, Computed, Values
<1>4. CASE Answer
  <2>1. Written(NoDocument)
    BY DocumentsAssumption
  <2> QED
    BY <1>4, <2>1 DEF Answer, TypeOK, Computed, NoRequest
<1>5. CASE UNCHANGED vars
  BY <1>5 DEF vars, TypeOK, Computed
<1> QED
  BY <1>1, <1>2, <1>3, <1>4, <1>5 DEF Next

THEOREM Invariance == Spec => []IInv
  BY InitInv, NextInv, PTL DEF Spec

\* The types of the variables: the settings in force always have a value for
\* every field, whatever a text leaves out.
THEOREM TypeCorrect == Spec => []TypeOK
<1>1. IInv => TypeOK
  BY DEF IInv
<1> QED
  BY <1>1, Invariance, PTL

-----------------------------------------------------------------------------
LEMMA LayeredToken ==
    ASSUME NEW r, NEW s \in Values, ~Trusted(r)
    PROVE  Layered(r, s)["api_access_token"] = s["api_access_token"]
<1> DEFINE merged == Overlay(Text(r.doc, r.added), s)
<1>1. "api_access_token" \in DOMAIN merged
  BY DEF Overlay, Fields
<1>2. Layered(r, s) \in {s, [merged EXCEPT !.api_access_token = s.api_access_token]}
  BY DEF Layered
<1> HIDE DEF merged
<1> QED
  BY <1>1, <1>2

\* A configuration that is not trusted leaves the token as it is, however it
\* is written and whatever else the request carries.
THEOREM TokenKept == Spec => []TokenProtected
<1>1. IInv => TokenProtected
  <2> SUFFICES ASSUME IInv, stage \in {"layered", "converted"}, ~Trusted(request)
               PROVE  effective["api_access_token"] = settings["api_access_token"]
    BY DEF TokenProtected
  <2>1. Layered(request, settings)["api_access_token"] = settings["api_access_token"]
    BY LayeredToken DEF IInv, TypeOK, Values
  <2>2. "api_access_token" \notin request.options
    BY DEF IInv, TypeOK, RequestOptions
  <2>3. CASE stage = "layered"
    BY <2>1, <2>3 DEF IInv, Computed
  <2>4. CASE stage = "converted"
    BY <2>1, <2>2, <2>4 DEF IInv, Computed, Optioned, Fields
  <2> QED
    BY <2>3, <2>4
<1> QED
  BY <1>1, Invariance, PTL

-----------------------------------------------------------------------------
\* In a Readable text the parser finds the fields that were written.
LEMMA ReadableFinds ==
    ASSUME NEW t, Readable(t), NEW f
    PROVE  Finds(t, f) <=> Sets(t.doc, f)
<1>1. ASSUME Finds(t, f) PROVE Sets(t.doc, f)
  BY <1>1 DEF Finds, Sets, Readable
<1>2. ASSUME Sets(t.doc, f) PROVE Finds(t, f)
  <2>1. PICK e \in t.doc.entries : e.field = f /\ e.section \in SectionsOf[t.doc.format][f]
    BY <1>2 DEF Sets
  <2> QED
    BY <2>1 DEF Readable, Finds
<1> QED
  BY <1>1, <1>2

\* In a Scannable one the scan mentions those, and the lists of the request.
LEMMA ScannableMentions ==
    ASSUME NEW t, Written(t.doc), Readable(t), Scannable(t), NEW f
    PROVE  Mentions(t, f) <=> Sets(t.doc, f) \/ f \in t.added
<1>1. ASSUME HasKey(t.doc, f) PROVE Sets(t.doc, f)
  BY <1>1 DEF HasKey, Sets, Readable
<1>2. ASSUME HasTable(t.doc, f) PROVE Sets(t.doc, f)
  <2>1. PICK e \in t.doc.entries :
            \/ e.shape = "table" /\ e.field = f /\ f \in RequestLists
            \/ t.doc.format = "yaml" /\ e.section = "rulesets" /\ f = "rulesets"
            \/ /\ t.doc.format = "ini" /\ e.section = "proxy_groups"
               /\ f = "custom_proxy_groups"
    BY <1>2 DEF HasTable
  <2>2. e.section \in SectionsOf[t.doc.format][e.field]
    BY DEF Readable
  <2>3. e.field = f
    <3>1. CASE e.shape = "table" /\ e.field = f
      BY <3>1
    <3>2. CASE t.doc.format = "yaml" /\ e.section = "rulesets" /\ f = "rulesets"
      BY <3>2 DEF Scannable
    <3>3. CASE t.doc.format = "ini" /\ e.section = "proxy_groups" /\ f = "custom_proxy_groups"
      <4>1. e.field \in Fields
        BY DEF Written, Entry
      <4>2. e.section \in IniSections[e.field]
        BY <2>2, <3>3 DEF SectionsOf
      <4> QED
        BY <3>3, <4>1, <4>2 DEF IniSections, Fields, Booleans, Lists
    <3> QED
      BY <2>1, <3>1, <3>2, <3>3
  <2> QED
    BY <2>2, <2>3 DEF Sets
<1>3. ASSUME Sets(t.doc, f) PROVE HasKey(t.doc, f) \/ HasTable(t.doc, f)
  <2>1. PICK e \in t.doc.entries : e.field = f /\ e.section \in SectionsOf[t.doc.format][f]
    BY <1>3 DEF Sets
  <2>2. CASE e.shape = "table" /\ f \in RequestLists
    BY <2>1, <2>2 DEF HasTable
  <2>3. CASE e.shape = "line"
    <3>1. t.doc.format = "yaml" /\ f = "custom_proxy_groups" => e.section = "proxy_groups"
      BY <2>1 DEF Scannable, SectionsOf, YamlSections
    <3> QED
      BY <2>1, <2>3, <3>1 DEF HasKey
  <2> QED
    BY <2>1, <2>2, <2>3 DEF Scannable
<1> QED
  BY <1>1, <1>2, <1>3 DEF Mentions

\* What a Readable pref file and the environment leave in the server's settings.
LEMMA ServerValue ==
    ASSUME NEW f \in Fields, IInv, Readable(Text(pref, {}))
    PROVE  settings[f] = FromServer(f)
<1> DEFINE t == Text(pref, {})
<1>1. t.doc = pref /\ t.added = {} /\ Parses(t)
  BY DEF Text, Readable
<1>2. Parsed(t, "pref")[f] = IF Sets(pref, f) THEN {"pref"} ELSE DefaultSettings[f]
  <2>1. Finds(t, f) <=> Sets(pref, f)
    BY <1>1, ReadableFinds
  <2>2. Parsed(t, "pref")[f] = (IF Finds(t, f) THEN {"pref"} ELSE DefaultSettings[f]) \cup {}
    BY <1>1 DEF Parsed
  <2> QED
    BY <2>1, <2>2
<1> DEFINE loaded == Parsed(t, "pref")
<1>3. settings = IF env THEN [loaded EXCEPT !.api_access_token = {"env"}] ELSE loaded
  BY <1>1 DEF IInv, LoadPref, ApplyEnv
<1>4. f \in DOMAIN loaded
  BY DEF Parsed
<1> HIDE DEF loaded
<1>5. CASE env
  BY <1>2, <1>3, <1>4, <1>5 DEF FromServer, loaded
<1>6. CASE ~env
  BY <1>2, <1>3, <1>6 DEF FromServer, loaded
<1> QED
  BY <1>5, <1>6

\* The overlay of such a text.
LEMMA OverlayValue ==
    ASSUME NEW r, NEW s, NEW f \in Fields,
           Written(r.doc),
           Readable(Text(r.doc, r.added)), Scannable(Text(r.doc, r.added))
    PROVE  Overlay(Text(r.doc, r.added), s)[f] =
              IF Sets(r.doc, f) \/ f \in r.added
              THEN (IF Sets(r.doc, f) THEN {"external"} ELSE DefaultSettings[f])
                       \cup (IF f \in r.added THEN {"request"} ELSE {})
              ELSE s[f]
<1> DEFINE t == Text(r.doc, r.added)
<1>1. t.doc = r.doc /\ t.added = r.added
  BY DEF Text
<1> HIDE DEF t
<1>2. Finds(t, f) <=> Sets(r.doc, f)
  BY <1>1, ReadableFinds DEF t
<1>3. Mentions(t, f) <=> Sets(r.doc, f) \/ f \in r.added
  BY <1>1, ScannableMentions DEF t
<1>4. Overlay(t, s)[f] = IF Mentions(t, f) THEN Parsed(t, "external")[f] ELSE s[f]
  BY DEF Overlay
<1>5. Parsed(t, "external")[f] = (IF Finds(t, f) THEN {"external"} ELSE DefaultSettings[f])
                                    \cup (IF f \in t.added THEN {"request"} ELSE {})
  BY DEF Parsed
<1> QED
  BY <1>1, <1>2, <1>3, <1>4, <1>5 DEF t

\* The layers have the documented priority on such texts: for every pref file,
\* external configuration and request.
THEOREM PriorityHolds == Spec => []Priority
<1>1. IInv => Priority
  <2> SUFFICES ASSUME IInv, stage = "converted",
                      Readable(Text(pref, {})), Readable(text), Scannable(text),
                      NEW f \in Fields
               PROVE  effective[f] = Promised(request, f)
    BY DEF Priority
  <2> DEFINE r == request
             merged == Overlay(Text(r.doc, r.added), settings)
  <2>1. /\ Written(r.doc)
        /\ Readable(Text(r.doc, r.added)) /\ Scannable(Text(r.doc, r.added))
        /\ Parses(Text(r.doc, r.added))
    BY DEF IInv, TypeOK, text, Readable
  <2>2. r.added \subseteq RequestLists /\ r.options \subseteq RequestOptions
    BY DEF IInv, TypeOK
  <2>3. settings[f] = FromServer(f)
    BY ServerValue
  <2>4. merged[f] = IF Sets(r.doc, f) \/ f \in r.added
                    THEN (IF Sets(r.doc, f) THEN {"external"} ELSE DefaultSettings[f])
                             \cup (IF f \in r.added THEN {"request"} ELSE {})
                    ELSE settings[f]
    BY <2>1, OverlayValue
  <2>5. f \in r.added => DefaultSettings[f] = {}
    BY <2>2 DEF DefaultSettings, RequestLists, Lists
  <2>6. effective[f] = IF f \in r.options THEN {"request"} ELSE Layered(r, settings)[f]
    BY DEF IInv, Computed, Optioned
  <2>7. f \in DOMAIN merged
    BY DEF Overlay
  <2>8. Layered(r, settings) =
           IF Trusted(r) THEN merged
           ELSE [merged EXCEPT !.api_access_token = settings.api_access_token]
    BY <2>1 DEF Layered
  <2> HIDE DEF merged, r
  <2>9. CASE f \in r.options
    BY <2>2, <2>6, <2>9 DEF Promised, FromRequest, r
  <2>10. CASE f \notin r.options /\ (Trusted(r) \/ f # "api_access_token")
    <3>1. Layered(r, settings)[f] = merged[f]
      BY <2>7, <2>8, <2>10
    <3>2. Promised(r, f) = IF FromExternal(r, f) \cup FromRequest(r, f) # {}
                           THEN FromExternal(r, f) \cup FromRequest(r, f)
                           ELSE FromServer(f)
      BY <2>2, <2>10 DEF Promised, FromRequest, RequestOptions, RequestLists
    <3>3. merged[f] = IF FromExternal(r, f) \cup FromRequest(r, f) # {}
                      THEN FromExternal(r, f) \cup FromRequest(r, f)
                      ELSE FromServer(f)
      BY <2>3, <2>4, <2>5, <2>10 DEF FromExternal, FromRequest
    <3> QED
      BY <2>6, <2>10, <3>1, <3>2, <3>3 DEF r
  <2>11. CASE f \notin r.options /\ ~Trusted(r) /\ f = "api_access_token"
    <3>1. Layered(r, settings)[f] = settings[f]
      BY <2>7, <2>8, <2>11
    <3>2. Promised(r, f) = FromServer(f)
      BY <2>11 DEF Promised, RequestOptions
    <3> QED
      BY <2>3, <2>6, <2>11, <3>1, <3>2 DEF r
  <2> QED
    BY <2>9, <2>10, <2>11
<1> QED
  BY <1>1, Invariance, PTL
=============================================================================
