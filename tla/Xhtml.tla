------------------------------- MODULE Xhtml -------------------------------
(***************************************************************************)
(* A content document as the three readers of the code see it: the text    *)
(* extractor (core/epub_corpus.rs), the writer of anchors                  *)
(* (core/epub_overlay.rs, epub_graphic.rs) and the validator               *)
(* (core/epub_validate.rs).                                                *)
(*                                                                         *)
(* Element n of a document has a class - "body", "block", "break",         *)
(* "hidden" (head, svg, script...), "inline" -, an id and the image it     *)
(* shows, and opens and closes with the parser events from[n] and to[n]:   *)
(* the same event if it is empty.  text is a function from the other       *)
(* events to what they are: "text", "cdata" or an entity reference.  White *)
(* space is not an event.                                                  *)
(***************************************************************************)
EXTENDS Naturals, Sequences, FiniteSets

None == << >>
Blank == <<"blank">>      (* an id attribute without a visible character    *)

(* An id is a base and the number unique_id appends to it (1: none).       *)
Ids(d) == {d.id[n] : n \in DOMAIN d.id} \ {None, Blank}

UniqueId_Base(base, used) == <<base, 1>>
UniqueId(base, used) ==
  LET free == {k \in 1..(Cardinality(used) + 1) : <<base, k>> \notin used}
  IN  <<base, CHOOSE k \in free : \A j \in free : k <= j>>

-----------------------------------------------------------------------------
(* Where elements are.                                                     *)

Around(d, i) == {n \in DOMAIN d.class : d.from[n] <= i /\ i <= d.to[n]}

(* suppressed_depth > 0, or the element that starts or ends it.            *)
Hidden(d, i) == \E n \in Around(d, i) : d.class[n] = "hidden"

Boundaries(d) ==
  {i \in UNION {{d.from[n], d.to[n]} : n \in {n \in DOMAIN d.class : d.class[n] \in {"block", "break"}}} :
     ~Hidden(d, i)}

(* Anchors are for elements with content.                                  *)
Containers(d) ==
  {n \in DOMAIN d.class :
     d.class[n] \in {"body", "block"} /\ d.from[n] # d.to[n] /\ ~Hidden(d, d.from[n])}

Ordinal(d, n) == Cardinality({m \in Containers(d) : d.from[m] <= d.from[n]})

(* stack.last(), for a piece of text: every piece is inside the body.      *)
Innermost(d, i) ==
  LET around == Around(d, i) \cap Containers(d)
  IN  CHOOSE n \in around : \A m \in around : d.from[m] <= d.from[n]

-----------------------------------------------------------------------------
(* Lines: what stands between two boundaries, if there is any text.        *)

Pieces(d, kinds) == {i \in DOMAIN d.text : d.text[i] \in kinds /\ ~Hidden(d, i)}

LineStarts(d, kinds) ==
  LET pieces == Pieces(d, kinds)
      boundaries == Boundaries(d)
  IN  {i \in pieces : \A j \in pieces : j < i => \E b \in boundaries : j < b /\ b < i}

LineStart(d, kinds, line) ==
  LET starts == LineStarts(d, kinds)
  IN  CHOOSE i \in starts : Cardinality({j \in starts : j <= i}) = line

LineCount(d, kinds) == Cardinality(LineStarts(d, kinds))

(* extract_xhtml_text resolves references; map_line_owners, which numbers  *)
(* the lines again for the anchors, does not see them.                     *)
CorpusText == {"text", "cdata", "entity"}
OwnerText == {"text", "cdata"}

(* Every reader of the code refuses tags that do not nest; text stands     *)
(* between tags, and what is seen of it in the body (finish_line refuses   *)
(* it elsewhere).                                                          *)
IsDocument(d) ==
  /\ {"class", "from", "to", "text", "id", "image"} \subseteq DOMAIN d
  /\ IsFiniteSet(DOMAIN d.class) /\ DOMAIN d.id = DOMAIN d.class /\ DOMAIN d.image = DOMAIN d.class
  /\ d.from \in [DOMAIN d.class -> Nat] /\ d.to \in [DOMAIN d.class -> Nat]
  /\ \A n \in DOMAIN d.class : d.from[n] <= d.to[n]
  /\ \A n, m \in DOMAIN d.class :
       \/ n = m \/ d.to[n] < d.from[m] \/ d.to[m] < d.from[n]
       \/ d.from[n] < d.from[m] /\ d.to[m] < d.to[n]
       \/ d.from[m] < d.from[n] /\ d.to[n] < d.to[m]
  /\ IsFiniteSet(DOMAIN d.text) /\ DOMAIN d.text \subseteq Nat
  /\ \A i \in DOMAIN d.text, n \in DOMAIN d.class : i # d.from[n] /\ i # d.to[n]
  /\ \A i \in Pieces(d, CorpusText) :
       /\ Around(d, i) \cap Containers(d) # {}
       /\ \A n \in Containers(d) : d.class[n] = "body" => n \in Around(d, i)

-----------------------------------------------------------------------------
(* Anchors.                                                                *)

(* An id is pushed behind the attributes an element has; readers take the  *)
(* first, so that one that is there, if only blank, stays.                 *)
Pushed(d, n, id) == IF d.id[n] = None THEN [d EXCEPT !.id[n] = id] ELSE d

(* Several elements get their ids: ids is a function of them.              *)
PushedAll(d, ids) ==
  [d EXCEPT !.id = [n \in DOMAIN @ |-> IF n \in DOMAIN ids THEN Pushed(d, n, ids[n]).id[n] ELSE @[n]]]

(* annotate_xhtml_blocks                                                   *)
Owner_LastOpened(d, line) ==
  LET before == {n \in Containers(d) : d.from[n] <= LineStart(d, OwnerText, line)}
  IN  CHOOSE n \in before : \A m \in before : d.from[m] <= d.from[n]
Owner(d, line) == Innermost(d, LineStart(d, OwnerText, line))

HasOwners(d, lines) == \A l \in lines : l \in 1..LineCount(d, OwnerText)

BlockIds(d) == {d.id[n] : n \in Containers(d)} \ {None, Blank}

BlockAnchor(d, n, section) ==
  IF d.id[n] \notin {None, Blank} THEN d.id[n]
  ELSE UniqueId(<<"stl-mo", section, Ordinal(d, n)>>, BlockIds(d))

WithBlockAnchors(d, lines, section) ==
  PushedAll(d, [n \in {Owner(d, l) : l \in lines} |-> BlockAnchor(d, n, section)])

(* annotate_graphic_targets: the first element that shows the image,       *)
(* hidden or not (an image in an SVG is).                                  *)
Showing(d, image) == {n \in DOMAIN d.image : d.image[n] = image}

Shown(d, image) ==
  CHOOSE n \in Showing(d, image) : \A m \in Showing(d, image) : d.from[n] <= d.from[m]

ImageAnchor(d, image, section, item) ==
  LET n == Shown(d, image)
  IN  IF d.id[n] \notin {None, Blank} THEN d.id[n]
      ELSE UniqueId(<<"stl-graphic", section, item>>, Ids(d))

(* graphics: records [item, image, ...] of this document.                  *)
WithImageAnchors(d, graphics, section) ==
  PushedAll(d, [n \in {Shown(d, g.image) : g \in graphics} |->
                  LET g == CHOOSE g \in graphics : Shown(d, g.image) = n
                  IN  ImageAnchor(d, g.image, section, g.item)])

-----------------------------------------------------------------------------
(* The validator's view.                                                   *)

Distinct(d) ==
  \A n, m \in DOMAIN d.id : d.id[n] = d.id[m] /\ d.id[n] \notin {None, Blank} => n = m

HasFragment(d, id) == Distinct(d) /\ id \in Ids(d)
=============================================================================
