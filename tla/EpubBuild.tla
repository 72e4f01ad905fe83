----------------------------- MODULE EpubBuild -----------------------------
(***************************************************************************)
(* BuildEpub: the source EPUB and the reviewed narration become the        *)
(* read-aloud EPUB (core/epub_build.rs, epub_overlay.rs, epub_graphic.rs;  *)
(* the reading order is that of core/epub_corpus.rs).                      *)
(*                                                                         *)
(* A book is a record:                                                     *)
(*   literal   whether container.xml names the package as it is in the     *)
(*             archive, without percent escapes                            *)
(*   version3  whether the package is EPUB 3, and its manifest and metadata *)
(*             have end tags                                               *)
(*   synced    whether it has Media Overlay metadata already               *)
(*   items     the manifest: sequence of [id, path, type, nav, remote];    *)
(*             a missing id or href is None, a missing media-type Untyped  *)
(*   ids       the other ids of the package                                *)
(*   spine     sequence of [idref, linear]                                 *)
(*   files     sequence: the archive but for mimetype and package          *)
(*   docs      path -> document (Xhtml)                                    *)
(* The narration is a record of three sets: text [item, href, line],       *)
(* graphics [item, href, image] and pages [item, href, before].            *)
(* A path is <<directory, name, number>>; directory k > 0 is               *)
(* "storyteller" (k = 1) or "storyteller-(k-1)" beside the package.        *)
(***************************************************************************)
EXTENDS Xhtml, Ordering

Mimetype == <<0, "mimetype", 0>>
Package == <<0, "package", 0>>

(* Segments follow each other and no two are equally long.                 *)
ClipStart(item) == item * item
ClipEnd(item) == item * item + 2 * item
Lasts(items) == SumOf([i \in items |-> ClipEnd(i) - ClipStart(i)])

-----------------------------------------------------------------------------
(* What is in the source.                                                  *)

(* The corpus skips an item without id or href, the builder one without    *)
(* id.  The manifest is a map by id for the corpus; by path for the        *)
(* builder, where the last item of a path counts.                          *)
Untyped == "none"
Listed(book) == {i \in DOMAIN book.items : book.items[i].id # None /\ book.items[i].path # None}
ListedIds(book) == {book.items[i].id : i \in Listed(book)}

ItemOf(book, id) ==
  LET of == {i \in Listed(book) : book.items[i].id = id}
  IN  book.items[CHOOSE i \in of : \A j \in of : j <= i]

XhtmlItems(book, path) ==
  {i \in Listed(book) : book.items[i].type = "xhtml" /\ book.items[i].path = path}

XhtmlId(book, path) ==
  book.items[CHOOSE i \in XhtmlItems(book, path) : \A j \in XhtmlItems(book, path) : j <= i].id

(* extract_epub_corpus: the documents of the linear spine that have text.  *)
Read(book, itemref) ==
  /\ itemref.linear
  /\ LET item == ItemOf(book, itemref.idref)
     IN  item.type = "xhtml" /\ ~item.nav /\ LineCount(book.docs[item.path], CorpusText) > 0

Sections(book) ==
  LET read == Among(book.spine, {r \in Range(book.spine) : Read(book, r)})
  IN  [i \in DOMAIN read |-> ItemOf(book, read[i].idref).path]

Extractable(book) ==
  /\ \A i \in DOMAIN book.spine :
       book.spine[i].linear =>
         /\ book.spine[i].idref \in ListedIds(book)
         /\ LET item == ItemOf(book, book.spine[i].idref)
            IN  item.type = "xhtml" /\ ~item.nav => ~item.remote /\ item.path \in DOMAIN book.docs
  /\ Sections(book) # << >>

(* What alignment and review can name: lines of the corpus, pages at its   *)
(* documents, and images that were found in a document of the spine.       *)
Illustrates(book, g) ==
  /\ XhtmlItems(book, g.href) # {} /\ g.href \in DOMAIN book.docs
  /\ Showing(book.docs[g.href], g.image) # {}

Narrates(book, n) ==
  /\ \A t \in n.text :
       t.href \in Range(Sections(book)) /\ t.line \in 1..LineCount(book.docs[t.href], CorpusText)
  /\ \A g \in n.graphics : Illustrates(book, g)
  /\ \A page \in n.pages : page.href \in Range(Sections(book))

UsedIds(book) == ({item.id : item \in Range(book.items)} \ {None}) \cup book.ids

UniqueResourceRoot(files) ==
  LET free == {k \in 1..(Len(files) + 1) : \A path \in Range(files) : path[1] # k}
  IN  CHOOSE k \in free : \A j \in free : k <= j

(* What is taken for a book: collect_archive_names refuses an archive with *)
(* a name twice; the numbers of the documents are their places in the      *)
(* order of the paths.  A spine that names a document twice, or outside    *)
(* the linear order an item the manifest does not have, is no EPUB and is  *)
(* left out; so is an href that is there and empty.                        *)
IsBook(book) ==
  /\ book.files \in Seq(Range(book.files)) /\ IsInjective(book.files)
  /\ {Mimetype, Package} \cap Range(book.files) = {}
  /\ DOMAIN book.docs \subseteq Range(book.files)
  /\ \A path \in DOMAIN book.docs : path[3] \in Nat /\ IsDocument(book.docs[path])
  /\ \A x, y \in DOMAIN book.docs : x[3] = y[3] => x = y
  /\ book.items \in Seq(Range(book.items)) /\ IsFiniteSet(book.ids)
  /\ book.spine \in Seq(Range(book.spine))
  /\ \A r \in Range(book.spine) : ~r.linear => r.idref \in ListedIds(book)
  /\ \A i, j \in DOMAIN book.spine :
       \/ i = j
       \/ /\ book.spine[i].idref # book.spine[j].idref
          /\ {book.spine[i].idref, book.spine[j].idref} \subseteq ListedIds(book)
               => ItemOf(book, book.spine[i].idref).path # ItemOf(book, book.spine[j].idref).path

(* A passage of the audiobook is read out once; collect_graphic_readouts   *)
(* refuses an image that is assigned twice.                                *)
IsNarration(n) ==
  LET ItemsOf(S) == {x.item : x \in S}
  IN  /\ \A S \in {n.text, n.graphics, n.pages} :
           /\ IsFiniteSet(S) /\ ItemsOf(S) \subseteq Nat \ {0}
           /\ \A x, y \in S : x.item = y.item => x = y
      /\ ItemsOf(n.text) \cap ItemsOf(n.graphics) = {}
      /\ ItemsOf(n.text \cup n.graphics) \cap ItemsOf(n.pages) = {}
      /\ \A g, h \in n.graphics : g.href = h.href /\ g.image = h.image => g = h
      /\ \A page \in n.pages : page.before \in BOOLEAN

-----------------------------------------------------------------------------
(* What is made for each document: first those of the corpus in reading    *)
(* order, then those that have an image and no text, in order of path.     *)

LinesOf(n, path) == {t.line : t \in {t \in n.text : t.href = path}}
GraphicsOf(n, path) == {g \in n.graphics : g.href = path}

Extra(book, n) == {g.href : g \in n.graphics} \ Range(Sections(book))

SynchronizedDocs(book, n) ==
  LET narrated == {t.href : t \in n.text} \cup {g.href : g \in n.graphics}
  IN  Among(Sections(book), narrated) \o InOrder(Extra(book, n), [x \in Extra(book, n) |-> x[3]])

SectionNumber(book, n, path) ==
  IF path \in Range(Sections(book))
    THEN CHOOSE i \in DOMAIN Sections(book) : Sections(book)[i] = path
    ELSE Len(Sections(book)) + Cardinality({x \in Extra(book, n) : x[3] <= path[3]})

TextAnnotated(book, n, path) ==
  WithBlockAnchors(book.docs[path], LinesOf(n, path), SectionNumber(book, n, path))

Annotated(book, n, path) ==
  WithImageAnchors(TextAnnotated(book, n, path), GraphicsOf(n, path), SectionNumber(book, n, path))

Par(item, path, anchor, audio) ==
  [item |-> item, text |-> <<path, anchor>>, audio |-> audio,
   from |-> ClipStart(item), to |-> ClipEnd(item)]

(* build_combined_smil.  That the cues do not overlap is the order of the  *)
(* narration (module Synchronization).                                     *)
SectionSmil(book, n, path, audio) ==
  LET number == SectionNumber(book, n, path)
      d      == book.docs[path]
      texts  == {t \in n.text : t.href = path}
  IN  [textref |-> path,
       pars    |-> {Par(t.item, path, BlockAnchor(d, Owner(d, t.line), number), audio) : t \in texts}
                   \cup {Par(g.item, path, ImageAnchor(TextAnnotated(book, n, path), g.image, number, g.item), audio)
                           : g \in GraphicsOf(n, path)}]

(* build_supplemental_xhtml: html, a body, a section, a title, a paragraph.*)
PageAnchor(item) == <<<<"stl-extra-text", item, 0>>, 1>>

PageXhtml(item) ==
  [class |-> <<"body", "block", "block", "block">>, from |-> <<1, 2, 3, 6>>, to |-> <<10, 9, 5, 8>>,
   text  |-> [i \in {4, 7} |-> "text"], id |-> <<None, None, None, PageAnchor(item)>>,
   image |-> [n \in 1..4 |-> None]]

-----------------------------------------------------------------------------
(* What makes the build fail.                                              *)

Scanned(book) ==
  /\ book.version3 /\ ~book.synced
  /\ \A item \in Range(book.items) : item.type = "xhtml" /\ item.path # None => ~item.remote

AnchorInSpine(book, page) ==
  /\ XhtmlItems(book, page.href) # {}
  /\ \E r \in Range(book.spine) : r.idref = XhtmlId(book, page.href)

Buildable(book, n) ==
  /\ SynchronizedDocs(book, n) # << >>
  /\ Scanned(book)
  /\ \A path \in Range(SynchronizedDocs(book, n)) :
       /\ XhtmlItems(book, path) # {}
       /\ HasOwners(book.docs[path], LinesOf(n, path))
       /\ \A g \in GraphicsOf(n, path) : Showing(book.docs[path], g.image) # {}
  /\ \A page \in n.pages : AnchorInSpine(book, page)

-----------------------------------------------------------------------------
(* rewrite_package and add_supplemental_package_items                      *)

ByItem(pages) == InOrder(pages, [page \in pages |-> page.item])

OverlayId(book, n, path) ==
  UniqueId(<<"stl-mo", SectionNumber(book, n, path), 0>>, UsedIds(book))
AudioId(book) == UniqueId(<<"stl-audio", 0, 0>>, UsedIds(book))
PageId(book, page) == UniqueId(<<"stl-extra-page", page.item, 0>>, UsedIds(book))
PageOverlayId(book, page) == UniqueId(<<"stl-extra-mo", page.item, 0>>, UsedIds(book))

Smil(book, n, root, path) == <<root, "overlay", SectionNumber(book, n, path)>>
PageSmil(root, page) == <<root, "page overlay", page.item>>
PagePath(root, page) == <<root, "page", page.item>>
Audio(root) == <<root, "audio", 0>>

Declared(id, path, type, overlay) ==
  [id |-> id, path |-> path, type |-> type, nav |-> FALSE, remote |-> FALSE, overlay |-> overlay]

(* Every manifest item of a synchronized document names its overlay.       *)
Manifest(book, n, root) ==
  LET docs == SynchronizedDocs(book, n)
      Rewritten(item) ==
        LET with(o) == [id |-> item.id, path |-> item.path, type |-> item.type, nav |-> item.nav,
                        remote |-> item.remote, overlay |-> o]
        IN  IF item.type = "xhtml" /\ item.path \in Range(docs)
              THEN with(OverlayId(book, n, item.path)) ELSE with(None)
  IN  [i \in DOMAIN book.items |-> Rewritten(book.items[i])]
        \o [i \in DOMAIN docs |->
              Declared(OverlayId(book, n, docs[i]), Smil(book, n, root, docs[i]), "smil", None)]
        \o << Declared(AudioId(book), Audio(root), "audio", None) >>
        \o FlattenSeq([i \in DOMAIN ByItem(n.pages) |->
             LET page == ByItem(n.pages)[i]
             IN  << Declared(PageId(book, page), PagePath(root, page), "xhtml", PageOverlayId(book, page)),
                    Declared(PageOverlayId(book, page), PageSmil(root, page), "smil", None) >>])

Durations(book, n) ==
  [path \in Range(SynchronizedDocs(book, n)) |->
     Lasts({t.item : t \in {t \in n.text : t.href = path}} \cup {g.item : g \in GraphicsOf(n, path)})]

Metadata(book, n) ==
  {<<OverlayId(book, n, path), Durations(book, n)[path]>> : path \in Range(SynchronizedDocs(book, n))}
  \cup {<<PageOverlayId(book, page), Lasts({page.item})>> : page \in n.pages}

Total(book, n) == SumOf([m \in Metadata(book, n) |-> m[2]])

Spine_After(book, n) ==
  FlattenSeq([i \in DOMAIN book.spine |->
    LET at == {page \in n.pages : XhtmlId(book, page.href) = book.spine[i].idref}
    IN  << book.spine[i] >> \o [j \in DOMAIN ByItem(at) |->
          [idref |-> PageId(book, ByItem(at)[j]), linear |-> TRUE]]])
Spine(book, n) ==
  LET Pages(id, before) ==
        LET at == ByItem({page \in n.pages : XhtmlId(book, page.href) = id /\ page.before = before})
        IN  [j \in DOMAIN at |-> [idref |-> PageId(book, at[j]), linear |-> TRUE]]
  IN  FlattenSeq([i \in DOMAIN book.spine |->
        Pages(book.spine[i].idref, TRUE) \o << book.spine[i] >> \o Pages(book.spine[i].idref, FALSE)])

(* The archive: mimetype first, what is not rewritten, package, documents  *)
(* with their overlays, pages with theirs, and the audio.                  *)
Entries(book, n, root) ==
  LET docs  == SynchronizedDocs(book, n)
      pages == ByItem(n.pages)
  IN  << Mimetype >> \o Among(book.files, Range(book.files) \ Range(docs)) \o << Package >>
        \o FlattenSeq([i \in DOMAIN docs |-> << docs[i], Smil(book, n, root, docs[i]) >>])
        \o FlattenSeq([i \in DOMAIN pages |-> << PagePath(root, pages[i]), PageSmil(root, pages[i]) >>])
        \o << Audio(root) >>

Built(book, n) ==
  LET root  == UniqueResourceRoot(book.files)
      docs  == Range(SynchronizedDocs(book, n))
      pages == {PagePath(root, page) : page \in n.pages}
      smils == {Smil(book, n, root, path) : path \in docs} \cup {PageSmil(root, page) : page \in n.pages}
  IN  [literal  |-> book.literal,
       entries  |-> Entries(book, n, root),
       items    |-> Manifest(book, n, root),
       metadata |-> Metadata(book, n),
       total    |-> Total(book, n),
       spine    |-> Spine(book, n),
       docs     |-> [path \in DOMAIN book.docs \cup pages |->
                       IF path \in pages THEN PageXhtml(path[3])
                       ELSE IF path \in docs THEN Annotated(book, n, path) ELSE book.docs[path]],
       smils    |-> [smil \in smils |->
                       IF \E path \in docs : Smil(book, n, root, path) = smil
                         THEN SectionSmil(book, n, CHOOSE path \in docs : Smil(book, n, root, path) = smil, Audio(root))
                         ELSE LET page == CHOOSE page \in n.pages : PageSmil(root, page) = smil
                              IN  [textref |-> PagePath(root, page),
                                   pars    |-> {Par(page.item, PagePath(root, page), PageAnchor(page.item), Audio(root))}]]]
=============================================================================
