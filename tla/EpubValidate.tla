---------------------------- MODULE EpubValidate ----------------------------
(***************************************************************************)
(* The audit of the finished EPUB (core/epub_validate.rs).  It reads the   *)
(* archive alone and knows nothing of how it was made.  The archive is the *)
(* record Built of EpubBuild makes.                                        *)
(***************************************************************************)
EXTENDS EpubBuild

(* validate_first_mimetype, validate_unique_entries; the path of the       *)
(* package is decoded once more than the corpus does it.                   *)
Container(e) ==
  /\ e.entries # << >> /\ e.entries[1] = Mimetype /\ IsInjective(e.entries)
  /\ e.literal /\ Package \in Range(e.entries)

(* insert_manifest_item                                                    *)
Admitted(item) == item.id # None /\ item.path # None /\ item.type # Untyped /\ ~item.remote

(* audit_package: every item has a type, an id of its own and a path       *)
(* within the archive; one duration for each overlay.                      *)
PackageAudit(e) ==
  /\ e.items # << >>
  /\ \A i, j \in DOMAIN e.items : e.items[i].id = e.items[j].id => i = j
  /\ \A item \in Range(e.items) : Admitted(item)
  /\ \A m, o \in e.metadata : m[1] = o[1] => m = o

OverlayItems(e) ==
  {i \in DOMAIN e.items : e.items[i].type = "xhtml" /\ e.items[i].overlay # None}

AudioPaths(e) == {item.path : item \in {item \in Range(e.items) : item.type = "audio"}}

(* validate_text_target, validate_audio_target and the clip of a par.      *)
ParAudit(e, par, path) ==
  /\ par.text[1] = path /\ HasFragment(e.docs[path], par.text[2])
  /\ par.audio \in AudioPaths(e) /\ par.audio \in Range(e.entries)
  /\ par.from < par.to

(* audit_smil                                                              *)
SmilAudit(e, smil, path) ==
  /\ smil.textref = path /\ smil.pars # {}
  /\ \A par \in smil.pars : ParAudit(e, par, path)

Played(smil) == SumOf([par \in smil.pars |-> par.to - par.from])

(* The overlay of one manifest item.                                       *)
OverlayAudit(e, item) ==
  LET smils == {smil \in Range(e.items) : smil.id = item.overlay}
  IN  /\ smils # {}
      /\ \A smil \in smils :
           /\ smil.type = "smil" /\ {item.path, smil.path} \subseteq Range(e.entries)
           /\ SmilAudit(e, e.smils[smil.path], item.path)
           /\ <<item.overlay, Played(e.smils[smil.path])>> \in e.metadata

(* validate_readaloud_epub                                                 *)
Valid(e) ==
  /\ Container(e) /\ PackageAudit(e)
  /\ OverlayItems(e) # {} /\ AudioPaths(e) # {}
  /\ \A i, j \in OverlayItems(e) : e.items[i].overlay = e.items[j].overlay => i = j
  /\ \A i \in OverlayItems(e) : OverlayAudit(e, e.items[i])
  /\ e.total = SumOf([i \in OverlayItems(e) |->
       Played(e.smils[(CHOOSE s \in Range(e.items) : s.id = e.items[i].overlay).path])])
=============================================================================
