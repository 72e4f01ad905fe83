---------------------------- MODULE MCFinishing ----------------------------
(* A book of four documents.  The first has five lines: in a block, before *)
(* and behind the block another block holds, and in the body itself; its   *)
(* head has a title, and it shows a picture.  The second is an image in an *)
(* SVG.  The third has a block of a character reference alone before its   *)
(* other lines.  The fourth is the navigation document.                    *)
EXTENDS Finishing, TLC

CONSTANTS Picture, Map

Doc(k) == <<0, "doc", k>>
Own(n) == <<<<"author", n, 0>>, 1>>

NoIds(count) == [n \in 1..count |-> None]

First(ids) ==
  [class |-> <<"hidden", "body", "block", "block", "block", "inline", "inline">>,
   from  |-> <<1, 4, 5, 9, 11, 13, 18>>, to |-> <<3, 21, 8, 17, 15, 13, 20>>,
   text  |-> 2 :> "text" @@ 6 :> "entity" @@ 7 :> "text" @@ 10 :> "text" @@ 12 :> "text"
             @@ 14 :> "cdata" @@ 16 :> "text" @@ 19 :> "text",
   id    |-> ids,
   image |-> [n \in 1..7 |-> IF n = 6 THEN Picture ELSE None]]

Second ==
  [class |-> <<"body", "hidden", "inline">>, from |-> <<1, 2, 3>>, to |-> <<5, 4, 3>>,
   text |-> << >>, id |-> NoIds(3), image |-> <<None, None, Map>>]

Third ==
  [class |-> <<"body", "block", "block", "break">>, from |-> <<1, 2, 5, 7>>, to |-> <<10, 4, 9, 7>>,
   text |-> 3 :> "entity" @@ 6 :> "text" @@ 8 :> "text", id |-> NoIds(4), image |-> NoIds(4)]

Contents ==
  [class |-> <<"body">>, from |-> <<1>>, to |-> <<3>>, text |-> 2 :> "text", id |-> NoIds(1), image |-> NoIds(1)]

Item(id, path, type) == [id |-> id, path |-> path, type |-> type, nav |-> path = Doc(4), remote |-> FALSE]

Plain ==
  [literal |-> TRUE, version3 |-> TRUE, synced |-> FALSE,
   items |-> << Item(Own(1), Doc(1), "xhtml"), Item(Own(2), Doc(2), "xhtml"),
                Item(Own(3), Doc(3), "xhtml"), Item(Own(4), Doc(4), "xhtml"),
                Item(Own(5), <<0, "image", 1>>, "image") >>,
   ids |-> {Own(9)},
   spine |-> << [idref |-> Own(1), linear |-> TRUE], [idref |-> Own(2), linear |-> TRUE],
                [idref |-> Own(4), linear |-> TRUE], [idref |-> Own(3), linear |-> TRUE] >>,
   files |-> <<<<0, "container", 0>>, Doc(1), Doc(2), Doc(3), Doc(4), <<0, "image", 1>>>>,
   docs |-> Doc(1) :> First(NoIds(7)) @@ Doc(2) :> Second @@ Doc(3) :> Third @@ Doc(4) :> Contents]

(* Ids as authors, earlier tools and this program itself have set them.    *)
Identified ==
  LET Some(f) == [n \in 1..7 |-> IF n \in DOMAIN f THEN f[n] ELSE None]
  IN  { Some(3 :> Own(3) @@ 4 :> Own(4) @@ 6 :> Own(6)),
        Some(4 :> <<<<"stl-mo", 1, 2>>, 1>>),
        Some(4 :> <<<<"stl-mo", 1, 2>>, 1>> @@ 5 :> <<<<"stl-mo", 1, 2>>, 2>>),
        Some(4 :> <<<<"stl-graphic", 1, 11>>, 1>>),
        Some(7 :> <<<<"stl-mo", 1, 2>>, 1>>),
        Some(3 :> Blank), Some(6 :> Blank), Some(3 :> Blank @@ 7 :> <<<<"stl-mo", 1, 2>>, 1>>),
        Some(3 :> Own(3) @@ 5 :> Own(3)) }

Packages ==
  { Plain,
    [Plain EXCEPT !.items[2].id = <<<<"stl-mo", 1, 0>>, 1>>, !.spine[2].idref = <<<<"stl-mo", 1, 0>>, 1>>,
                  !.items[5].id = <<<<"stl-audio", 0, 0>>, 1>>, !.ids = {<<<<"stl-audio", 0, 0>>, 2>>}],
    [Plain EXCEPT !.ids = {<<<<"stl-extra-page", 21, 0>>, 1>>, <<<<"stl-extra-mo", 21, 0>>, 1>>}],
    [Plain EXCEPT !.items = Append(@, Item(Own(6), <<1, "overlay", 1>>, "other")),
                  !.files = @ \o <<<<1, "overlay", 1>>, <<2, "audio", 0>>>>],
    [Plain EXCEPT !.items = Append(@, [Item(Own(6), <<0, "film", 1>>, "other") EXCEPT !.remote = TRUE])],
    [Plain EXCEPT !.items = Append(@, Item(Own(6), Doc(1), "xhtml"))],
    [Plain EXCEPT !.items = Append(@, Item(Own(5), <<0, "image", 1>>, "image"))],
    [Plain EXCEPT !.items = Append(@, Item(None, Doc(2), "xhtml"))],
    [Plain EXCEPT !.items = Append(@, Item(Own(6), None, "xhtml"))],
    [Plain EXCEPT !.items = Append(@, Item(Own(6), <<0, "font", 1>>, Untyped))],
    [Plain EXCEPT !.spine[1].linear = FALSE], [Plain EXCEPT !.literal = FALSE],
    [Plain EXCEPT !.version3 = FALSE], [Plain EXCEPT !.synced = TRUE] }

Sources == Packages \cup {[Plain EXCEPT !.docs[Doc(1)] = First(ids)] : ids \in Identified}

Line(item, k, line) == [item |-> item, href |-> Doc(k), line |-> line]
Readout(item, k, image) == [item |-> item, href |-> Doc(k), image |-> image]
Page(item, k, before) == [item |-> item, href |-> Doc(k), before |-> before]

Readings ==
  [text : { {}, {Line(1, 1, 1)}, {Line(1, 1, 1), Line(2, 1, 2), Line(3, 1, 4)},
            {Line(1, 1, 3), Line(2, 1, 5), Line(3, 3, 1)}, {Line(1, 1, 1), Line(2, 3, 2)}, {Line(1, 3, 3)} },
   graphics : SUBSET {Readout(11, 1, Picture), Readout(12, 2, Map)},
   pages : { {}, {Page(21, 1, TRUE)}, {Page(21, 1, TRUE), Page(22, 1, FALSE), Page(23, 1, FALSE)},
             {Page(21, 3, TRUE), Page(22, 3, FALSE)} }]
=============================================================================
