------------------------------ MODULE ImagesFile ------------------------------
(***************************************************************************)
(* The text of the images file, which the catalogs adapter writes          *)
(* (pullImages of adapter.go) and the image manager reads                  *)
(* (getCatalogImagesFromConfigMap of imageManager.go): one line            *)
(*     <image>=<image ID>,<catalog>                                        *)
(* per image.  The image ID is what the pull command printed, on its two   *)
(* outputs, without the white space around it: an image ID, nothing, or    *)
(* warnings before the ID.                                                 *)
(*                                                                         *)
(* A text is a sequence of tokens: the three separators, and words.        *)
(***************************************************************************)
EXTENDS Naturals, SequencesExt, FiniteSetsExt

CONSTANTS Words,       \* what a text is made of, besides the separators
          ImageNames,  \* the image references, a sequence in the order of strings
          Outputs,     \* what a pull that succeeds can print
          CatalogNames,  \* the names of the catalogs, as texts
          ImageIDs     \* the words that are image IDs

Equals == "="
Comma == ","
Newline == "\n"

Separators == {Equals, Comma, Newline}

Tokens == Words \cup Separators

Images == ToSet(ImageNames)

ASSUME FileAssumption ==
  /\ Words \cap Separators = {}
  /\ ImageNames \in Seq(Words) /\ ImageIDs \subseteq Words
  /\ CatalogNames \subseteq Seq(Tokens \ {Newline})
  /\ Outputs \subseteq Seq(Tokens)
  /\ \A text \in Outputs : text # <<>> => Newline \notin {Head(text), Last(text)}

VARIABLES images,  \* sca.images: image -> what was printed, and the catalog
          file,    \* the text of the file
          listed   \* sca.images when the file was last replaced

fileVars == <<images, file, listed>>

Described == [imageID : Outputs, catalogName : CatalogNames]

FileInit == images = <<>> /\ file = <<>> /\ listed = <<>>

------------------------------------------------------------------------------
\* The adapter.  The keys of the map, in any order and sorted.
\* Faulty variant: the keys in an order in which Go visits the map.
KeysOfMap(pulled) == SetToSeqs(DOMAIN pulled)

Place(i) == CHOOSE n \in DOMAIN ImageNames : ImageNames[n] = i

keys(pulled) == {order \in KeysOfMap(pulled) :
                   \A m, n \in DOMAIN order : m < n => Place(order[m]) < Place(order[n])}

\* imageIDAndCatalog.String
String(description) == description.imageID \o <<Comma>> \o description.catalogName

\* Faulty variant: the lines are separated, not ended, by a newline.
LineWithoutEnd(i, description) == <<i, Equals>> \o String(description)

Line(i, description) == <<i, Equals>> \o String(description) \o <<Newline>>

Content(pulled, order) ==
  FlattenSeq([n \in DOMAIN order |-> Line(order[n], pulled[order[n]])])

\* A round of pulls ends: the file is replaced when its text is another one
\* (unless that fails).
PullRound ==
  \E S \in SUBSET Images : \E pulled \in [S -> Described] :
    /\ images' = pulled
    /\ \E order \in keys(pulled) :
         IF file = Content(pulled, order)
         THEN UNCHANGED <<file, listed>>
         ELSE \/ file' = Content(pulled, order) /\ listed' = pulled
              \/ UNCHANGED <<file, listed>>

\* The adapter is started again, on the file of its predecessor.
RestartAdapter == images # <<>> /\ images' = <<>> /\ UNCHANGED <<file, listed>>

FileNext == PullRound \/ RestartAdapter

FileSpec == FileInit /\ [][FileNext]_fileVars

------------------------------------------------------------------------------
\* The image manager.  strings.Split puts a part after the start of the text and
\* after every separator, up to the next separator or the end of the text.
Cuts(text, separator) == {0} \cup {p \in DOMAIN text : text[p] = separator}

End(text, separator, cut) ==
  Min({p \in DOMAIN text : p > cut /\ text[p] = separator} \cup {Len(text) + 1})

Part(text, separator, cut) == SubSeq(text, cut + 1, End(text, separator, cut) - 1)

\* strings.SplitN(text, ",", 2): the texts before and after the first comma.
\* Faulty variant: the text is split at its last comma.
CutAtLast(text) ==
  LET last == Max(Cuts(text, Comma)) IN
  << SubSeq(text, 1, last - 1), SubSeq(text, last + 1, Len(text)) >>

SplitDescription(text) ==
  << Part(text, Comma, 0), SubSeq(text, End(text, Comma, 0) + 1, Len(text)) >>

\* The lines that are not empty, by where they start.
imageLines(text) == {cut \in Cuts(text, Newline) : Part(text, Newline, cut) # <<>>}

\* The image, its ID and its catalog in a line; what follows a second "=" is
\* not looked at.
imageName(line) == Part(line, Equals, 0)

imageDescription(line) ==
  IF Contains(line, Equals) THEN SplitDescription(Part(line, Equals, End(line, Equals, 0)))
  ELSE << <<>>, <<>> >>

\* A later line of the same image replaces an earlier one.
getCatalogImagesFromConfigMap(text) ==
  LET line(cut) == Part(text, Newline, cut)
      linesOf(name) == {cut \in imageLines(text) : imageName(line(cut)) = name} IN
  [name \in {imageName(line(cut)) : cut \in imageLines(text)} |->
     imageDescription(line(Max(linesOf(name))))]

------------------------------------------------------------------------------
\* Whatever the pulls of the other images printed, an image that the adapter
\* lists is listed for the image manager, which therefore does not retire it.
ListedImagesAreRead ==
  \A i \in DOMAIN listed : <<i>> \in DOMAIN getCatalogImagesFromConfigMap(file)

\* What the outputs must not contain for the next property to hold: a line,
\* after the first, that is an image reference alone or followed by "=".
NoOutputIsALine ==
  \A text \in Outputs : \A p \in DOMAIN text :
    text[p] = Newline /\ p + 2 \in DOMAIN text =>
      ~(text[p + 1] \in Images /\ text[p + 2] \in {Equals, Newline})

\* An image whose pull printed an image ID, or nothing, is read back with it,
\* whatever its catalog is called and whatever was printed for other images.
ImageIDsAreReadBack ==
  \A i \in DOMAIN listed :
    ToSet(listed[i].imageID) \subseteq ImageIDs =>
      getCatalogImagesFromConfigMap(file)[<<i>>][1] = listed[i].imageID

\* The file is not replaced, and the driver not woken, by a round that pulled
\* what the file already lists, even in another process than the one that
\* wrote it.
OnlyChangesAreWritten == [][file' # file => images' # listed]_fileVars
==============================================================================
