----------------------------- MODULE Documents ------------------------------
(***************************************************************************)
(* The ingestion pipeline, and the index file of a procurement case.  A    *)
(* text is blank (""), punctuation ("-", "()") or words; labels and        *)
(* whitespace are normal already; lengths are counted in words.            *)
(***************************************************************************)
EXTENDS Filters, FiniteSets

CONSTANTS
  Sources,   \* what may be ingested, as RawSource records
  Words,     \* the number of words of each text
  MaxWords,  \* max_chunk_words
  MinWords,  \* min_content_chars
  CaseIds    \* cases of one task database

(* The values of a source are texts, in lists.                             *)
AreFields(fs) == fs \in Seq(Range(fs)) /\ \A f \in Range(fs) : f.value \in DOMAIN Words

ASSUME DocumentsAssumption ==
  /\ MaxWords \in Nat /\ MinWords \in Nat
  /\ {"placeholder", "dump"} \subseteq DOMAIN Words /\ \A t \in DOMAIN Words : Words[t] \in Nat
  /\ \A s \in Sources :
       /\ s.text \in DOMAIN Words /\ AreFields(s.metadata) /\ AreFields(s.payload.fields)
       /\ s.html.title \in DOMAIN Words /\ s.html.headings \in Seq(DOMAIN Words)
       /\ AreFields(s.html.meta) /\ AreFields(s.html.jsonld)
       /\ s # [title |-> "", meta |-> <<>>, headings |-> <<>>, jsonld |-> <<>>]

VARIABLES
  raw, doc,   \* the source being ingested, and its ProcessedDocument
  indexed,    \* the case whose corpus the .rag.json beside the database holds
  evidence    \* whose corpus each case was last given evidence from

documentsVars == <<raw, doc, indexed, evidence>>

Field(key, value) == [key |-> key, value |-> value]
Block(source, kind, heading, text) ==
  [source |-> source, kind |-> kind, heading |-> heading, text |-> text]

(* An HTML page: title, meta, h1..h6 and JSON-LD; nothing for no page      *)
NoHtml == [title |-> "", meta |-> <<>>, headings |-> <<>>, jsonld |-> <<>>]

NoDoc == [canonical |-> <<>>, evidence |-> {}, deduped |-> <<>>, chunks |-> <<>>,
          contentOk |-> FALSE]

-----------------------------------------------------------------------------
NotBlank(texts) == Only(texts, Range(texts) \ {""})

(* _dict_to_blocks: one block per leaf that is not None; the key of a leaf *)
(* is its path                                                             *)
DictToBlocks(fields, source) ==
  LET leaves == Only(fields, {f \in Range(fields) : f.value # "None"})
  IN  [i \in DOMAIN leaves |-> Block(source, "field", leaves[i].key, leaves[i].value)]

(* _handle_meta: blank ones are left out, a repeated key gets a number     *)
(* unless it says the same                                                 *)
HandleMeta(meta) ==
  LET add(acc, f) ==
        IF "" \in {f.key, f.value} \/ f \in Range(acc) THEN acc ELSE Append(acc, f)
  IN  FoldLeft(add, <<>>, meta)

MetaToBlocks(meta, source) ==
  [i \in DOMAIN meta |-> Block(source, "field", meta[i].key, meta[i].value)]

(* parse_semantic_html; a JSON-LD snippet that cannot be read is None      *)
ParseSemanticHtml(html) ==
  [title |-> html.title, meta |-> HandleMeta(html.meta),
   headings |-> NotBlank(html.headings), jsonld |-> html.jsonld]

Structured(s) == IF s.payload.present THEN DictToBlocks(s.payload.fields, "structured") ELSE <<>>
Metadata(s)   == DictToBlocks(s.metadata, "metadata")

(* Text that the fetcher made visible; markup is never dumped as prose, and *)
(* only a page carries any                                                 *)
Visible(s) == IF s.text = "" THEN <<>> ELSE <<Block("visible", "text", "", s.text)>>

HtmlSemantic(s) ==
  LET sem == ParseSemanticHtml(s.html)
      titled(heading, texts) ==
        [i \in DOMAIN texts |-> Block("html_semantic", "text", heading, texts[i])]
  IN  IF s.kind # "html" THEN <<>>
      ELSE titled("Title", NotBlank(<<sem.title>>)) \o MetaToBlocks(sem.meta, "html_semantic")
           \o titled("Heading", sem.headings) \o DictToBlocks(sem.jsonld, "html_semantic")

(* DynamicContentGuard when the fetcher saw a shell, else FallbackExtractor *)
Rescue(s) ==
  IF s.dynamic THEN Block("dynamic", "raw", "", "placeholder")
  ELSE Block("fallback", "raw", "", "dump")

(* build_canonical: every strategy that found something; a rescue only     *)
(* when none did                                                           *)
BuildCanonical(s) ==
  LET found  == <<Structured(s), Metadata(s), HtmlSemantic(s), Visible(s)>>
      all    == FlattenSeq(found)
      merged == Only(all, {b \in Range(all) : b.text # ""})
      ok     == {found[i][1].source : i \in {j \in 1..4 : found[j] # <<>>}}
  IN  IF merged # <<>> THEN [blocks |-> merged, evidence |-> ok]
      ELSE [blocks |-> <<Rescue(s)>>, evidence |-> ok \cup {Rescue(s).source}]

(* _is_noise: punctuation alone, but a heading saves "-"                   *)
IsNoise(b) == b.text \in {"", "()"} \/ (b.text = "-" /\ b.heading = "")

(* Fault: a headed block is a duplicate of any block with its text.        *)
Deduplicate_ByText(blocks) ==
  LET add(kept, b) ==
        IF IsNoise(b) \/ \E i \in DOMAIN kept : kept[i].text = b.text THEN kept
        ELSE Append(kept, b)
  IN  FoldLeft(add, <<>>, blocks)

(* deduplicate: a headed block repeats a block with its heading and text,  *)
(* a bare one any block with its text                                      *)
Deduplicate(blocks) ==
  LET repeats(kept, b) ==
        \E i \in DOMAIN kept : kept[i].text = b.text /\ b.heading \in {"", kept[i].heading}
      add(kept, b) == IF IsNoise(b) \/ repeats(kept, b) THEN kept ELSE Append(kept, b)
  IN  FoldLeft(add, <<>>, blocks)

Size(b) == Words[b.text] + IF b.heading = "" THEN 0 ELSE 1
SizeOf(blocks) == FoldLeft(LAMBDA n, b : n + Size(b), 0, blocks)

(* chunk_document: a block goes into the next chunk when this one is full  *)
Chunked(blocks) ==
  LET add(acc, b) ==
        IF acc.current # <<>> /\ SizeOf(acc.current) + Size(b) > MaxWords
        THEN [chunks |-> Append(acc.chunks, acc.current), current |-> <<b>>]
        ELSE [acc EXCEPT !.current = Append(@, b)]
  IN  FoldLeft(add, [chunks |-> <<>>, current |-> <<>>], blocks)

ChunkDocument(blocks) == Append(Chunked(blocks).chunks, Chunked(blocks).current)

(* QualityValidator.validate, of the blocks before deduplication           *)
Validate(c, s) ==
  /\ s.text # "" \/ s.html # NoHtml \/ s.payload.fields # <<>>
  /\ SizeOf(c.blocks) >= MinWords
  /\ s.payload.present => \E i \in DOMAIN c.blocks : c.blocks[i].kind = "field"
  /\ s.kind = "html" /\ (s.html.title # "" \/ ParseSemanticHtml(s.html).meta # <<>>
                         \/ s.html.jsonld # <<>>)
       => c.evidence \cap {"html_semantic", "structured", "metadata"} # {}
  /\ ~ (s.text # "" /\ s.dynamic)

(* IngestionPipeline.process; no renderer is registered                    *)
Process(s) ==
  LET c == BuildCanonical(s)
      d == Deduplicate(c.blocks)
  IN  [canonical |-> c.blocks, evidence |-> c.evidence, deduped |-> d,
       chunks |-> ChunkDocument(d), contentOk |-> Validate(c, s)]

-----------------------------------------------------------------------------
IndexedText(d) == d.deduped

DocumentsTypeOK ==
  /\ raw \in Sources \cup {NoHtml} /\ DOMAIN doc = DOMAIN NoDoc
  /\ indexed \in CaseIds \cup {"none"} /\ evidence \in [CaseIds -> CaseIds \cup {"none"}]

DocumentsInit ==
  /\ raw = NoHtml /\ doc = NoDoc
  /\ indexed = "none" /\ evidence = [k \in CaseIds |-> "none"]

Ingest ==
  /\ raw = NoHtml
  /\ raw' \in Sources /\ doc' = Process(raw')
  /\ UNCHANGED <<indexed, evidence>>

(* The caller has the processed document                                   *)
Handover ==
  /\ raw # NoHtml
  /\ raw' = NoHtml /\ doc' = NoDoc
  /\ UNCHANGED <<indexed, evidence>>

(* run_procurement_case writes build_case_index over what is there; a case *)
(* that cannot goes on without evidence                                    *)
IndexCase(k) ==
  /\ indexed' \in {indexed, k}
  /\ evidence' = [evidence EXCEPT ![k] = "none"]
  /\ UNCHANGED <<raw, doc>>

(* _rag_lines of a task of the case: whatever the file holds now           *)
Retrieve(k) ==
  /\ evidence' = [evidence EXCEPT ![k] = indexed]
  /\ UNCHANGED <<raw, doc, indexed>>

DocumentsNext ==
  \/ Ingest \/ Handover
  \/ \E k \in CaseIds : IndexCase(k) \/ Retrieve(k)

DocumentsSpec == DocumentsInit /\ [][DocumentsNext]_documentsVars

-----------------------------------------------------------------------------
FieldsOf(s) ==
  Range(s.metadata) \cup (IF s.payload.present THEN Range(s.payload.fields) ELSE {})
    \cup (IF s.kind = "html" THEN Range(s.html.meta) \cup Range(s.html.jsonld) ELSE {})

(* rag/__init__.py:182, dedupe.py:3: whatever the strategies and their     *)
(* order, every field of a source that is not None, blank or a bracket is  *)
(* indexed under its own name, conflicting values included, and the text   *)
(* of the source somewhere; nothing is indexed twice; and the chunks hold  *)
(* the indexed blocks in their order, more than MaxWords of them only when *)
(* a single block is that long.                                            *)
IngestKeepsContent ==
  raw \in Sources =>
    LET blocks == IndexedText(doc) IN
    /\ \A f \in FieldsOf(raw) : f.value \notin {"None", "", "()"} /\ f.key # "" =>
          \E b \in Range(blocks) : b.heading = f.key /\ b.text = f.value
    /\ raw.text \notin {"", "-", "()"} => \E b \in Range(blocks) : b.text = raw.text
    /\ \A i, j \in DOMAIN blocks : i < j =>
          <<blocks[i].heading, blocks[i].text>> # <<blocks[j].heading, blocks[j].text>>
    /\ FlattenSeq(doc.chunks) = blocks
    /\ \A c \in Range(doc.chunks) : Len(c) > 1 => SizeOf(c) <= MaxWords
=============================================================================
