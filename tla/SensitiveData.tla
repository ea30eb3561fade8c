----------------------------- MODULE SensitiveData -----------------------------
(* The scanner that every text of the communication path passes
   (sensitive-data-scanner.ts).  A text is a sequence of tokens, what the scanner's
   patterns tell apart: "key" and "critical" stand for the name and separator of an
   assignment (password=, api_key=) whose value is a secret, "token" for a literal
   secret, "begin" and "end" for the marks of a private key, "url" for a URL with
   credentials up to its first blank or quote, "marker" for a redaction marker, and
   "quote" for one of the two quotes (the other is a word to it); "return" is the
   carriage return, "surrogate" half of a pair. *)
EXTENDS Naturals, SequencesExt, FiniteSetsExt

CONSTANTS MaxScanInput,     \* MAX_SCAN_INPUT_LENGTH
          MaxQuotedValue,   \* MAX_QUOTED_VALUE_LENGTH, in tokens
          MaxMetadataNodes, MaxMetadataDepth, MaxMetadataKeyLength,
          ScannedTexts, ScannedMetadata   \* what a client may offer

VARIABLE scan    \* the last input of the scanner and what it answered

Tokens == {"key", "critical", "token", "begin", "end", "url", "marker",
           "quote", "escape", "word", "space", "newline", "return", "control", "surrogate"}
Labels == {"key", "critical"}
LineBreaks == {"newline", "return"}
Blanks == LineBreaks \cup {"space"}

\* A word, a literal or a key that follows one of these is part of it and not found.
WellSpaced(text) ==
    \A i \in 2 .. Len(text) :
        text[i - 1] \in {"word", "token", "url"} => text[i] \notin Labels \cup {"word", "token", "url"}

-------------------------------------------------------------------------------
\* The first position from "from" on with a token of "kinds", or the one behind the text.
FirstFrom(text, from, kinds) ==
    Min({i \in from .. Len(text) : text[i] \in kinds} \cup {Len(text) + 1})
LineEnd(text, from) == FirstFrom(text, from, LineBreaks)
SkipInlineSpace(text, from) == FirstFrom(text, from, Tokens \ {"space"})

\* Past the separator: inline spaces, one line break at most, and inline spaces.
SkipAssignmentWhitespace(text, from) ==
    LET first == SkipInlineSpace(text, from)
        Is(i, token) == i <= Len(text) /\ text[i] = token
    IN  CASE Is(first, "newline") -> SkipInlineSpace(text, first + 1)
          [] Is(first, "return") ->
                SkipInlineSpace(text, first + IF Is(first + 1, "newline") THEN 2 ELSE 1)
          [] OTHER -> first

\* A quote closes a value unless an odd number of escapes stands before it.
Closes(text, start, i) ==
    /\ text[i] = "quote"
    /\ \E n \in 0 .. i - start - 1 :
          /\ n % 2 = 0
          /\ \A j \in i - n .. i - 1 : text[j] = "escape"
          /\ i - n - 1 = start \/ text[i - n - 1] # "escape"

\* mutant: a value ends at the first blank, inside quotes too.
ValueEndsAtBlank(text, start) == FirstFrom(text, start, Blanks) - 1
\* The last position of a value: its closing quote if one is near enough, else the
\* last of its line.
AssignmentValueEnd(text, start) ==
    LET closing == {i \in start + 1 .. Len(text) : i < start + MaxQuotedValue /\ Closes(text, start, i)}
    IN  IF text[start] = "quote" /\ closing # {} THEN Min(closing) ELSE LineEnd(text, start) - 1

ContainsOnlyRedactionMarker(value) ==
    LET first == FirstFrom(value, 1, Tokens \ Blanks)
        opened == IF first <= Len(value) /\ value[first] = "quote" THEN first + 1 ELSE first
        closed == IF opened < Len(value) /\ value[opened + 1] = "quote" THEN opened + 1 ELSE opened
    IN  /\ opened <= Len(value) /\ value[opened] = "marker"
        /\ \A i \in closed + 1 .. Len(value) : value[i] \in Blanks

Finding(from, to, severity) == [from |-> from, to |-> to, severity |-> severity]
SeverityOf(key) == IF key = "critical" THEN "critical" ELSE "high"

\* An assignment whose value cannot be told denies the text; what is redacted already is left.
Assignments(text) == {k \in DOMAIN text : text[k] \in Labels}
ValueStart(text, k) == SkipAssignmentWhitespace(text, k + 1)
Ambiguous(text, k) ==
    ValueStart(text, k) > Len(text) \/ text[ValueStart(text, k)] \in LineBreaks
ValueOf(text, k) == SubSeq(text, ValueStart(text, k), AssignmentValueEnd(text, ValueStart(text, k)))
AssignmentFindings(text) ==
    {Finding(k, Min({Len(text), ValueStart(text, k)}), SeverityOf(text[k])) :
        k \in {a \in Assignments(text) : Ambiguous(text, a)}}
    \cup
    {Finding(ValueStart(text, k), AssignmentValueEnd(text, ValueStart(text, k)), SeverityOf(text[k])) :
        k \in {a \in Assignments(text) : ~Ambiguous(text, a) /\ ~ContainsOnlyRedactionMarker(ValueOf(text, a))}}

LiteralFindings(text) ==
    {Finding(i, i, "critical") : i \in {j \in DOMAIN text : text[j] = "token"}}

\* A private key runs from its first mark to the next end mark, or to the end of the text.
PrivateKeyFindings(text) ==
    {Finding(b, Min({e \in b .. Len(text) : text[e] = "end"} \cup {Len(text)}), "critical") :
        b \in {i \in DOMAIN text : text[i] = "begin"}}

UrlFindings(text) ==
    {Finding(u, FirstFrom(text, u, Blanks \cup {"quote"}) - 1, "critical") :
        u \in {i \in DOMAIN text : text[i] = "url"}}

CollectFindings(text) ==
    {f \in AssignmentFindings(text) \cup LiteralFindings(text)
           \cup PrivateKeyFindings(text) \cup UrlFindings(text) :
        ~(f.from = f.to /\ text[f.from] = "marker")}
ForceDeny(text) == \E k \in Assignments(text) : Ambiguous(text, k)

\* What the findings cover; those that touch are one, so each run of covered
\* positions is one merged finding.
Covered(findings) == UNION {f.from .. f.to : f \in findings}
RunStarts(covered) == {i \in covered : i - 1 \notin covered}

Decide(findings, forceDeny) ==
    IF forceDeny \/ \E f \in findings : f.severity = "critical" THEN "deny"
    ELSE IF findings = {} THEN "allow" ELSE "redact"

\* One marker for each run.
ApplyRedaction(text, covered) ==
    LET starts == RunStarts(covered)
        marked == [i \in DOMAIN text |->
                      IF i \in starts THEN <<"marker">> ELSE IF i \in covered THEN <<>> ELSE <<text[i]>>]
    IN  FlattenSeq(marked)

Report(decision, findings, redacted) == [decision |-> decision, findings |-> findings, redacted |-> redacted]
ReportOf(text) ==
    LET findings == CollectFindings(text)
        covered == Covered(findings)
    IN  Report(Decide(findings, ForceDeny(text)), RunStarts(covered), ApplyRedaction(text, covered))
ScanSensitiveData(text) ==
    IF Len(text) > MaxScanInput THEN [ok |-> FALSE, code |-> "INPUT_TOO_LARGE"]
    ELSE [ok |-> TRUE, value |-> ReportOf(text)]

\* A failure of the scanner denies (scanWithFailClosed, maskSecrets).
ScanWithFailClosed(text) ==
    LET result == ScanSensitiveData(text)
    IN  IF result.ok THEN result.value ELSE Report("deny", {}, <<"marker">>)

-------------------------------------------------------------------------------
(* Metadata: its nodes in the order the traversal visits them.  A node has the path
   it is flattened to (its keys joined, so that two leaves may share one), its
   depth, the class and length of its key, and the text of a leaf.  "indexed" says
   that the path is a sensitive name once its [n] are taken away. *)

UnsafeMetadataKey(node) == node.key \in {"sensitive", "control", "secret"}

KeyLengthUpTo(nodes, n) == FoldSet(LAMBDA i, sum : sum + nodes[i].size, 0, 1 .. n)
TooComplex(metadata) ==
    \/ ~metadata.plain
    \/ Len(metadata.nodes) > MaxMetadataNodes
    \/ KeyLengthUpTo(metadata.nodes, Len(metadata.nodes)) > MaxMetadataKeyLength
    \/ \E i \in DOMAIN metadata.nodes :
          LET node == metadata.nodes[i]
          IN  node.depth > MaxMetadataDepth \/ Len(node.text) > MaxScanInput

\* The leaves by path: of two leaves with one path the later is kept.
Flattened(nodes) ==
    LET leaves == {i \in DOMAIN nodes : nodes[i].leaf}
        last(path) == Max({i \in leaves : nodes[i].path = path})
    IN  [path \in {nodes[i].path : i \in leaves} |-> nodes[last(path)]]

SensitiveByName(leaf) == leaf.indexed /\ leaf.text # <<>>
LeafDecision(leaf) ==
    IF SensitiveByName(leaf)
    THEN IF ContainsOnlyRedactionMarker(leaf.text) THEN "allow" ELSE "deny"
    ELSE ReportOf(leaf.text).decision

ScanSensitiveMetadata(metadata) ==
    LET flat == Flattened(metadata.nodes)
        decisions == {LeafDecision(flat[path]) : path \in DOMAIN flat}
        shown == {path \in DOMAIN flat : ~SensitiveByName(flat[path])}
        decision == IF "deny" \in decisions THEN "deny" ELSE IF "redact" \in decisions THEN "redact" ELSE "allow"
    IN  CASE ~metadata.object -> [ok |-> FALSE, code |-> "SCANNER_FAILURE"]
          [] metadata.object /\ TooComplex(metadata) -> [ok |-> FALSE, code |-> "METADATA_TOO_COMPLEX"]
          [] metadata.object /\ ~TooComplex(metadata) ->
                IF decision = "deny" \/ \E i \in DOMAIN metadata.nodes : UnsafeMetadataKey(metadata.nodes[i])
                THEN [ok |-> TRUE, value |-> [decision |-> "deny", entries |-> <<>>]]
                ELSE [ok |-> TRUE, value |-> [decision |-> decision,
                          entries |-> [path \in shown |-> ReportOf(flat[path].text).redacted]]]

-------------------------------------------------------------------------------
NoScan == [kind |-> "none"]

ScanInit == scan = NoScan
ScanText(text) ==
    scan' = [kind |-> "text", input |-> text, result |-> ScanSensitiveData(text),
             shown |-> ScanWithFailClosed(text)]
ScanMetadata(metadata) ==
    scan' = [kind |-> "metadata", input |-> metadata, result |-> ScanSensitiveMetadata(metadata)]
ScanNext ==
    /\ scan = NoScan
    /\ \/ \E text \in ScannedTexts : ScanText(text)
       \/ \E metadata \in ScannedMetadata : ScanMetadata(metadata)
ScanSpec == ScanInit /\ [][ScanNext]_scan

\* Nothing the scanner knows as a secret can be read in a text: no literal, and
\* behind every assignment a marker, in quotes or not.
ShowsNoSecret(text) ==
    \A i \in DOMAIN text :
        /\ text[i] \notin {"token", "begin", "url"}
        /\ text[i] \in Labels =>
              \E v \in i + 1 .. Len(text) :
                  /\ text[v] = "marker"
                  /\ \A j \in i + 1 .. v - 1 : text[j] \in Blanks \cup {"quote"}

\* The positions that are secret, read from left to right: a quoted value to the
\* quote that closes it, an escape hiding the token after it, and any other value
\* to the end of its line.
QuotedLength(text, v) ==
    LET Read(s, t) ==
            CASE s.closed -> s
              [] ~s.closed /\ s.skip -> [s EXCEPT !.skip = FALSE, !.n = @ + 1]
              [] ~s.closed /\ ~s.skip -> [n |-> s.n + 1, skip |-> t = "escape", closed |-> t = "quote"]
        end == FoldLeft(Read, [n |-> 1, skip |-> FALSE, closed |-> FALSE], SubSeq(text, v + 1, Len(text)))
    IN  IF end.closed /\ end.n <= MaxQuotedValue THEN end.n ELSE 0
SecretWords(text) ==
    {i \in DOMAIN text : text[i] = "word" /\ \E k \in 1 .. i - 1 :
        /\ text[k] \in Labels
        /\ LET v == ValueStart(text, k)
               quoted == text[v] = "quote" /\ QuotedLength(text, v) > 0
           IN  /\ v <= i
               /\ IF quoted THEN i < v + QuotedLength(text, v) ELSE \A j \in v .. i : text[j] \notin LineBreaks}
WordsOf(text) == {i \in DOMAIN text : text[i] = "word"}

\* What the scanner lets through holds no secret, wherever its blanks, quotes,
\* escapes and line breaks are, and stays that way when it is scanned again; of
\* metadata the same holds for every entry, and its budgets are kept
\* (sensitive-data-scanner.ts:36, "quoted values with spaces are covered completely").
ScansHideSecrets ==
    /\ scan.kind = "text" =>
        /\ scan.shown.decision # "deny" =>
            /\ ShowsNoSecret(scan.shown.redacted)
            /\ Cardinality(WordsOf(scan.shown.redacted))
                  = Cardinality(WordsOf(scan.input) \ SecretWords(scan.input))
            /\ ReportOf(scan.shown.redacted).decision # "deny"
        /\ scan.shown.decision = "allow" => scan.result.ok /\ scan.shown.redacted = scan.input
    /\ scan.kind = "metadata" /\ scan.result.ok =>
        LET entries == scan.result.value.entries
        IN  /\ \A path \in DOMAIN entries : ShowsNoSecret(entries[path])
            /\ Len(scan.input.nodes) <= MaxMetadataNodes
            /\ scan.result.value.decision # "deny" =>
                  \A i \in DOMAIN scan.input.nodes : scan.input.nodes[i].key \in {"none", "plain"}
===============================================================================
