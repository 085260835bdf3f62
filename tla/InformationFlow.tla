-------------------------- MODULE InformationFlow --------------------------
(***************************************************************************)
(* Where data may go: classify, derive and combine                         *)
(* (envelope/data_classification.py), the retrieval policy                 *)
(* (retrieval_policy.py), the composition of a prompt under a budget       *)
(* (prompt_assembly.py), its isolation from instructions                   *)
(* (instruction_isolation.py) and the scan and redaction of what comes out *)
(* (output_scanning.py).                                                   *)
(*                                                                         *)
(* Classes are their ranks, 0 (public) to 3 (restricted).  A datum carries,  *)
(* beside its class and the actors of its lineage, what was ingested into  *)
(* it: `origins` is history, which no operation reads.  A text is a        *)
(* sequence of words and of things that look like fence markers.           *)
(***************************************************************************)
EXTENDS Integers, Sequences, FiniteSets, FiniteSetsExt, SequencesExt

CONSTANTS
    Actor, TenantOf,      \* [Actor -> tenants]: trust_domain_of
    Rules,                \* RetrievalRules in order: [caller, purpose, max_class]
    Purpose,
    Budgets,              \* ActionBudgets: [max_class, max_items]
    Segments,             \* the segments prompts are assembled from
    Matches,              \* what the patterns may find in a text
    MaxObjects, MaxRetrievals, MaxMatches, MaxSinkFailures,   \* bounds of the model
    Nothing

VARIABLES
    objects,    \* ClassifiedData
    retrieved,  \* what callers got: [caller, purpose, data]
    recorded,   \* retrieval.verify events that allow
    prompt,     \* the last PromptContext, or Nothing
    text,       \* the text assembled from segments or scanned, or Nothing
    sinkFailures

vars == <<objects, retrieved, recorded, prompt, text, sinkFailures>>

Class == 0..3

\* The system's own text holds no marker: "the nonce must not appear inside any
\* segment's text" (assemble_isolated_prompt); other text may look like one.
FlowConstants ==
    /\ Rules \in Seq([caller : Actor, purpose : Purpose, max_class : Class])
    /\ \A b \in Budgets : b.max_class \in Class /\ b.max_items \in Nat \ {0}
    /\ Segments \subseteq [channel : {"system", "user", "retrieved", "tool"},
                           trust : {"trusted", "untrusted"}, signed : BOOLEAN,
                           text : Seq({"word", "open", "close"})]
    /\ \A s \in Segments : s.channel = "system" => s.text \in Seq({"word"})
    /\ IsFiniteSet(Matches)
    /\ Matches \subseteq [start : Nat, end : Nat, severity : Nat, pattern : Nat]
    /\ \A m \in Matches : m.start < m.end
    /\ \A n \in {MaxObjects, MaxRetrievals, MaxMatches, MaxSinkFailures} : n \in Nat

Init ==
    /\ objects = {} /\ retrieved = {} /\ recorded = {} /\ sinkFailures = 0
    /\ prompt = Nothing /\ text = Nothing

-----------------------------------------------------------------------------
(* data_classification.py                                                  *)

IsMoreRestrictive(a, b) == a > b

Room == Cardinality(objects) < MaxObjects

NewObject(class, lineage, origins) ==
    /\ Room
    /\ objects' = objects \cup
         {[label |-> Cardinality(objects) + 1, class |-> class, lineage |-> lineage,
           origins |-> origins]}
    /\ UNCHANGED <<retrieved, recorded, prompt, text, sinkFailures>>

Classify(actor, class) ==
    NewObject(class, <<actor>>, {[class |-> class, tenant |-> TenantOf[actor]]})

\* A requested class below the parent's is an error.
Derive(parent, actor, class) ==
    /\ ~IsMoreRestrictive(parent.class, class)
    /\ NewObject(class, Append(parent.lineage, actor), parent.origins)

\* Mutant of MaxClass: the class of the first parent.
MaxClassFirst(parents) == parents[1].class

MaxClass(parents) == Max({parents[i].class : i \in DOMAIN parents})

Combine(parents, actor) ==
    NewObject(MaxClass(parents),
              Append(FlattenSeq([i \in DOMAIN parents |-> parents[i].lineage]), actor),
              UNION {parents[i].origins : i \in DOMAIN parents})

-----------------------------------------------------------------------------
(* retrieval_policy.py: the tenant of the first actor, then the first rule *)
(* for this caller and purpose; an event that cannot be recorded denies.   *)

FirstRule(caller, purpose) ==
    SelectInSeq(Rules, LAMBDA r : r.caller = caller /\ r.purpose = purpose)

Allows(caller, purpose, data) ==
    LET i == FirstRule(caller, purpose)
    IN  /\ TenantOf[caller] = TenantOf[data.lineage[1]]
        /\ i # 0 /\ ~IsMoreRestrictive(data.class, Rules[i].max_class)

Retrieve(caller, purpose, data) ==
    LET event == [caller |-> caller, purpose |-> purpose, data |-> data]
    IN  /\ Cardinality(retrieved) < MaxRetrievals
        /\ Allows(caller, purpose, data)
        /\ \/ /\ recorded' = recorded \cup {event}
              /\ retrieved' = retrieved \cup {event}
              /\ UNCHANGED sinkFailures
           \/ /\ sinkFailures < MaxSinkFailures
              /\ sinkFailures' = sinkFailures + 1
              /\ UNCHANGED <<recorded, retrieved>>
        /\ UNCHANGED <<objects, prompt, text>>

-----------------------------------------------------------------------------
\* compose: drop what is over the budget's class, sort by class and label, keep
\* the first max_items.
Before(a, b) == a.class < b.class \/ (a.class = b.class /\ a.label < b.label)

First(n, kept) ==
    CHOOSE S \in SUBSET kept :
      /\ Cardinality(S) = Min({n, Cardinality(kept)})
      /\ \A a \in S, b \in kept \ S : Before(a, b)

Compose(candidates, budget) ==
    LET over == {d \in candidates : IsMoreRestrictive(d.class, budget.max_class)}
        items == First(budget.max_items, candidates \ over)
    IN  /\ prompt' = [budget |-> budget, items |-> items, over |-> over,
                      left_out |-> (candidates \ over) \ items]
        /\ UNCHANGED <<objects, retrieved, recorded, text, sinkFailures>>

\* What a caller composes is what it got for that purpose.
Got(caller, purpose) ==
    {r.data : r \in {g \in retrieved : g.caller = caller /\ g.purpose = purpose}}

\* realized_max_class
RealizedMaxClass(context) ==
    IF context.items = {} THEN 0 ELSE Max({d.class : d \in context.items})

-----------------------------------------------------------------------------
(* instruction_isolation.py                                                *)

\* ContentSegment.__post_init__
Admissible(seg) ==
    CASE seg.channel = "system" -> seg.trust = "trusted"
      [] seg.channel \in {"user", "retrieved"} -> seg.trust = "untrusted"
      [] seg.channel = "tool" -> seg.trust = "trusted" => seg.signed

\* _escape: without "<" and ">" nothing looks like a marker.
Escape(words) == [i \in DOMAIN words |-> "word"]

Mark(word, seg) == [mark |-> word, trust |-> seg.trust]

\* assemble_isolated_prompt: system text as it is, the rest escaped and fenced.
Fenced(seg) ==
    IF seg.channel = "system" THEN [i \in DOMAIN seg.text |-> Mark(seg.text[i], seg)]
    ELSE LET words == Escape(seg.text)
         IN  <<Mark("open", seg)>> \o [i \in DOMAIN words |-> Mark(words[i], seg)]
               \o <<Mark("close", seg)>>

Isolate(segments) ==
    /\ \A i \in DOMAIN segments : Admissible(segments[i])
    /\ text' = [segments |-> segments, matches |-> {}]
    /\ UNCHANGED <<objects, retrieved, recorded, prompt, sinkFailures>>

-----------------------------------------------------------------------------
(* output_scanning.py                                                      *)

Scan(matches) ==
    /\ text' = [segments |-> <<>>, matches |-> matches]
    /\ UNCHANGED <<objects, retrieved, recorded, prompt, sinkFailures>>

\* Mutant of Precedes: the more severe match goes first.
PrecedesSevere(a, b) ==
    \/ a.severity > b.severity
    \/ a.severity = b.severity /\ a.start < b.start
    \/ a.severity = b.severity /\ a.start = b.start /\ a.end > b.end
    \/ a.severity = b.severity /\ a.start = b.start /\ a.end = b.end /\ a.pattern < b.pattern

\* The order of redact; the sort is stable over the patterns.
Precedes(a, b) ==
    \/ a.start < b.start
    \/ a.start = b.start /\ a.severity > b.severity
    \/ a.start = b.start /\ a.severity = b.severity /\ a.end > b.end
    \/ a.start = b.start /\ a.severity = b.severity /\ a.end = b.end /\ a.pattern < b.pattern

\* redact: in that order, a match that starts before the end of one that is
\* replaced is skipped.
Replaced(matches) ==
    CHOOSE K \in SUBSET matches :
      \A m \in matches : m \in K <=> \A k \in K : Precedes(k, m) => k.end <= m.start

\* The characters that are gone.
Redact(matches) == UNION {m.start..(m.end - 1) : m \in Replaced(matches)}

-----------------------------------------------------------------------------
DataNext ==
    \/ \E actor \in Actor :
         \/ \E class \in Class : Classify(actor, class)
         \/ \E d \in objects : \E class \in Class : Derive(d, actor, class)
         \/ \E c, d \in objects : c # d /\ Combine(<<c, d>>, actor)
    \/ \E caller \in Actor, purpose \in Purpose :
         \/ \E d \in objects : Retrieve(caller, purpose, d)
         \/ \E budget \in Budgets : Compose(Got(caller, purpose), budget)

\* Pure functions, each called once.
TextNext ==
    /\ text = Nothing
    /\ \/ \E s \in Segments : Isolate(<<s>>) \/ \E t \in Segments : Isolate(<<s, t>>)
       \/ \E n \in 0..MaxMatches : \E matches \in kSubset(n, Matches) : Scan(matches)

Next == DataNext \/ TextNext

Spec == Init /\ [][Next]_vars

-----------------------------------------------------------------------------
\* Labels only tighten along any derivation, so that limits on a label are
\* limits on the data: what a caller got was on record, and everything ingested
\* into it is within the class of its rule and, unless it mixes tenants, of the
\* caller's own tenant; a prompt holds nothing above its budget, admits to the
\* highest class in it, and leaves out only what is at least as sensitive as
\* what it holds (derive, combine, AllowlistRetrievalPolicy, compose).
FlowBounded ==
    /\ \A r \in retrieved :
         /\ r \in recorded
         /\ \A o \in r.data.origins :
              /\ o.class <= Rules[FirstRule(r.caller, r.purpose)].max_class
              /\ Cardinality({p.tenant : p \in r.data.origins}) = 1 =>
                   o.tenant = TenantOf[r.caller]
    /\ prompt # Nothing =>
         /\ \A d \in prompt.items : \A o \in d.origins :
              o.class <= prompt.budget.max_class /\ o.class <= RealizedMaxClass(prompt)
         /\ \A d \in prompt.left_out :
              /\ Cardinality(prompt.items) = prompt.budget.max_items
              /\ d.class >= RealizedMaxClass(prompt)

\* How deep in fences position n of a prompt is.
Depth(marks, n) ==
    Cardinality({i \in 1..(n - 1) : marks[i].mark = "open"})
      - Cardinality({i \in 1..(n - 1) : marks[i].mark = "close"})

\* Text stays where it was put, and secrets do not survive whole.  Every word of
\* an isolated prompt that nobody vouches for is inside exactly one fence,
\* although the text may hold markers of its own (assemble_isolated_prompt).
\* Of every match at least the first character is redacted, also of those
\* skipped because they overlap another, of which the rest may stay; all of it
\* where nothing overlaps (ScanResult.redact).
TextContained ==
    text # Nothing =>
      LET marks == FlattenSeq([i \in DOMAIN text.segments |-> Fenced(text.segments[i])])
          found == text.matches
          cut == Redact(found)
      IN  /\ \A n \in DOMAIN marks :
               marks[n].mark = "word" /\ marks[n].trust = "untrusted" => Depth(marks, n) = 1
          /\ \A m \in found :
               /\ m.start \in cut
               /\ (\A o \in found \ {m} : o.end <= m.start \/ m.end <= o.start) =>
                    m.start..(m.end - 1) \subseteq cut

=============================================================================
