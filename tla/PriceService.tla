---------------------------- MODULE PriceService ----------------------------
(***************************************************************************)
(* The price requests of server.py (get_prices, save_price_symbol and      *)
(* price_search) on the ticker mappings of cache.py, and the calls to the  *)
(* provider of prices.py with their retries.  Every request runs in a      *)
(* thread of its own.                                                      *)
(*                                                                         *)
(* price-symbols.json is read and replaced under the lock of its store,    *)
(* each by itself: set_symbol_mapping reads the whole file in one step and *)
(* writes it in another.  A file that cannot be read counts as empty.      *)
(***************************************************************************)
EXTENDS Naturals, FiniteSets

CONSTANTS
  Issuers,   \* issuers with a price page
  Symbols,   \* ticker symbols
  Requests,  \* requests, each made once
  None,      \* no mapping
  Retries    \* retries of one provider call

ASSUME PriceAssumption == Retries \in Nat

Queries == {"isin", "name"}
Kinds == {"history", "latest"}
Calls == Queries \union Kinds
Mapping == [symbol : Symbols, source : {"user_reviewed", "automatic"}]

ASSUME NoneAssumption == None \notin Mapping /\ None \notin Symbols

VARIABLES
  mappings,  \* price-symbols.json
  req        \* the requests

vars == <<mappings, req>>

NoCalls == [c \in Calls |-> "off"]
NoTries == [c \in Calls |-> 0]
EmptyFile == [i \in Issuers |-> None]

\* missed is not in the code: the issuers whose stored mapping was written
\* after the request had looked, or that it could not read.
NewRequest(i) ==
  [pc |-> "new", job |-> "prices", issuer |-> i, refresh |-> FALSE,
   symbol |-> None, root |-> EmptyFile, missed |-> {},
   call |-> NoCalls, tries |-> NoTries, fallback |-> {}]

Init ==
  /\ mappings \in [Issuers -> {None} \union [symbol : Symbols, source : {"user_reviewed"}]]
  /\ req \in [Requests -> {NewRequest(i) : i \in Issuers}]

\* A request ends, with an answer or with an error.
Ended(r, pc) == [NewRequest(req[r].issuer) EXCEPT !.pc = pc]
End(r, pc) == req' = [req EXCEPT ![r] = Ended(r, pc)]

-----------------------------------------------------------------------------
(* A call to the provider                                                  *)

\* Mutant: the attempts are not counted.
AttemptForever(r, c) ==
  /\ req[r].call[c] = "running"
  /\ \/ \E outcome \in {"ok", "failed"} :
          req' = [req EXCEPT ![r].call[c] = outcome, ![r].tries[c] = 0]
     \/ req' = [req EXCEPT ![r].tries[c] = IF @ < Retries THEN @ + 1 ELSE 0]
  /\ UNCHANGED mappings

\* Mutant: one attempt more than there are.
AttemptOnceMore(r, c) ==
  /\ req[r].call[c] = "running"
  /\ \/ \E outcome \in {"ok", "failed"} :
          req' = [req EXCEPT ![r].call[c] = outcome, ![r].tries[c] = 0]
     \/ /\ req[r].tries[c] <= Retries
        /\ req' = [req EXCEPT ![r].tries[c] = @ + 1]
  /\ UNCHANGED mappings

\* get_json: a response, a failure that is not retried, or one that is
\* retried until the attempts are used up.
Attempt(r, c) ==
  /\ req[r].call[c] = "running"
  /\ \/ \E outcome \in {"ok", "failed"} :
          req' = [req EXCEPT ![r].call[c] = outcome, ![r].tries[c] = 0]
     \/ /\ req[r].tries[c] < Retries
        /\ req' = [req EXCEPT ![r].tries[c] = @ + 1]
  /\ UNCHANGED mappings

Finished(r, c) == req[r].call[c] \in {"ok", "failed"}
Running(r) == {c \in Calls : req[r].call[c] = "running"}

-----------------------------------------------------------------------------
(* The requests                                                            *)

\* The security is found by its identifier, or the request ends here; so does
\* a search for a symbol, or for less than two characters, that is answered at
\* once.
Begin(r) ==
  /\ req[r].pc = "new"
  /\ \/ \E outcome \in {"answered", "failed"} : End(r, outcome)
     \/ \E refresh \in BOOLEAN :
          req' = [req EXCEPT ![r].pc = "find", ![r].refresh = refresh]
     \/ \E s \in Symbols :
          req' = [req EXCEPT ![r].pc = "read", ![r].job = "review", ![r].symbol = s]
     \/ req' = [req EXCEPT ![r].pc = "lookup", ![r].job = "search",
                           ![r].call["name"] = "running"]
  /\ UNCHANGED mappings

\* An issuer without an ISIN is looked up by its name alone.
StartLookup(r, missed) ==
  \E q \in Queries :
    req' = [req EXCEPT ![r].pc = "lookup", ![r].call[q] = "running", ![r].missed = missed]

\* Mutant: a refresh looks the symbol up again.
FindMappingAnew(r) ==
  /\ req[r].pc = "find"
  /\ IF mappings[req[r].issuer] # None /\ ~req[r].refresh
       THEN req' = [req EXCEPT ![r].pc = "cached",
                               ![r].symbol = mappings[req[r].issuer].symbol]
       ELSE StartLookup(r, {})
  /\ UNCHANGED mappings

\* _resolve_mapping: the stored mapping is used.
FindMapping(r) ==
  /\ req[r].pc = "find"
  /\ \/ /\ mappings[req[r].issuer] # None
        /\ req' = [req EXCEPT ![r].pc = "cached",
                              ![r].symbol = mappings[req[r].issuer].symbol]
     \/ mappings[req[r].issuer] = None /\ StartLookup(r, {})
     \/ StartLookup(r, Issuers)   \* the file cannot be read
  /\ UNCHANGED mappings

\* suggest_uk_symbols: the name is searched after the ISIN, whatever became
\* of that search, unless its answer was not a list of quotes.
SearchName(r) ==
  /\ req[r].pc = "lookup"
  /\ Finished(r, "isin") /\ req[r].call["name"] = "off"
  /\ \/ req' = [req EXCEPT ![r].call["name"] = "running"]
     \/ req[r].call["isin"] = "ok" /\ End(r, "failed")
  /\ UNCHANGED mappings

\* The best suggestion, if a search was answered and found one; a search
\* request answers with what there is.
Suggest(r) ==
  /\ req[r].pc = "lookup"
  /\ Finished(r, "name")
  /\ \/ /\ \E q \in Queries : req[r].call[q] = "ok"
        /\ IF req[r].job = "search"
             THEN End(r, "answered")
             ELSE \E s \in Symbols :
                  req' = [req EXCEPT ![r].pc = "read", ![r].symbol = s,
                                     ![r].call = NoCalls]
     \/ End(r, "failed")
  /\ UNCHANGED mappings

\* set_symbol_mapping, first half: the file as it is, or an empty one.
ReadMappings(r) ==
  /\ req[r].pc = "read"
  /\ \/ req' = [req EXCEPT ![r].pc = "write", ![r].root = mappings,
                           ![r].missed = @ \intersect {req[r].issuer}]
     \/ req' = [req EXCEPT ![r].pc = "write", ![r].root = EmptyFile,
                           ![r].missed = Issuers]
  /\ UNCHANGED mappings

Record(r) ==
  [symbol |-> req[r].symbol,
   source |-> IF req[r].job = "review" THEN "user_reviewed" ELSE "automatic"]

NewFile(r) == [req[r].root EXCEPT ![req[r].issuer] = Record(r)]

\* Requests that have looked at the file and are still going to write it.
Deciding == {q \in Requests : req[q].pc \in {"lookup", "read", "write"}}

\* Second half: the file that was read is written back with the new record,
\* or cannot be written.
WriteMappings(r) ==
  /\ req[r].pc = "write"
  /\ \/ /\ mappings' = NewFile(r)
        /\ LET changed == {i \in Issuers : NewFile(r)[i] # mappings[i]}
           IN  req' = [q \in Requests |->
                 IF q = r
                   THEN IF req[r].job = "review"
                          THEN Ended(r, "answered")
                          ELSE [req[r] EXCEPT !.root = EmptyFile, !.missed = {},
                                              !.pc = "cached"]
                   ELSE IF q \in Deciding
                          THEN [req[q] EXCEPT !.missed = @ \union changed]
                          ELSE req[q]]
     \/ End(r, "failed") /\ UNCHANGED mappings

\* get_payload: each kind may be in the cache, young enough or not; what is
\* not taken from there is fetched by a thread of its own, and what is usable
\* is kept in case that fails.
ReadCache(r) ==
  /\ req[r].pc = "cached"
  /\ \E young \in SUBSET Kinds :
     LET fetched == IF req[r].refresh THEN Kinds ELSE Kinds \ young
     IN \E usable \in SUBSET fetched :
           req' = [req EXCEPT ![r].pc = "fetch", ![r].refresh = FALSE,
                     ![r].fallback = usable,
                     ![r].call = [c \in Calls |-> IF c \in fetched THEN "running" ELSE "off"]]
  /\ UNCHANGED mappings

\* The results are taken in order.  One that failed, or cannot be cached, is
\* replaced by the older one, or ends the request when the pool is idle.
TakeResult(r, k) ==
  /\ req[r].pc = "fetch"
  /\ Finished(r, k)
  /\ k = "latest" => req[r].call["history"] = "off"
  /\ \/ /\ req[r].call[k] = "ok" \/ k \in req[r].fallback
        /\ req' = [req EXCEPT ![r].call[k] = "off", ![r].fallback = @ \ {k}]
     \/ k \notin req[r].fallback /\ Running(r) = {} /\ End(r, "failed")
  /\ UNCHANGED mappings

Answer(r) ==
  /\ req[r].pc = "fetch"
  /\ \A k \in Kinds : req[r].call[k] = "off"
  /\ End(r, "answered")
  /\ UNCHANGED mappings

-----------------------------------------------------------------------------
Step(r) ==
  \/ \E c \in Calls : Attempt(r, c)
  \/ FindMapping(r) \/ SearchName(r) \/ Suggest(r)
  \/ ReadMappings(r) \/ WriteMappings(r)
  \/ ReadCache(r) \/ Answer(r)
  \/ \E k \in Kinds : TakeResult(r, k)

Next == \E r \in Requests : Begin(r) \/ Step(r)

Spec == Init /\ [][Next]_vars

\* The threads of a request run until it is answered.
FairSpec == Spec /\ \A r \in Requests : WF_vars(Step(r))

-----------------------------------------------------------------------------
(* Properties                                                              *)

\* The type of the state, and: outside of a lookup and of the fetch of prices
\* no provider call runs.
TypeOK ==
  /\ mappings \in [Issuers -> {None} \union Mapping]
  /\ req \in [Requests ->
       [pc : {"new", "find", "lookup", "read", "write", "cached", "fetch",
              "answered", "failed"},
        job : {"prices", "review", "search"}, issuer : Issuers, refresh : BOOLEAN,
        symbol : Symbols \union {None}, root : [Issuers -> {None} \union Mapping],
        missed : SUBSET Issuers,
        call : [Calls -> {"off", "running", "ok", "failed"}],
        tries : [Calls -> 0 .. Retries], fallback : SUBSET Kinds]]
  /\ \A r \in Requests :
       /\ Running(r) \intersect Queries # {} => req[r].pc = "lookup"
       /\ Running(r) \intersect Kinds # {} => req[r].pc = "fetch"

Reviewed(i) == mappings[i] # None /\ mappings[i].source = "user_reviewed"

\* A mapping that a user has reviewed changes by another review of the same
\* issuer, or is lost to a request that looked at the file before the mapping
\* was saved or could not read it; a request that could know of it keeps it.
ReviewsAreKept ==
  [][\A i \in Issuers :
       Reviewed(i) /\ mappings'[i] # mappings[i] =>
         \E r \in Requests :
           /\ req[r].pc = "write" /\ req'[r].pc # "write"
           /\ i \in req[r].missed \/ (req[r].job = "review" /\ req[r].issuer = i)]_vars

\* Every request is answered, with prices or with an error: the retries end
\* and no request waits for another.
RequestsEnd ==
  \A r \in Requests : req[r].pc # "new" ~> req[r].pc \in {"answered", "failed"}
=============================================================================
