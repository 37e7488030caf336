------------------------ MODULE PriceService_proofs ------------------------
(***************************************************************************)
(* Theorems about PriceService for any issuers, symbols, requests and      *)
(* number of retries.                                                      *)
(***************************************************************************)
EXTENDS PriceService, TLAPS

Request ==
  [pc : {"new", "find", "lookup", "read", "write", "cached", "fetch",
         "answered", "failed"},
   job : {"prices", "review", "search"}, issuer : Issuers, refresh : BOOLEAN,
   symbol : Symbols \union {None}, root : [Issuers -> {None} \union Mapping],
   missed : SUBSET Issuers,
   call : [Calls -> {"off", "running", "ok", "failed"}],
   tries : [Calls -> 0 .. Retries], fallback : SUBSET Kinds]

\* No call runs outside of the phase it belongs to.
InPhase(q) ==
  \A c \in Calls : q.call[c] = "running" =>
    q.pc = IF c \in Queries THEN "lookup" ELSE "fetch"

\* What a request q knows of the mappings m while it looks one up to save it:
\* what it missed apart, it has seen them as they are.
Knows(q, m) ==
  /\ q.pc \in {"read", "write"} => q.symbol \in Symbols /\ q.job # "search"
  /\ /\ q.pc \in {"lookup", "read", "write"}
     /\ q.job = "prices" /\ q.issuer \notin q.missed
     => m[q.issuer] = None
  /\ q.pc = "write" =>
       \A i \in Issuers : i \notin q.missed /\ i # q.issuer => q.root[i] = m[i]

\* The inductive invariant.
IInv == TypeOK /\ \A r \in Requests : Knows(req[r], mappings)

\* TypeOK, request by request.
LEMMA TypeByRequest ==
  TypeOK <=> /\ mappings \in [Issuers -> {None} \union Mapping]
             /\ req \in [Requests -> Request]
             /\ \A r \in Requests : InPhase(req[r])
BY DEF TypeOK, Request, InPhase, Running, Calls, Queries, Kinds

\* A request that has ended is well typed and knows nothing.
LEMMA EndedTyped ==
  ASSUME NEW r \in Requests, req \in [Requests -> Request],
         NEW pc \in {"answered", "failed"}
  PROVE  /\ Ended(r, pc) \in Request
         /\ InPhase(Ended(r, pc))
         /\ Knows(Ended(r, pc), mappings)
<1>1. req[r].issuer \in Issuers
  BY DEF Request
<1>2. NewRequest(req[r].issuer) \in Request
  BY <1>1, PriceAssumption DEF NewRequest, Request, NoCalls, NoTries, EmptyFile, Calls
<1> QED
  BY <1>1, <1>2 DEF Ended, Request, InPhase, Knows, NewRequest, NoCalls


\* One request that changes to a well-typed one, and nothing else.
LEMMA OneChanges ==
  ASSUME IInv, NEW r \in Requests, mappings' = mappings, NEW q \in Request,
         InPhase(q), Knows(q, mappings), req' = [req EXCEPT ![r] = q]
  PROVE  IInv'
<1>1. /\ req \in [Requests -> Request]
      /\ \A p \in Requests : InPhase(req[p]) /\ Knows(req[p], mappings)
  BY TypeByRequest DEF IInv
<1>2. /\ req' \in [Requests -> Request]
      /\ \A p \in Requests : InPhase(req'[p]) /\ Knows(req'[p], mappings')
  BY <1>1
<1>3. TypeOK'
  BY <1>2, TypeByRequest DEF TypeOK, IInv, Request, InPhase, Running, Calls, Queries, Kinds
<1> QED
  BY <1>2, <1>3 DEF IInv

\* A request that ends.
LEMMA EndKeeps ==
  ASSUME IInv, NEW r \in Requests, mappings' = mappings,
         NEW pc \in {"answered", "failed"}, End(r, pc)
  PROVE  IInv'
BY EndedTyped, OneChanges, TypeByRequest DEF End, IInv

\* The mappings file as a request writes it.
LEMMA NewFileTyped ==
  ASSUME IInv, NEW r \in Requests, req[r].pc = "write"
  PROVE  NewFile(r) \in [Issuers -> {None} \union Mapping]
<1>1. req[r] \in Request /\ req[r].symbol \in Symbols
  BY TypeByRequest DEF IInv, Knows
<1>2. Record(r) \in Mapping
  BY <1>1 DEF Record, Mapping
<1>3. req[r].root \in [Issuers -> {None} \union Mapping]
  BY <1>1 DEF Request
<1> QED
  BY <1>2, <1>3 DEF NewFile

\* Every action but WriteMappings keeps the inductive invariant.
LEMMA OthersKeep ==
  ASSUME IInv, NEW r \in Requests,
         \/ Begin(r) \/ FindMapping(r) \/ SearchName(r) \/ Suggest(r)
         \/ ReadMappings(r) \/ ReadCache(r) \/ Answer(r)
         \/ \E c \in Calls : Attempt(r, c)
         \/ \E k \in Kinds : TakeResult(r, k)
  PROVE  IInv'
<1> USE DEF Calls, Queries, Kinds
<1>0. /\ mappings \in [Issuers -> {None} \union Mapping]
      /\ req \in [Requests -> Request]
      /\ \A p \in Requests : InPhase(req[p]) /\ Knows(req[p], mappings)
  BY TypeByRequest DEF IInv
<1>1. ASSUME NEW c \in Calls, Attempt(r, c) PROVE IInv'
  <2>1. ASSUME NEW outcome \in {"ok", "failed"},
               req' = [req EXCEPT ![r].call[c] = outcome, ![r].tries[c] = 0]
        PROVE  IInv'
    <3> DEFINE q == [req[r] EXCEPT !.call[c] = outcome, !.tries[c] = 0]
    <3>1. req[r] \in Request /\ InPhase(req[r]) /\ Knows(req[r], mappings)
      BY <1>0
    <3>2. /\ [req[r].call EXCEPT ![c] = outcome] \in [Calls -> {"off", "running", "ok", "failed"}]
          /\ [req[r].tries EXCEPT ![c] = 0] \in [Calls -> 0 .. Retries]
      BY <3>1, PriceAssumption DEF Request
    <3>3. q \in Request
      BY <3>1, <3>2 DEF Request
    <3>4. /\ q.pc = req[r].pc /\ q.call = [req[r].call EXCEPT ![c] = outcome]
          /\ q.job = req[r].job /\ q.issuer = req[r].issuer /\ q.symbol = req[r].symbol
          /\ q.root = req[r].root /\ q.missed = req[r].missed
      BY <3>1 DEF Request
    <3>5. InPhase(q)
      BY <3>1, <3>4, <1>1 DEF Request, InPhase, Attempt
    <3>6. Knows(q, mappings)
      BY <3>1, <3>4, <1>1 DEF Knows, Attempt
    <3>7. /\ DOMAIN req' = Requests
          /\ \A p \in Requests : req'[p] = IF p = r THEN q ELSE req[p]
      BY <2>1, <1>0 DEF Request
    <3>8. req' = [req EXCEPT ![r] = q]
      BY <2>1, <3>7, <1>0
    <3> QED
      BY <3>3, <3>5, <3>6, <3>8, <1>1, OneChanges DEF Attempt
  <2>2. CASE req[r].tries[c] < Retries /\ req' = [req EXCEPT ![r].tries[c] = @ + 1]
    <3> DEFINE q == [req[r] EXCEPT !.tries[c] = @ + 1]
    <3>1. req[r] \in Request /\ InPhase(req[r]) /\ Knows(req[r], mappings)
      BY <1>0
    <3>2. req[r].tries[c] + 1 \in 0 .. Retries
      BY <3>1, <2>2, PriceAssumption DEF Request
    <3>3. q \in Request
      BY <3>1, <3>2 DEF Request
    <3>4. /\ q.pc = req[r].pc /\ q.call = req[r].call
          /\ q.job = req[r].job /\ q.issuer = req[r].issuer /\ q.symbol = req[r].symbol
          /\ q.root = req[r].root /\ q.missed = req[r].missed
      BY <3>1 DEF Request
    <3>5. InPhase(q)
      BY <3>1, <3>4, <1>1 DEF Request, InPhase, Attempt
    <3>6. Knows(q, mappings)
      BY <3>1, <3>4, <1>1 DEF Knows, Attempt
    <3>7. /\ DOMAIN req' = Requests
          /\ \A p \in Requests : req'[p] = IF p = r THEN q ELSE req[p]
      BY <2>2, <1>0 DEF Request
    <3>8. req' = [req EXCEPT ![r] = q]
      BY <2>2, <3>7, <1>0
    <3> QED
      BY <3>3, <3>5, <3>6, <3>8, <1>1, OneChanges DEF Attempt
  <2> QED
    BY <1>1, <2>1, <2>2 DEF Attempt
<1>2. CASE Begin(r)
  <2>1. ASSUME NEW refresh \in BOOLEAN,
               req' = [req EXCEPT ![r].pc = "find", ![r].refresh = refresh]
        PROVE  IInv'
    <3> DEFINE q == [req[r] EXCEPT !.pc = "find", !.refresh = refresh]
    <3>1. req[r] \in Request /\ InPhase(req[r]) /\ Knows(req[r], mappings)
      BY <1>0
    <3>2. q \in Request
      BY <3>1 DEF Request
    <3>3. /\ q.pc = "find" /\ q.call = req[r].call
          /\ q.job = req[r].job /\ q.issuer = req[r].issuer /\ q.symbol = req[r].symbol
          /\ q.root = req[r].root /\ q.missed = req[r].missed
      BY <3>1 DEF Request
    <3>4. InPhase(q)
      BY <3>1, <3>3, <1>2 DEF Request, InPhase, Begin
    <3>5. Knows(q, mappings)
      BY <3>1, <3>3, <1>2 DEF Knows, Begin
    <3>6. /\ DOMAIN req' = Requests
          /\ \A p \in Requests : req'[p] = IF p = r THEN q ELSE req[p]
      BY <2>1, <1>0 DEF Request
    <3>7. req' = [req EXCEPT ![r] = q]
      BY <2>1, <3>6, <1>0
    <3> QED
      BY <3>2, <3>4, <3>5, <3>7, <1>2, OneChanges DEF Begin
  <2>2. ASSUME NEW s \in Symbols,
               req' = [req EXCEPT ![r].pc = "read", ![r].job = "review", ![r].symbol = s]
        PROVE  IInv'
    <3> DEFINE q == [req[r] EXCEPT !.pc = "read", !.job = "review", !.symbol = s]
    <3>1. req[r] \in Request /\ InPhase(req[r]) /\ Knows(req[r], mappings)
      BY <1>0
    <3>2. q \in Request
      BY <3>1 DEF Request
    <3>3. /\ q.pc = "read" /\ q.call = req[r].call
          /\ q.job = "review" /\ q.issuer = req[r].issuer /\ q.symbol = s
          /\ q.root = req[r].root /\ q.missed = req[r].missed
      BY <3>1 DEF Request
    <3>4. InPhase(q)
      BY <3>1, <3>3, <1>2 DEF Request, InPhase, Begin
    <3>5. Knows(q, mappings)
      BY <3>1, <3>3, <1>2 DEF Knows, Begin
    <3>6. /\ DOMAIN req' = Requests
          /\ \A p \in Requests : req'[p] = IF p = r THEN q ELSE req[p]
      BY <2>2, <1>0 DEF Request
    <3>7. req' = [req EXCEPT ![r] = q]
      BY <2>2, <3>6, <1>0
    <3> QED
      BY <3>2, <3>4, <3>5, <3>7, <1>2, OneChanges DEF Begin
  <2>3. CASE req' = [req EXCEPT ![r].pc = "lookup", ![r].job = "search",
                                ![r].call["name"] = "running"]
    <3> DEFINE q == [req[r] EXCEPT !.pc = "lookup", !.job = "search",
                                   !.call["name"] = "running"]
    <3>1. req[r] \in Request /\ InPhase(req[r]) /\ Knows(req[r], mappings)
      BY <1>0
    <3>2. q \in Request
      BY <3>1 DEF Request
    <3>3. /\ q.pc = "lookup" /\ q.call = [req[r].call EXCEPT !["name"] = "running"]
          /\ q.job = "search" /\ q.issuer = req[r].issuer /\ q.symbol = req[r].symbol
          /\ q.root = req[r].root /\ q.missed = req[r].missed
      BY <3>1 DEF Request
    <3>4. InPhase(q)
      BY <3>1, <3>3, <1>2 DEF Request, InPhase, Begin
    <3>5. Knows(q, mappings)
      BY <3>1, <3>3, <1>2 DEF Knows, Begin
    <3>6. /\ DOMAIN req' = Requests
          /\ \A p \in Requests : req'[p] = IF p = r THEN q ELSE req[p]
      BY <2>3, <1>0 DEF Request
    <3>7. req' = [req EXCEPT ![r] = q]
      BY <2>3, <3>6, <1>0
    <3> QED
      BY <3>2, <3>4, <3>5, <3>7, <1>2, OneChanges DEF Begin
  <2> QED
    BY <1>2, <2>1, <2>2, <2>3, EndKeeps DEF Begin
<1>3. CASE FindMapping(r)
  <2>1. ASSUME mappings[req[r].issuer] # None,
               req' = [req EXCEPT ![r].pc = "cached",
                                  ![r].symbol = mappings[req[r].issuer].symbol]
        PROVE  IInv'
    <3> DEFINE q == [req[r] EXCEPT !.pc = "cached", !.symbol = mappings[req[r].issuer].symbol]
    <3>1. req[r] \in Request /\ InPhase(req[r]) /\ Knows(req[r], mappings)
      BY <1>0
    <3>2. mappings[req[r].issuer].symbol \in Symbols
      BY <3>1, <1>0, <2>1 DEF Request, Mapping
    <3>3. q \in Request
      BY <3>1, <3>2 DEF Request
    <3>4. /\ q.pc = "cached" /\ q.call = req[r].call
          /\ q.job = req[r].job /\ q.issuer = req[r].issuer /\ q.symbol = mappings[req[r].issuer].symbol
          /\ q.root = req[r].root /\ q.missed = req[r].missed
      BY <3>1 DEF Request
    <3>5. InPhase(q)
      BY <3>1, <3>4, <1>3 DEF Request, InPhase, FindMapping
    <3>6. Knows(q, mappings)
      BY <3>1, <3>4, <1>3 DEF Knows, FindMapping
    <3>7. /\ DOMAIN req' = Requests
          /\ \A p \in Requests : req'[p] = IF p = r THEN q ELSE req[p]
      BY <2>1, <1>0 DEF Request
    <3>8. req' = [req EXCEPT ![r] = q]
      BY <2>1, <3>7, <1>0
    <3> QED
      BY <3>3, <3>5, <3>6, <3>8, <1>3, OneChanges DEF FindMapping
  <2>2. ASSUME NEW missed \in SUBSET Issuers, StartLookup(r, missed),
               req[r].issuer \notin missed => mappings[req[r].issuer] = None
        PROVE  IInv'
    <3>0. PICK k \in Queries :
            req' = [req EXCEPT ![r].pc = "lookup", ![r].call[k] = "running",
                               ![r].missed = missed]
      BY <2>2 DEF StartLookup
    <3> DEFINE q == [req[r] EXCEPT !.pc = "lookup", !.call[k] = "running", !.missed = missed]
    <3>1. req[r] \in Request /\ InPhase(req[r]) /\ Knows(req[r], mappings)
      BY <1>0
    <3>2. q \in Request
      BY <3>1 DEF Request
    <3>3. /\ q.pc = "lookup" /\ q.call = [req[r].call EXCEPT ![k] = "running"]
          /\ q.job = req[r].job /\ q.issuer = req[r].issuer /\ q.symbol = req[r].symbol
          /\ q.root = req[r].root /\ q.missed = missed
      BY <3>1 DEF Request
    <3>4. InPhase(q)
      BY <3>1, <3>3, <1>3 DEF Request, InPhase, FindMapping
    <3>5. Knows(q, mappings)
      BY <3>1, <3>3, <1>3, <2>2 DEF Knows, FindMapping
    <3>6. /\ DOMAIN req' = Requests
          /\ \A p \in Requests : req'[p] = IF p = r THEN q ELSE req[p]
      BY <3>0, <1>0 DEF Request
    <3>7. req' = [req EXCEPT ![r] = q]
      BY <3>0, <3>6, <1>0
    <3> QED
      BY <3>2, <3>4, <3>5, <3>7, <1>3, OneChanges DEF FindMapping
  <2>3. req[r].issuer \in Issuers
    BY <1>0 DEF Request
  <2> QED
    BY <1>3, <2>1, <2>2, <2>3 DEF FindMapping
<1>4. CASE SearchName(r)
  <2>1. CASE req' = [req EXCEPT ![r].call["name"] = "running"]
    <3> DEFINE q == [req[r] EXCEPT !.call["name"] = "running"]
    <3>1. req[r] \in Request /\ InPhase(req[r]) /\ Knows(req[r], mappings)
      BY <1>0
    <3>2. q \in Request
      BY <3>1 DEF Request
    <3>3. /\ q.pc = req[r].pc /\ q.call = [req[r].call EXCEPT !["name"] = "running"]
          /\ q.job = req[r].job /\ q.issuer = req[r].issuer /\ q.symbol = req[r].symbol
          /\ q.root = req[r].root /\ q.missed = req[r].missed
      BY <3>1 DEF Request
    <3>4. InPhase(q)
      BY <3>1, <3>3, <1>4 DEF Request, InPhase, SearchName
    <3>5. Knows(q, mappings)
      BY <3>1, <3>3, <1>4 DEF Knows, SearchName
    <3>6. /\ DOMAIN req' = Requests
          /\ \A p \in Requests : req'[p] = IF p = r THEN q ELSE req[p]
      BY <2>1, <1>0 DEF Request
    <3>7. req' = [req EXCEPT ![r] = q]
      BY <2>1, <3>6, <1>0
    <3> QED
      BY <3>2, <3>4, <3>5, <3>7, <1>4, OneChanges DEF SearchName
  <2> QED
    BY <1>4, <2>1, EndKeeps DEF SearchName
<1>5. CASE Suggest(r)
  <2>1. ASSUME NEW s \in Symbols, req[r].job # "search",
               req' = [req EXCEPT ![r].pc = "read", ![r].symbol = s, ![r].call = NoCalls]
        PROVE  IInv'
    <3> DEFINE q == [req[r] EXCEPT !.pc = "read", !.symbol = s, !.call = NoCalls]
    <3>1. req[r] \in Request /\ InPhase(req[r]) /\ Knows(req[r], mappings)
      BY <1>0
    <3>2. q \in Request
      BY <3>1 DEF Request, NoCalls
    <3>3. /\ q.pc = "read" /\ q.call = NoCalls
          /\ q.job = req[r].job /\ q.issuer = req[r].issuer /\ q.symbol = s
          /\ q.root = req[r].root /\ q.missed = req[r].missed
      BY <3>1 DEF Request
    <3>4. InPhase(q)
      BY <3>1, <3>3, <1>5 DEF Request, InPhase, Suggest, NoCalls
    <3>5. Knows(q, mappings)
      BY <3>1, <3>3, <1>5, <2>1 DEF Knows, Suggest
    <3>6. /\ DOMAIN req' = Requests
          /\ \A p \in Requests : req'[p] = IF p = r THEN q ELSE req[p]
      BY <2>1, <1>0 DEF Request
    <3>7. req' = [req EXCEPT ![r] = q]
      BY <2>1, <3>6, <1>0
    <3> QED
      BY <3>2, <3>4, <3>5, <3>7, <1>5, OneChanges DEF Suggest
  <2> QED
    BY <1>5, <2>1, EndKeeps DEF Suggest
<1>6. CASE ReadMappings(r)
  <2>1. ASSUME NEW root \in [Issuers -> {None} \union Mapping],
               NEW missed \in SUBSET Issuers,
               req[r].issuer \in req[r].missed => req[r].issuer \in missed,
               \A i \in Issuers : i \notin missed => root[i] = mappings[i],
               req' = [req EXCEPT ![r].pc = "write", ![r].root = root, ![r].missed = missed]
        PROVE  IInv'
    <3> DEFINE q == [req[r] EXCEPT !.pc = "write", !.root = root, !.missed = missed]
    <3>1. req[r] \in Request /\ InPhase(req[r]) /\ Knows(req[r], mappings)
      BY <1>0
    <3>2. q \in Request
      BY <3>1 DEF Request
    <3>3. /\ q.pc = "write" /\ q.call = req[r].call
          /\ q.job = req[r].job /\ q.issuer = req[r].issuer /\ q.symbol = req[r].symbol
          /\ q.root = root /\ q.missed = missed
      BY <3>1 DEF Request
    <3>4. InPhase(q)
      BY <3>1, <3>3, <1>6 DEF Request, InPhase, ReadMappings
    <3>5. Knows(q, mappings)
      BY <3>1, <3>3, <1>6, <2>1 DEF Knows, ReadMappings
    <3>6. /\ DOMAIN req' = Requests
          /\ \A p \in Requests : req'[p] = IF p = r THEN q ELSE req[p]
      BY <2>1, <1>0 DEF Request
    <3>7. req' = [req EXCEPT ![r] = q]
      BY <2>1, <3>6, <1>0
    <3> QED
      BY <3>2, <3>4, <3>5, <3>7, <1>6, OneChanges DEF ReadMappings
  <2>2. CASE req' = [req EXCEPT ![r].pc = "write", ![r].root = mappings,
                                ![r].missed = @ \intersect {req[r].issuer}]
    <3> DEFINE missed == req[r].missed \intersect {req[r].issuer}
    <3>1. /\ missed \in SUBSET Issuers
          /\ req[r].issuer \in req[r].missed => req[r].issuer \in missed
      BY <1>0 DEF Request
    <3>2. req' = [req EXCEPT ![r].pc = "write", ![r].root = mappings, ![r].missed = missed]
      BY <2>2
    <3> HIDE DEF missed
    <3> QED
      BY <1>0, <2>1, <3>1, <3>2
  <2>3. CASE req' = [req EXCEPT ![r].pc = "write", ![r].root = EmptyFile,
                                ![r].missed = Issuers]
    <3>1. /\ EmptyFile \in [Issuers -> {None} \union Mapping]
          /\ req[r].issuer \in Issuers
      BY <1>0 DEF EmptyFile, Request
    <3> QED
      BY <2>1, <2>3, <3>1
  <2> QED
    BY <1>6, <2>2, <2>3 DEF ReadMappings
<1>7. CASE ReadCache(r)
  <2>1. ASSUME NEW fetched \in SUBSET Kinds, NEW usable \in SUBSET fetched,
               req' = [req EXCEPT ![r].pc = "fetch", ![r].refresh = FALSE,
                         ![r].fallback = usable,
                         ![r].call = [c \in Calls |-> IF c \in fetched THEN "running" ELSE "off"]]
        PROVE  IInv'
    <3> DEFINE calls == [c \in Calls |-> IF c \in fetched THEN "running" ELSE "off"]
    <3> DEFINE q == [req[r] EXCEPT !.pc = "fetch", !.refresh = FALSE, !.fallback = usable,
                                   !.call = calls]
    <3>1. req[r] \in Request /\ InPhase(req[r]) /\ Knows(req[r], mappings)
      BY <1>0
    <3>2. q \in Request
      BY <3>1 DEF Request
    <3>3. /\ q.pc = "fetch" /\ q.call = calls
          /\ q.job = req[r].job /\ q.issuer = req[r].issuer /\ q.symbol = req[r].symbol
          /\ q.root = req[r].root /\ q.missed = req[r].missed
      BY <3>1 DEF Request
    <3>4. InPhase(q)
      BY <3>1, <3>3, <1>7 DEF Request, InPhase, ReadCache
    <3>5. Knows(q, mappings)
      BY <3>1, <3>3, <1>7 DEF Knows, ReadCache
    <3>6. /\ DOMAIN req' = Requests
          /\ \A p \in Requests : req'[p] = IF p = r THEN q ELSE req[p]
      BY <2>1, <1>0 DEF Request
    <3>7. req' = [req EXCEPT ![r] = q]
      BY <2>1, <3>6, <1>0
    <3> QED
      BY <3>2, <3>4, <3>5, <3>7, <1>7, OneChanges DEF ReadCache
  <2>2. PICK young \in SUBSET Kinds :
          LET fetched == IF req[r].refresh THEN Kinds ELSE Kinds \ young
          IN \E usable \in SUBSET fetched :
               req' = [req EXCEPT ![r].pc = "fetch", ![r].refresh = FALSE,
                 ![r].fallback = usable,
                 ![r].call = [c \in Calls |-> IF c \in fetched THEN "running" ELSE "off"]]
    BY <1>7 DEF ReadCache
  <2> DEFINE fetched == IF req[r].refresh THEN Kinds ELSE Kinds \ young
  <2>3. fetched \in SUBSET Kinds
    OBVIOUS
  <2>4. PICK usable \in SUBSET fetched :
          req' = [req EXCEPT ![r].pc = "fetch", ![r].refresh = FALSE,
                    ![r].fallback = usable,
                    ![r].call = [c \in Calls |-> IF c \in fetched THEN "running" ELSE "off"]]
    BY <2>2
  <2> HIDE DEF fetched
  <2> QED
    BY <2>1, <2>3, <2>4
<1>8. ASSUME NEW k \in Kinds, TakeResult(r, k) PROVE IInv'
  <2>1. CASE req' = [req EXCEPT ![r].call[k] = "off", ![r].fallback = @ \ {k}]
    <3> DEFINE q == [req[r] EXCEPT !.call[k] = "off", !.fallback = @ \ {k}]
    <3>1. req[r] \in Request /\ InPhase(req[r]) /\ Knows(req[r], mappings)
      BY <1>0
    <3>2. q \in Request
      BY <3>1 DEF Request
    <3>3. /\ q.pc = req[r].pc /\ q.call = [req[r].call EXCEPT ![k] = "off"]
          /\ q.job = req[r].job /\ q.issuer = req[r].issuer /\ q.symbol = req[r].symbol
          /\ q.root = req[r].root /\ q.missed = req[r].missed
      BY <3>1 DEF Request
    <3>4. InPhase(q)
      BY <3>1, <3>3, <1>8 DEF Request, InPhase, TakeResult
    <3>5. Knows(q, mappings)
      BY <3>1, <3>3, <1>8 DEF Knows, TakeResult
    <3>6. /\ DOMAIN req' = Requests
          /\ \A p \in Requests : req'[p] = IF p = r THEN q ELSE req[p]
      BY <2>1, <1>0 DEF Request
    <3>7. req' = [req EXCEPT ![r] = q]
      BY <2>1, <3>6, <1>0
    <3> QED
      BY <3>2, <3>4, <3>5, <3>7, <1>8, OneChanges DEF TakeResult
  <2> QED
    BY <1>8, <2>1, EndKeeps DEF TakeResult
<1>9. CASE Answer(r)
  BY <1>9, EndKeeps DEF Answer
<1> QED
  BY <1>1, <1>2, <1>3, <1>4, <1>5, <1>6, <1>7, <1>8, <1>9

\* A request that writes the file tells the others, which keeps the inductive
\* invariant: each of them misses what has changed.
LEMMA WriteKeeps ==
  ASSUME IInv, NEW r \in Requests, WriteMappings(r) PROVE IInv'
<1>0. /\ mappings \in [Issuers -> {None} \union Mapping]
      /\ req \in [Requests -> Request]
      /\ \A p \in Requests : InPhase(req[p]) /\ Knows(req[p], mappings)
  BY TypeByRequest DEF IInv
<1>1. CASE End(r, "failed") /\ UNCHANGED mappings
  BY <1>1, EndKeeps
<1>2. CASE mappings' = NewFile(r) /\ ~(End(r, "failed") /\ UNCHANGED mappings)
  <2> DEFINE changed == {i \in Issuers : NewFile(r)[i] # mappings[i]}
             finished == [req[r] EXCEPT !.root = EmptyFile, !.missed = {}, !.pc = "cached"]
  <2>1. /\ DOMAIN req' = Requests
        /\ req'[r] = IF req[r].job = "review" THEN Ended(r, "answered") ELSE finished
        /\ \A q \in Requests \ {r} :
             req'[q] = IF q \in Deciding
                         THEN [req[q] EXCEPT !.missed = @ \union changed]
                         ELSE req[q]
    BY <1>2 DEF WriteMappings
  <2>2. req[r].pc = "write"
    BY DEF WriteMappings
  <2>3. mappings' \in [Issuers -> {None} \union Mapping]
    BY <1>2, <2>2, NewFileTyped
  <2>4. req'[r] \in Request /\ InPhase(req'[r]) /\ Knows(req'[r], mappings')
    <3>1. req[r] \in Request /\ InPhase(req[r])
      BY <1>0
    <3>2. EmptyFile \in [Issuers -> {None} \union Mapping]
      BY DEF EmptyFile
    <3>3. finished \in Request
      BY <3>1, <3>2 DEF Request
    <3>4. finished.pc = "cached" /\ finished.call = req[r].call
      BY <3>1 DEF Request
    <3>5. InPhase(finished) /\ Knows(finished, mappings')
      BY <2>2, <3>1, <3>4 DEF InPhase, Knows
    <3>6. Ended(r, "answered") \in Request /\ InPhase(Ended(r, "answered"))
      BY <1>0, EndedTyped
    <3>7. Ended(r, "answered").pc = "answered"
      BY DEF Ended, NewRequest
    <3>8. Knows(Ended(r, "answered"), mappings')
      BY <3>7 DEF Knows
    <3> HIDE DEF finished
    <3> QED
      BY <2>1, <3>3, <3>5, <3>6, <3>8
  <2>5. ASSUME NEW q \in Requests \ {r}
        PROVE  req'[q] \in Request /\ InPhase(req'[q]) /\ Knows(req'[q], mappings')
    <3> DEFINE wiser == [req[q] EXCEPT !.missed = @ \union changed]
    <3>1. req[q] \in Request /\ InPhase(req[q]) /\ Knows(req[q], mappings)
      BY <1>0
    <3>2. CASE q \in Deciding
      <4>1. req'[q] = wiser
        BY <2>1, <3>2
      <4>2. req[q].missed \union changed \in SUBSET Issuers
        BY <3>1 DEF Request
      <4>3. wiser \in Request
        BY <3>1, <4>2 DEF Request
      <4>4. /\ wiser.pc = req[q].pc /\ wiser.call = req[q].call
            /\ wiser.job = req[q].job /\ wiser.issuer = req[q].issuer
            /\ wiser.symbol = req[q].symbol /\ wiser.root = req[q].root
            /\ wiser.missed = req[q].missed \union changed
        BY <3>1 DEF Request
      <4>5. req[q].issuer \in Issuers
        BY <3>1 DEF Request
      <4>6. \A i \in Issuers : i \notin changed => mappings'[i] = mappings[i]
        BY <1>2
      <4> HIDE DEF wiser, changed
      <4>7. InPhase(wiser)
        BY <3>1, <4>4 DEF InPhase
      <4>8. Knows(wiser, mappings')
        BY <3>1, <4>4, <4>5, <4>6 DEF Knows
      <4> QED
        BY <4>1, <4>3, <4>7, <4>8
    <3>3. CASE q \notin Deciding
      <4>1. req'[q] = req[q]
        BY <2>1, <3>3
      <4>2. req[q].pc \notin {"lookup", "read", "write"}
        BY <3>3 DEF Deciding
      <4> QED
        BY <3>1, <4>1, <4>2 DEF Knows
    <3> QED
      BY <3>2, <3>3
  <2>6. \A q \in Requests :
          req'[q] \in Request /\ InPhase(req'[q]) /\ Knows(req'[q], mappings')
    BY <2>4, <2>5
  <2>7. req' \in [Requests -> Request]
    <3>1. req' = [q \in Requests |-> req'[q]]
      BY <1>2 DEF WriteMappings
    <3> QED
      BY <2>6, <3>1
  <2>8. TypeOK'
    BY <2>3, <2>6, <2>7 DEF TypeOK, Request, InPhase, Running, Calls, Queries, Kinds
  <2> QED
    BY <2>6, <2>8 DEF IInv
<1> QED
  BY <1>1, <1>2 DEF WriteMappings

\* Every step keeps the inductive invariant.
LEMMA StepKeeps == IInv /\ [Next]_vars => IInv'
<1> SUFFICES ASSUME IInv, [Next]_vars PROVE IInv'
  OBVIOUS
<1>1. CASE UNCHANGED vars
  BY <1>1 DEF IInv, TypeOK, Running, Knows, vars
<1>2. ASSUME NEW r \in Requests, Begin(r) \/ Step(r) PROVE IInv'
  BY <1>2, OthersKeep, WriteKeeps DEF Step
<1> QED
  BY <1>1, <1>2 DEF Next

\* The inductive invariant holds at the start.
LEMMA InitHolds == Init => IInv
<1> SUFFICES ASSUME Init PROVE IInv
  OBVIOUS
<1>1. \A i \in Issuers : /\ NewRequest(i) \in Request
                         /\ InPhase(NewRequest(i))
                         /\ Knows(NewRequest(i), mappings)
  BY PriceAssumption
  DEF NewRequest, Request, NoCalls, NoTries, EmptyFile, InPhase, Knows, Calls
<1>2. mappings \in [Issuers -> {None} \union Mapping]
  BY DEF Init, Mapping
<1>3. req \in [Requests -> {NewRequest(i) : i \in Issuers}]
  BY DEF Init
<1>4. \A r \in Requests : req[r] \in Request /\ InPhase(req[r]) /\ Knows(req[r], mappings)
  BY <1>1, <1>3
<1>5. req \in [Requests -> Request]
  BY <1>3, <1>4
<1> QED
  BY <1>2, <1>4, <1>5, TypeByRequest DEF IInv

\* Type correctness, and: provider calls run in their phase only.
THEOREM TypeCorrect == Spec => []TypeOK
<1>1. IInv => TypeOK
  BY DEF IInv
<1> QED
  BY <1>1, InitHolds, StepKeeps, PTL DEF Spec

-----------------------------------------------------------------------------
(* The reviewed mappings                                                   *)

\* The step that changes a mapping is the second half of set_symbol_mapping.
LEMMA OnlyWritesChange ==
  [Next]_vars /\ mappings' # mappings =>
    \E r \in Requests : WriteMappings(r) /\ mappings' = NewFile(r)
BY DEF Next, Step, Begin, FindMapping, SearchName, Suggest, ReadMappings,
       WriteMappings, ReadCache, Answer, Attempt, TakeResult, vars

\* A mapping that a user has reviewed changes by another review of the same
\* issuer, or is lost to a request that missed it.
THEOREM ReviewedMappingsAreKept == Spec => ReviewsAreKept
<1>1. IInv /\ [Next]_vars =>
        \A i \in Issuers :
          Reviewed(i) /\ mappings'[i] # mappings[i] =>
            \E r \in Requests :
              /\ req[r].pc = "write" /\ req'[r].pc # "write"
              /\ i \in req[r].missed \/ (req[r].job = "review" /\ req[r].issuer = i)
  <2> SUFFICES ASSUME IInv, [Next]_vars, NEW i \in Issuers, Reviewed(i),
                      mappings'[i] # mappings[i]
               PROVE  \E r \in Requests :
                        /\ req[r].pc = "write" /\ req'[r].pc # "write"
                        /\ i \in req[r].missed \/ (req[r].job = "review" /\ req[r].issuer = i)
    OBVIOUS
  <2>1. PICK r \in Requests : WriteMappings(r) /\ mappings' = NewFile(r)
    BY OnlyWritesChange
  <2>2. req[r].pc = "write" /\ req[r] \in Request /\ Knows(req[r], mappings)
    BY <2>1, TypeByRequest DEF WriteMappings, IInv
  <2>3. req'[r].pc # "write"
    <3>1. CASE End(r, "failed")
      BY <3>1, TypeByRequest DEF End, Ended, NewRequest, IInv
    <3>2. CASE req'[r] = Ended(r, "answered")
      BY <3>2 DEF Ended, NewRequest
    <3>3. CASE req'[r] = [req[r] EXCEPT !.root = EmptyFile, !.missed = {}, !.pc = "cached"]
      BY <2>2, <3>3 DEF Request
    <3> QED
      BY <2>1, <3>1, <3>2, <3>3 DEF WriteMappings
  <2>4. CASE i # req[r].issuer
    <3>1. NewFile(r)[i] = req[r].root[i]
      BY <2>2, <2>4 DEF NewFile, Request
    <3>2. i \in req[r].missed
      BY <2>1, <2>2, <2>4, <3>1 DEF Knows
    <3> QED
      BY <2>2, <2>3, <3>2
  <2>5. CASE i = req[r].issuer
    <3>1. req[r].job \in {"prices", "review"}
      BY <2>2 DEF Knows, Request
    <3>2. mappings[i] # None
      BY DEF Reviewed
    <3>3. req[r].job = "review" \/ i \in req[r].missed
      BY <2>2, <2>5, <3>1, <3>2 DEF Knows
    <3> QED
      BY <2>2, <2>3, <2>5, <3>3
  <2> QED
    BY <2>4, <2>5
<1> QED
  BY <1>1, InitHolds, StepKeeps, PTL DEF Spec, ReviewsAreKept
-----------------------------------------------------------------------------
(* How long a request can take                                             *)

\* The phases in the order a request goes through them, backwards.
Rank == [new |-> 7, find |-> 6, lookup |-> 5, read |-> 4, write |-> 3,
         cached |-> 2, fetch |-> 1, answered |-> 0, failed |-> 0]

\* What a call can still cost a request: the attempts that are left, the one
\* that ends it and the use of its result.  The search for the name comes last
\* in a lookup.
Weight(q, c) ==
  CASE q.call[c] = "running" -> Retries - q.tries[c] + 2
    [] q.call[c] = "off" -> IF c = "name" /\ q.pc = "lookup" THEN Retries + 3 ELSE 0
    [] OTHER -> 1

Work(q) == Weight(q, "isin") + Weight(q, "name") + Weight(q, "history") + Weight(q, "latest")

\* A bound on the steps a request has left.
Left(q) == Rank[q.pc] * (4 * Retries + 13) + Work(q)

\* A call costs less than all the retries and three steps.
LEMMA WeightBound ==
  ASSUME NEW q \in Request, NEW c \in Calls
  PROVE  Weight(q, c) \in 0 .. Retries + 3
<1>1. q.tries[c] \in 0 .. Retries
  BY DEF Request
<1> QED
  BY <1>1, PriceAssumption DEF Weight

\* So all calls together cost less than a phase.
LEMMA WorkBound ==
  ASSUME NEW q \in Request PROVE Work(q) \in 0 .. 4 * Retries + 12
<1>1. /\ Weight(q, "isin") \in 0 .. Retries + 3
      /\ Weight(q, "name") \in 0 .. Retries + 3
      /\ Weight(q, "history") \in 0 .. Retries + 3
      /\ Weight(q, "latest") \in 0 .. Retries + 3
  BY WeightBound DEF Calls, Queries, Kinds
<1> QED
  BY <1>1, PriceAssumption DEF Work

\* A rank is a number from 0 to 7.
LEMMA RankType == ASSUME NEW q \in Request PROVE Rank[q.pc] \in 0 .. 7
BY DEF Rank, Request

\* The bound is a natural number.
LEMMA LeftType == ASSUME NEW q \in Request PROVE Left(q) \in Nat
<1> DEFINE m == 4 * Retries + 13
<1>1. m \in Nat
  BY PriceAssumption
<1>2. Work(q) \in Nat
  BY WorkBound, PriceAssumption
<1>3. \A a \in 0 .. 7, v \in Nat : a * m + v \in Nat
  <2> HIDE DEF m
  <2> QED
    BY <1>1
<1> QED
  BY <1>2, <1>3, RankType DEF Left

\* A later phase leaves fewer steps, whatever calls it has yet to make.
LEMMA PhaseDrops ==
  ASSUME NEW q \in Request, NEW n \in Request, Rank[n.pc] < Rank[q.pc]
  PROVE  Left(n) < Left(q)
<1> DEFINE m == 4 * Retries + 13
<1>1. m \in Nat
  BY PriceAssumption
<1>2. Work(q) \in Nat /\ Work(n) \in Nat /\ Work(n) < m
  BY WorkBound, PriceAssumption
<1>3. \A a, b \in 0 .. 7 : \A v, w \in Nat :
        a < b /\ w < m => a * m + w < b * m + v
  <2> HIDE DEF m
  <2> SUFFICES ASSUME NEW a \in 0 .. 7, NEW b \in 0 .. 7, NEW v \in Nat, NEW w \in Nat,
                      a < b, w < m
               PROVE  a * m + w < b * m + v
    OBVIOUS
  <2>1. PICK d \in 0 .. 7 : b = a + 1 + d
    <3>1. b - a - 1 \in 0 .. 7 /\ b = a + 1 + (b - a - 1)
      OBVIOUS
    <3> QED
      BY <3>1
  <2>2. b * m = a * m + m + d * m
    BY <1>1, <2>1
  <2>3. d * m \in Nat /\ a * m \in Nat
    BY <1>1
  <2> QED
    BY <1>1, <2>2, <2>3
<1> QED
  BY <1>2, <1>3, RankType DEF Left

\* So does one call that has less to do, in the same phase.
LEMMA CallDrops ==
  ASSUME NEW q \in Request, NEW n \in Request, n.pc = q.pc, NEW c \in Calls,
         Weight(n, c) < Weight(q, c),
         \A d \in Calls : d # c => n.call[d] = q.call[d] /\ n.tries[d] = q.tries[d]
  PROVE  Left(n) < Left(q)
<1>1. \A d \in Calls : d # c => Weight(n, d) = Weight(q, d)
  BY DEF Weight
<1>2. \A d \in Calls : Weight(n, d) \in Nat /\ Weight(q, d) \in Nat
  BY WeightBound, PriceAssumption
<1>3. Work(n) < Work(q)
  BY <1>1, <1>2 DEF Work, Calls, Queries, Kinds
<1> DEFINE k == Rank[q.pc] * (4 * Retries + 13)
<1>4. k \in Nat
  BY RankType, PriceAssumption
<1>5. Work(n) \in Nat /\ Work(q) \in Nat
  BY WorkBound, PriceAssumption
<1>6. Left(q) = k + Work(q) /\ Left(n) = k + Work(n)
  BY DEF Left
<1> HIDE DEF k
<1> QED
  BY <1>3, <1>4, <1>5, <1>6

\* Every step of a request brings it nearer to its end: it enters a later
\* phase, or one of its calls has less to do.
LEMMA StepsCount ==
  ASSUME IInv, IInv', NEW r \in Requests, Begin(r) \/ Step(r)
  PROVE  Left(req'[r]) < Left(req[r])
<1> USE DEF Calls, Queries, Kinds
<1>0. /\ req \in [Requests -> Request] /\ req[r] \in Request
      /\ req' \in [Requests -> Request] /\ req'[r] \in Request
  BY TypeByRequest DEF IInv, TypeOK, Request
<1>1. ASSUME Rank[req'[r].pc] < Rank[req[r].pc] PROVE Left(req'[r]) < Left(req[r])
  BY <1>0, <1>1, PhaseDrops
<1>2. ASSUME NEW pc \in {"answered", "failed"}, End(r, pc),
             req[r].pc \notin {"answered", "failed"}
      PROVE  Left(req'[r]) < Left(req[r])
  <2>1. req'[r].pc = pc
    BY <1>0, <1>2 DEF End, Ended, NewRequest
  <2>2. Rank[req'[r].pc] < Rank[req[r].pc]
    BY <1>0, <1>2, <2>1 DEF Rank, Request
  <2> QED
    BY <1>1, <2>2
<1>3. CASE Begin(r)
  <2>1. ASSUME NEW outcome \in {"answered", "failed"}, End(r, outcome)
        PROVE  Left(req'[r]) < Left(req[r])
    BY <1>2, <1>3, <2>1 DEF Begin
  <2>2. CASE \A outcome \in {"answered", "failed"} : ~End(r, outcome)
    <3>1. req[r].pc = "new" /\ req'[r].pc \in {"find", "read", "lookup"}
      BY <1>0, <1>3, <2>2 DEF Begin, Request
    <3> QED
      BY <1>1, <3>1 DEF Rank
  <2> QED
    BY <2>1, <2>2
<1>4. ASSUME NEW c \in Calls, Attempt(r, c) PROVE Left(req'[r]) < Left(req[r])
  <2>1. req[r].call[c] = "running" /\ req[r].tries[c] \in 0 .. Retries
    BY <1>0, <1>4 DEF Attempt, Request
  <2>2. /\ req'[r].pc = req[r].pc
        /\ \A d \in Calls : d # c => /\ req'[r].call[d] = req[r].call[d]
                                     /\ req'[r].tries[d] = req[r].tries[d]
    BY <1>0, <1>4 DEF Attempt, Request
  <2>3. \/ req'[r].call[c] \in {"ok", "failed"}
        \/ /\ req'[r].call[c] = "running" /\ req[r].tries[c] < Retries
           /\ req'[r].tries[c] = req[r].tries[c] + 1
    BY <1>0, <1>4 DEF Attempt, Request
  <2>4. Weight(req'[r], c) < Weight(req[r], c)
    BY <2>1, <2>3, PriceAssumption DEF Weight
  <2> QED
    BY <1>0, <2>2, <2>4, CallDrops
<1>5. CASE FindMapping(r)
  <2>1. req[r].pc = "find" /\ req'[r].pc \in {"cached", "lookup"}
    BY <1>0, <1>5 DEF FindMapping, StartLookup, Request
  <2> QED
    BY <1>1, <2>1 DEF Rank
<1>6. CASE SearchName(r)
  <2>1. CASE End(r, "failed")
    BY <1>2, <1>6, <2>1 DEF SearchName
  <2>2. CASE req' = [req EXCEPT ![r].call["name"] = "running"]
    <3>1. req[r].pc = "lookup" /\ req[r].call["name"] = "off"
      BY <1>6 DEF SearchName
    <3>2. /\ req'[r].pc = req[r].pc
          /\ req'[r].call["name"] = "running"
          /\ req'[r].tries["name"] \in 0 .. Retries
          /\ \A d \in Calls : d # "name" => /\ req'[r].call[d] = req[r].call[d]
                                            /\ req'[r].tries[d] = req[r].tries[d]
      BY <1>0, <2>2 DEF Request
    <3>3. Weight(req'[r], "name") < Weight(req[r], "name")
      BY <3>1, <3>2, PriceAssumption DEF Weight
    <3> QED
      BY <1>0, <3>2, <3>3, CallDrops
  <2> QED
    BY <1>6, <2>1, <2>2 DEF SearchName
<1>7. CASE Suggest(r)
  <2>1. CASE End(r, "answered") \/ End(r, "failed")
    BY <1>2, <1>7, <2>1 DEF Suggest
  <2>2. ASSUME NEW s \in Symbols,
               req' = [req EXCEPT ![r].pc = "read", ![r].symbol = s, ![r].call = NoCalls]
        PROVE  Left(req'[r]) < Left(req[r])
    <3>1. req[r].pc = "lookup" /\ req'[r].pc = "read"
      BY <1>0, <1>7, <2>2 DEF Suggest, Request
    <3> QED
      BY <1>1, <3>1 DEF Rank
  <2> QED
    BY <1>7, <2>1, <2>2 DEF Suggest
<1>8. CASE ReadMappings(r)
  <2>1. req[r].pc = "read" /\ req'[r].pc = "write"
    BY <1>0, <1>8 DEF ReadMappings, Request
  <2> QED
    BY <1>1, <2>1 DEF Rank
<1>9. CASE WriteMappings(r)
  <2>1. CASE End(r, "failed")
    BY <1>2, <1>9, <2>1 DEF WriteMappings
  <2>2. CASE req'[r] \in {Ended(r, "answered"),
                          [req[r] EXCEPT !.root = EmptyFile, !.missed = {}, !.pc = "cached"]}
    <3>1. req'[r].pc \in {"answered", "cached"}
      BY <1>0, <2>2 DEF Ended, NewRequest, Request
    <3> QED
      BY <1>1, <1>9, <3>1 DEF Rank, WriteMappings
  <2> QED
    BY <1>9, <2>1, <2>2 DEF WriteMappings
<1>10. CASE ReadCache(r)
  <2>1. PICK usable \in SUBSET Kinds, calls \in [Calls -> {"running", "off"}] :
          req' = [req EXCEPT ![r].pc = "fetch", ![r].refresh = FALSE,
                             ![r].fallback = usable, ![r].call = calls]
    BY <1>10 DEF ReadCache
  <2>2. req[r].pc = "cached"
    BY <1>10 DEF ReadCache
  <2>3. req'[r] = [req[r] EXCEPT !.pc = "fetch", !.refresh = FALSE,
                                 !.fallback = usable, !.call = calls]
    BY <1>0, <2>1
  <2>4. req'[r].pc = "fetch"
    BY <1>0, <2>3 DEF Request
  <2> QED
    BY <1>1, <2>2, <2>4 DEF Rank
<1>11. ASSUME NEW k \in Kinds, TakeResult(r, k) PROVE Left(req'[r]) < Left(req[r])
  <2>1. CASE End(r, "failed")
    BY <1>2, <1>11, <2>1 DEF TakeResult
  <2>2. CASE req' = [req EXCEPT ![r].call[k] = "off", ![r].fallback = @ \ {k}]
    <3>1. req[r].pc = "fetch" /\ req[r].call[k] \in {"ok", "failed"}
      BY <1>11 DEF TakeResult, Finished
    <3>2. /\ req'[r].pc = req[r].pc
          /\ req'[r].call[k] = "off"
          /\ \A d \in Calls : d # k => /\ req'[r].call[d] = req[r].call[d]
                                       /\ req'[r].tries[d] = req[r].tries[d]
      BY <1>0, <2>2 DEF Request
    <3>3. Weight(req'[r], k) < Weight(req[r], k)
      BY <3>1, <3>2 DEF Weight
    <3> QED
      BY <1>0, <3>2, <3>3, CallDrops
  <2> QED
    BY <1>11, <2>1, <2>2 DEF TakeResult
<1>12. CASE Answer(r)
  BY <1>2, <1>12 DEF Answer
<1> QED
  BY <1>3, <1>4, <1>5, <1>6, <1>7, <1>8, <1>9, <1>10, <1>11, <1>12 DEF Step

\* A step of one request leaves the others alone, but for what they missed.
LEMMA OthersUntouched ==
  ASSUME IInv, NEW r \in Requests, Begin(r) \/ Step(r), NEW p \in Requests, p # r
  PROVE  req'[p] = [req[p] EXCEPT !.missed = req'[p].missed]
<1>0. req \in [Requests -> Request] /\ req[p] \in Request
  BY TypeByRequest DEF IInv
<1>1. CASE req'[p] = req[p]
  BY <1>0, <1>1 DEF Request
<1>2. CASE \E m \in SUBSET Issuers : req'[p] = [req[p] EXCEPT !.missed = m]
  BY <1>0, <1>2 DEF Request
<1>3. CASE WriteMappings(r)
  <2> DEFINE changed == {i \in Issuers : NewFile(r)[i] # mappings[i]}
  <2>1. changed \in SUBSET Issuers
    OBVIOUS
  <2>2. \/ req'[p] = req[p]
        \/ req'[p] = [req[p] EXCEPT !.missed = @ \union changed]
    BY <1>0, <1>3 DEF WriteMappings, End
  <2> HIDE DEF changed
  <2>3. req[p].missed \union changed \in SUBSET Issuers
    BY <1>0, <2>1 DEF Request
  <2> QED
    BY <1>1, <1>2, <2>2, <2>3
<1>4. CASE ~WriteMappings(r)
  <2>1. req'[p] = req[p]
    BY <1>0, <1>4 DEF Step, Begin, FindMapping, StartLookup, SearchName, Suggest,
       ReadMappings, ReadCache, Answer, Attempt, TakeResult, End
  <2> QED
    BY <1>1, <2>1
<1> QED
  BY <1>3, <1>4

\* A request takes a bounded number of steps: every one of its own lowers
\* Left, a natural number, and a step of another request changes nothing but
\* what it missed.  So the retries, the searches and the fetches of one request
\* cannot go on for ever, and a request that has ended stays as it is.
THEOREM RequestsAreBounded ==
  Spec => /\ [](\A r \in Requests : Left(req[r]) \in Nat)
          /\ [][\A r \in Requests :
                  \/ Left(req'[r]) < Left(req[r])
                  \/ req'[r] = [req[r] EXCEPT !.missed = req'[r].missed]]_vars
<1>1. IInv => \A r \in Requests : Left(req[r]) \in Nat
  BY LeftType, TypeByRequest DEF IInv
<1>2. IInv /\ IInv' /\ [Next]_vars
        => [\A r \in Requests :
              \/ Left(req'[r]) < Left(req[r])
              \/ req'[r] = [req[r] EXCEPT !.missed = req'[r].missed]]_vars
  <2> SUFFICES ASSUME IInv, IInv', Next, NEW r \in Requests
               PROVE  \/ Left(req'[r]) < Left(req[r])
                      \/ req'[r] = [req[r] EXCEPT !.missed = req'[r].missed]
    OBVIOUS
  <2>1. PICK p \in Requests : Begin(p) \/ Step(p)
    BY DEF Next
  <2> QED
    BY <2>1, StepsCount, OthersUntouched
<1> QED
  BY <1>1, <1>2, InitHolds, StepKeeps, PTL DEF Spec
=============================================================================
