----------------------------- MODULE DHTCrawler -----------------------------
(***************************************************************************)
(* SimpleDHTCrawler.crawl (aiotorrent/DHTv4.py): one loop that takes nodes *)
(* from a queue, and one task for each node that asks it for peers. The    *)
(* queue and the set of peers belong to the class: an earlier crawl of the *)
(* process may have left something in them.                                *)
(*                                                                         *)
(* Nodes are told apart by nothing but what they answer, so that the queue *)
(* and the tasks are counted. Nodes and the network are external: a query  *)
(* is answered once or never, before or after its timeout.                 *)
(***************************************************************************)
EXTENDS Naturals, FiniteSets

CONSTANTS
  DHTPeers,         (* addresses of peers                                  *)
  MinPeers,         (* min_peers_to_retrieve                               *)
  MaxConnections,   (* max_connections                                     *)
  Bootstrap,        (* the number of bootstrap_nodes                       *)
  Leftovers,        (* bound: the nodes and peers an earlier crawl may     *)
                    (* have left, as pairs                                 *)
  NodeBudget        (* bound: nodes that nodes tell of in all              *)

ASSUME CrawlerAssumption ==
  /\ MinPeers \in Nat /\ MaxConnections \in Nat \ {0} /\ Bootstrap \in Nat
  /\ Leftovers \subseteq Nat \X SUBSET DHTPeers /\ NodeBudget \in Nat
  /\ IsFiniteSet(DHTPeers)

VARIABLES
  crawler,      (* where crawl is                                          *)
  nodes,        (* _nodes_to_crawl.qsize()                                 *)
  foundPeers,   (* FOUND_PEERS                                             *)
  permits,      (* the semaphore                                           *)
  queries,      (* how many tasks of send_get_peers_req are at each place  *)
  told          (* nodes told of                                           *)

crawlVars == <<crawler, nodes, foundPeers, permits, queries, told>>

(* A query is created, waits for its answer, is answered with the task yet *)
(* to run. It is late when the task has timed out and left its transport   *)
(* open, which the node may still answer to.                               *)
Places == {"created", "waiting", "answered", "late"}

CrawlTypeOK ==
  /\ crawler \in {"none", "check", "acquire", "asleep", "over"}
  /\ nodes \in Nat /\ told \in 0 .. NodeBudget
  /\ foundPeers \in SUBSET DHTPeers
  /\ permits \in 0 .. MaxConnections
  /\ queries \in [Places -> Nat]

CrawlInit ==
  /\ crawler = "none" /\ told = 0
  /\ \E l \in Leftovers : nodes = l[1] /\ foundPeers = l[2]
  /\ permits = MaxConnections
  /\ queries = [p \in Places |-> 0]

-----------------------------------------------------------------------------
(* The constructor puts the bootstrap nodes in the queue.                  *)
StartCrawl ==
  /\ crawler = "none"
  /\ crawler' = "check" /\ nodes' = nodes + Bootstrap
  /\ UNCHANGED <<foundPeers, permits, queries, told>>

Enough == Cardinality(foundPeers) >= MinPeers

(* The loop ends with enough peers, or with an empty queue.                *)
EndCrawl ==
  /\ crawler = "check" /\ (Enough \/ nodes = 0)
  /\ crawler' = "over"
  /\ UNCHANGED <<nodes, foundPeers, permits, queries, told>>

(* Neither acquire nor get suspends when there is something to be had.     *)
Ask ==
  /\ permits > 0 /\ nodes > 0
  /\ permits' = permits - 1 /\ nodes' = nodes - 1
  /\ queries' = [queries EXCEPT !["created"] = @ + 1]
  /\ crawler' = "asleep"
  /\ UNCHANGED <<foundPeers, told>>

AskNext == crawler = "check" /\ ~Enough /\ Ask

(* All permits are taken: acquire suspends the loop, which does not look   *)
(* at the peers again before it asks the next node.                        *)
AwaitPermit ==
  /\ crawler = "check" /\ ~Enough /\ nodes > 0 /\ permits = 0
  /\ crawler' = "acquire"
  /\ UNCHANGED <<nodes, foundPeers, permits, queries, told>>

AskWithPermit == crawler = "acquire" /\ Ask

(* sleep(0.5)                                                              *)
EndPause ==
  /\ crawler = "asleep" /\ crawler' = "check"
  /\ UNCHANGED <<nodes, foundPeers, permits, queries, told>>

(* The loop up to its end, which goes back to the caller.                  *)
Crawl == AskNext \/ AwaitPermit \/ AskWithPermit \/ EndPause

-----------------------------------------------------------------------------
Move(from, to) ==
  /\ queries[from] > 0
  /\ queries' = [queries EXCEPT ![from] = @ - 1, ![to] = @ + 1]
Leave(from) ==
  /\ queries[from] > 0
  /\ queries' = [queries EXCEPT ![from] = @ - 1]

(* send_get_peers_req opens an endpoint and waits, ...                     *)
SendQuery ==
  /\ Move("created", "waiting")
  /\ UNCHANGED <<crawler, nodes, foundPeers, permits, told>>

(* ... or fails to open it, ...                                            *)
SendQueryFails ==
  /\ Leave("created") /\ permits' = permits + 1
  /\ UNCHANGED <<crawler, nodes, foundPeers, told>>

(* ... is resumed by an answer or an error, ...                            *)
ResumeQuery ==
  /\ Leave("answered") /\ permits' = permits + 1
  /\ UNCHANGED <<crawler, nodes, foundPeers, told>>

(* Mutant: a query that timed out keeps its permit.                        *)
QueryTimesOutUnreleased ==
  /\ Move("waiting", "late")
  /\ UNCHANGED <<crawler, nodes, foundPeers, permits, told>>

(* ... or times out after five seconds. finally releases the permit.       *)
QueryTimesOut ==
  /\ Move("waiting", "late") /\ permits' = permits + 1
  /\ UNCHANGED <<crawler, nodes, foundPeers, told>>

Query == SendQuery \/ SendQueryFails \/ ResumeQuery \/ QueryTimesOut

(* on_response: the peers and the nodes of the answer. One that cannot be  *)
(* decoded has none; parse_response never raises, by its finally.          *)
Answer ==
  /\ \E peers \in SUBSET DHTPeers : foundPeers' = foundPeers \cup peers
  /\ \E n \in 0 .. NodeBudget - told : nodes' = nodes + n /\ told' = told + n

(* An answer, or an error of the endpoint, closes the transport and has    *)
(* the task resumed; ...                                                   *)
QueryAnswered ==
  /\ Move("waiting", "answered") /\ Answer
  /\ UNCHANGED <<crawler, permits>>

(* Mutant: whatever answer arrives releases a permit.                      *)
QueryAnsweredLateReleases ==
  /\ Leave("late") /\ Answer /\ permits' = permits + 1
  /\ UNCHANGED crawler

(* ... a late one is taken all the same, crawl over or not.                *)
QueryAnsweredLate ==
  /\ Leave("late") /\ Answer
  /\ UNCHANGED <<crawler, permits>>

Answers == QueryAnswered \/ QueryAnsweredLate

-----------------------------------------------------------------------------
(* However queries end, each one has a permit until its task ends, and no  *)
(* more than max_connections of them wait for answers at a time.           *)
QueriesAccounted ==
  permits + queries["created"] + queries["waiting"] + queries["answered"] = MaxConnections
=============================================================================
