----------------------------- MODULE ApiQueries ------------------------------
(***************************************************************************)
(* The requests through which a browser reads the pools: their validation,  *)
(* the queries on MySQL, and the answers, while the task process goes on    *)
(* saving the rows that they read.                                          *)
(*                                                                          *)
(* api/validate, api/controllers/poolController.go, api/services/{pool,     *)
(* search,tokenList}Service.go, api/models/{pool,poolBases,poolData,token-  *)
(* List}.go, api/models/response.  A search is cut at each of its queries. *)
(* A row of poolbases is the state of its pool; its other columns, and the  *)
(* filter on lend_token_symbol, which works as the one on state, are left   *)
(* out.                                                                     *)
(***************************************************************************)
EXTENDS Integers, SequencesExt, FiniteSetsExt

CONSTANTS PoolIds, Tokens, PageSizes, MaxState

ASSUME QueriesAssumption ==
  PoolIds \subseteq Nat \ {0} /\ PageSizes \subseteq Nat /\ MaxState \in Nat

VARIABLES
  poolbases,  \* the state of each pool that has a row
  pooldata,   \* the pools that have a row, in the order of the rows' ids
  tokenInfo,  \* the tokens that have a row, in the order of the rows' ids
  pager,      \* a browser that reads a search page by page
  query,      \* the search that is being served
  answer      \* the last answer

rowVars == <<poolbases, pooldata, tokenInfo>>
queryVars == <<rowVars, pager, query, answer>>

-----------------------------------------------------------------------------
(* Validation.  What ShouldBind makes of a request: "EOF" for an empty body, *)
(* "malformed" for one it cannot decode, else the fields; 0 is how a missing *)
(* number and a number 0 both read, and neither passes "required".           *)

KnownChains == {56, 97}
ChainIds == {0, 1} \cup KnownChains
Binds == {"EOF", "malformed", "fields"}

chainError(chain) == IF chain \in KnownChains THEN "CommonSuccess" ELSE "ChainIdErr"

\* PoolBaseInfo and PoolDataInfo, TokenList and Search.  An error that is not the
\* validator's fails the type assertion, and gin answers the panic.
QueryRequest(bind, chain) ==
  CASE bind = "EOF"       -> "ParameterEmptyErr"
    [] bind = "malformed" -> "panic"
    [] bind = "fields"    -> IF chain = 0 THEN "ChainIdEmpty" ELSE chainError(chain)

TokenListRequest(bind, chain) == QueryRequest(bind, chain)
SearchRequest(bind, chain) == QueryRequest(bind, chain)

\* SetMultiSign and GetMultiSign look at the chain before the bind's error.
MultiSignRequest(bind, chain, spName) ==
  IF chain \notin KnownChains THEN "ChainIdErr"
  ELSE CASE bind = "EOF"       -> "ParameterEmptyErr"
         [] bind = "malformed" -> "panic"
         [] bind = "fields"    -> IF spName THEN "CommonSuccess" ELSE "PNameEmpty"

\* The name's code serves for the password too.
LoginRequest(bind, name, password) ==
  CASE bind = "EOF"       -> "ParameterEmptyErr"
    [] bind = "malformed" -> "panic"
    [] bind = "fields"    -> IF name /\ password THEN "CommonSuccess" ELSE "PNameEmpty"

\* What the code's message is about.
Msg(code) ==
  CASE code = "CommonSuccess"     -> "success"
    [] code = "ParameterEmptyErr" -> "parameter"
    [] code = "ChainIdEmpty"      -> "chain_id required"
    [] code = "ChainIdErr"        -> "chain_id"
    [] code = "PNameEmpty"        -> "sp_name"
    [] code = "TokenErr"          -> "token"
    [] code = "NameOrPasswordErr" -> "name or password"
    [] OTHER                      -> "server is busy"

-----------------------------------------------------------------------------
(* Queries.                                                                 *)

matching(filter) ==
  {p \in PoolIds : poolbases[p] # -1 /\ (filter = -1 \/ poolbases[p] = filter)}

ascending(ids) == CHOOSE s \in [1..Cardinality(ids) -> ids] : \A i, j \in DOMAIN s : i < j => s[i] < s[j]
descending(ids) == CHOOSE s \in [1..Cardinality(ids) -> ids] : \A i, j \in DOMAIN s : i < j => s[i] > s[j]

\* A faulty page starts one page too far on.
offsetByPage(rows, page, size) ==
  SubSeq(rows, page * size + 1, Min({Len(rows), (page + 1) * size}))

\* Limit(size).Offset((page - 1) * size): an offset that is not positive is
\* none, and a size of 0 gives no rows.
limitOffset(rows, page, size) ==
  LET offset == IF page > 1 THEN (page - 1) * size ELSE 0
  IN  SubSeq(rows, offset + 1, Min({Len(rows), offset + size}))

noRequest == [pc |-> "idle", total |-> 0]
nobody == [filter |-> -1, size |-> 0, page |-> 0, owed |-> {}, seen |-> {}, read |-> FALSE]
unanswered == [code |-> "none", msg |-> "none", rows |-> <<>>, total |-> 0]

\* A panic is answered by gin, without a body.
reply(code, rows, total) ==
  IF code = "panic" THEN [unanswered EXCEPT !.code = "panic"]
  ELSE [code |-> code, msg |-> Msg(code), rows |-> rows, total |-> total]

QueryInit ==
  /\ poolbases = [p \in PoolIds |-> -1] /\ pooldata = <<>> /\ tokenInfo = <<>>
  /\ pager = nobody /\ query = noRequest /\ answer = unanswered

\* Lists and refusals leave all but the answer alone: a browser asks for them
\* before it starts to page.
fresh == query.pc = "idle" /\ pager.page = 0

\* The rows of a chain in the order of their pools; index counts from 0.
listed(ids) == [i \in 1..Cardinality(ids) |->
                 [index |-> ascending(ids)[i] - 1, pool |-> ascending(ids)[i]]]

\* A query that fails is told as such, without rows.
listOrError(ids) == {reply("CommonSuccess", listed(ids), 0), reply("CommonErrServerErr", <<>>, 0)}

PoolBaseInfo ==
  /\ fresh
  /\ answer' \in listOrError(matching(-1))
  /\ UNCHANGED <<rowVars, pager, query>>

PoolDataInfo ==
  /\ fresh
  /\ answer' \in listOrError(ToSet(pooldata))
  /\ UNCHANGED <<rowVars, pager, query>>

\* The rows of token_info of a chain: all of them are of chain 97, or the query
\* fails.
GetTokenInfo(chain, err) ==
  IF err THEN [code |-> "CommonErrServerErr", rows |-> <<>>]
  ELSE [code |-> "CommonSuccess", rows |-> IF chain = 97 THEN tokenInfo ELSE <<>>]

tokenAnswer(bind, chain, err) ==
  LET code == TokenListRequest(bind, chain)
  IN  IF code = "CommonSuccess" THEN GetTokenInfo(chain, err)
      ELSE [code |-> code, rows |-> <<>>]

DebtTokenList ==
  /\ fresh
  /\ \E bind \in Binds, chain \in ChainIds, err \in BOOLEAN :
       LET res == tokenAnswer(bind, chain, err) IN answer' = reply(res.code, res.rows, 0)
  /\ UNCHANGED <<rowVars, pager, query>>

\* The list that wallets read has no code: whatever goes wrong, a failed query
\* included, is a chainId error.
TokenList ==
  /\ fresh
  /\ \E bind \in Binds, chain \in ChainIds, err \in BOOLEAN :
       LET res == tokenAnswer(bind, chain, err)
       IN  answer' = CASE res.code = "panic" -> reply("panic", <<>>, 0)
                       [] res.code = "CommonSuccess" ->
                            [unanswered EXCEPT !.msg = "Pledge Token List", !.rows = res.rows]
                       [] OTHER -> [unanswered EXCEPT !.msg = "chainId error"]
  /\ UNCHANGED <<rowVars, pager, query>>

\* A request is refused.
Refuse ==
  /\ fresh
  /\ \E bind \in Binds, chain \in ChainIds, first, second \in BOOLEAN :
       \E code \in {QueryRequest(bind, chain), SearchRequest(bind, chain), MultiSignRequest(bind, chain, first),
                    LoginRequest(bind, first, second)} \ {"CommonSuccess"} :
         answer' = reply(code, <<>>, 0)
  /\ UNCHANGED <<rowVars, pager, query>>

\* A query fails, and the browser may ask for the page again.  An error of the
\* count is ignored and leaves 0.
QueryFails ==
  /\ \/ query.pc = "find" /\ answer' = reply("CommonErrServerErr", <<>>, 0) /\ query' = noRequest
     \/ /\ query.pc = "idle" /\ pager.page > 0 /\ ~pager.read
        /\ query' = [pc |-> "find", total |-> 0] /\ answer' = unanswered
  /\ UNCHANGED <<rowVars, pager>>

\* A browser starts on a search, of all states (-1) or of one.
Browse(filter, size) ==
  /\ query.pc = "idle" /\ (pager.page = 0 \/ pager.read)
  /\ pager' = [nobody EXCEPT !.filter = filter, !.size = size, !.page = 1,
                             !.owed = IF filter = -1 THEN matching(filter) ELSE {}]
  /\ answer' = unanswered
  /\ UNCHANGED <<rowVars, query>>

\* A faulty search counts the pools that the rows of data are of.
CountData ==
  /\ query.pc = "idle" /\ pager.page > 0 /\ ~pager.read
  /\ query' = [pc |-> "find", total |-> Cardinality(PoolIds)]
  /\ answer' = unanswered
  /\ UNCHANGED <<rowVars, pager>>

\* Search: Pagination counts the rows that match...
CountRows ==
  /\ query.pc = "idle" /\ pager.page > 0 /\ ~pager.read
  /\ query' = [pc |-> "find", total |-> Cardinality(matching(pager.filter))]
  /\ answer' = unanswered
  /\ UNCHANGED <<rowVars, pager>>

\* ...finds a page of them, newest pool first, and adds to each the first row
\* of pooldata, whichever pool it is of.  Without any the search fails.
Pagination ==
  /\ query.pc = "find"
  /\ LET rows == limitOffset(descending(matching(pager.filter)), pager.page, pager.size)
     IN  IF rows # <<>> /\ pooldata = <<>>
         THEN answer' = reply("CommonErrServerErr", <<>>, 0) /\ UNCHANGED pager
         ELSE /\ answer' = reply("CommonSuccess",
                   [i \in DOMAIN rows |-> [index |-> Head(pooldata), pool |-> rows[i]]], query.total)
              /\ pager' = [pager EXCEPT !.seen = @ \cup ToSet(rows), !.page = @ + 1,
                                        !.read = Len(rows) < pager.size]
  /\ query' = noRequest
  /\ UNCHANGED rowVars

Search == CountRows \/ Pagination

\* The task process: a pool's first row is saved, a row is updated (states only
\* grow), a data row follows its base row.
SaveBase(p) ==
  /\ poolbases[p] < MaxState
  /\ poolbases' = [poolbases EXCEPT ![p] = @ + 1]
  /\ UNCHANGED <<pooldata, tokenInfo, pager, query, answer>>

SaveData(p) ==
  /\ poolbases[p] # -1 /\ p \notin ToSet(pooldata)
  /\ pooldata' = Append(pooldata, p)
  /\ UNCHANGED <<poolbases, tokenInfo, pager, query, answer>>

SaveToken(t) ==
  /\ t \notin ToSet(tokenInfo)
  /\ tokenInfo' = Append(tokenInfo, t)
  /\ UNCHANGED <<poolbases, pooldata, pager, query, answer>>

QueryNext ==
  \/ PoolBaseInfo \/ PoolDataInfo \/ TokenList \/ DebtTokenList \/ Refuse \/ QueryFails \/ Search
  \/ \E filter \in -1..MaxState, size \in PageSizes : Browse(filter, size)
  \/ \E p \in PoolIds : SaveBase(p) \/ SaveData(p)
  \/ \E t \in Tokens : SaveToken(t)

QuerySpec == QueryInit /\ [][QueryNext]_queryVars

-----------------------------------------------------------------------------
(* Properties.                                                              *)

\* A browser that reads an unfiltered search until a page is short has seen
\* every pool that was there when it started: pools come newest first, so rows
\* saved between two pages only push the others on (Pagination).
PagesMissNone == pager.read /\ pager.filter = -1 /\ pager.size > 0 => pager.owed \subseteq pager.seen

\* A page that the total of an unfiltered search promises is not empty: rows
\* are counted before they are found, and none goes away (CountRows).
CountIsKept ==
  [][query.pc = "find" /\ query'.pc = "idle" /\ answer'.code = "CommonSuccess" /\ pager.filter = -1
       => Len(answer'.rows) >= Min({pager.size, Max({0, query.total - (pager.page - 1) * pager.size})})]_queryVars

=============================================================================
