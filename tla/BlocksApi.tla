------------------------------ MODULE BlocksApi ------------------------------
(***************************************************************************)
(* lib/api/blocks.js: the requests behind the block pages, and the pages   *)
(* of the list of blocks.                                                  *)
(***************************************************************************)
EXTENDS ApiFlows, Integers

\* getBlockHeight: what comes next gets the height.
GetBlockHeight(next) == Needs(next)

\* Mutant: nobody hears of a height without a block.
GetBlockByHeight_Silent(next) == [Needs(next) EXCEPT !["fail"] = Crash, !["empty"] = Hang]

\* getBlockByHeight reads response before it looks at err.
GetBlockByHeight(next) == [Needs(next) EXCEPT !["fail"] = Crash]

\* getDelegateCall: its callers ignore the error, the block has no delegate then.
GetDelegateCall == Always(Done)

\* getLastBlocks: the height, a page of blocks, and the forger of each at once.
GetLastBlocks(forgers) ==
    Flow({"height"},
         Overlay([height |-> GetBlockHeight(Ask({"blocks"})),
                  blocks |-> [Needs(Ask(forgers)) EXCEPT !["empty"] = Done]],
                 [f \in forgers |-> GetDelegateCall]))

\* The two parts of Block that getBlock and getHeight share.
BlockCall == [block  |-> Needs(Ask({"forger"})), forger |-> GetDelegateCall]

\* getBlock: the height, the block, its forger.
GetBlock == Flow({"height"}, Overlay([height |-> GetBlockHeight(Ask({"block"}))], BlockCall))

\* getHeight: the id of the block at that height, the block, its forger.
GetHeight == Flow({"blockAt"}, Overlay([blockAt |-> GetBlockByHeight(Ask({"block"}))], BlockCall))

\* getBlockStatus: both at once, and each of them calls the error function itself.
GetBlockStatus ==
    Flow({"status", "constants"}, [status |-> Needs(Done), constants |-> Needs(Done)])

\* The routes of api/blocks.js.
BlocksOperation(forgers) ==
    [getLastBlocks  |-> Alone(GetLastBlocks(forgers)),
     getBlock       |-> Alone(GetBlock),
     getHeight      |-> Alone(GetHeight),
     getBlockStatus |-> Alone(GetBlockStatus)]

\* makeBody: how often a block is confirmed, by the height it is given.  That of getBlock was
\* read before the block, that of getHeight is the block's own.
Confirmations(height, block) == height - block + 1

\* The n of a request without one, or with one that is no number: NaN.
NoNumber == -1

\* offset: without a number the list begins with the newest block.
Offset(n) == IF n = NoNumber THEN 0 ELSE n

\* Mutant: a page is always full.
BlocksPage_Full(height, offset, size) == [i \in 1 .. size |-> height - offset - i + 1]

\* The first blocks of a page, as blocks are listed: the highest first.
BlocksPage(height, offset, size) ==
    [i \in 1 .. (IF height - offset < 0 THEN 0
                 ELSE IF height - offset < size THEN height - offset ELSE size)
       |-> height - offset - i + 1]

\* Mutant: a last page that is not full is not counted.
TotalPages_Full(height, size) == height \div size

\* The pages there are at that height.
TotalPages(height, size) == (height + size - 1) \div size

\* pagination: the page a list that begins at n is on, and whether there is another.  It
\* takes n as it came: without a number there is no page and no other, whatever is listed.
Pagination(n, height, size) ==
    LET current == IF n = NoNumber THEN NoNumber ELSE n \div size + 1
    IN  [current |-> current,
         more |-> current # NoNumber /\ current < TotalPages(height, size)]
==============================================================================
