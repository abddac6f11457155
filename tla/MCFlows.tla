-------------------------------- MODULE MCFlows --------------------------------
(* Model-checking instance of four flows of requests and answers that share no
   state: the front end's job store, its history page, a streamed answer and the
   pipeline of agents.  A behaviour is one of the flow that flow names; the others
   stay where they begin.                                                        *)
EXTENDS JobStore

CONSTANTS claude, openai, mock, Keyed, Mock, MarkFinish, MAX_PIECES
CONSTANTS Names, Codes, Blank, MAX_TESTS
CONSTANTS Pages, Rows, MAX_REQUESTS

VARIABLES page, items, isLoading, listError, fetches, loadingId, editor, generating,
          opens, requests
VARIABLES pc, provider, accumulated, chunks
VARIABLES state, agent, attempt, nulls, planned, tests, review, history, response
VARIABLE flow

historyPage == <<page, items, isLoading, listError, fetches, loadingId, editor, generating,
                 opens, requests>>
stream == <<pc, provider, accumulated, chunks>>
agents == <<state, agent, attempt, nulls, planned, tests, review, history, response>>
flows == <<flow, vars, historyPage, stream, agents>>

Page == INSTANCE HistoryStore WITH error <- listError, loads <- opens
Stream == INSTANCE ProviderStream
Agent == INSTANCE AgentPipeline

ASSUME FlowsAssumption ==
    /\ Page!HistoryAssumption
    /\ Stream!ProviderStreamAssumption
    /\ Agent!PipelineAssumption

FlowsInit ==
    /\ flow \in {"job store", "history page", "stream", "agents"}
    /\ Init /\ Page!Init /\ Stream!Init /\ Agent!Init

Of(name, others) == flow = name /\ UNCHANGED <<flow, others>>

FlowsNext ==
    \/ Next /\ Of("job store", <<historyPage, stream, agents>>)
    \/ Page!Next /\ Of("history page", <<vars, stream, agents>>)
    \/ Stream!Next /\ Of("stream", <<vars, historyPage, agents>>)
    \/ Agent!Next /\ Of("agents", <<vars, historyPage, stream>>)

\* The fairness of each flow, for the flow that runs.
FlowsSpec ==
    /\ FlowsInit /\ [][FlowsNext]_flows
    /\ \A j \in Submissions :
         /\ WF_flows(Answers(j) /\ Of("job store", <<historyPage, stream, agents>>))
         /\ WF_flows(Timer(j) /\ Of("job store", <<historyPage, stream, agents>>))
    /\ WF_flows(Stream!Advance /\ Of("stream", <<vars, historyPage, agents>>))
    /\ WF_flows(Agent!Advance /\ Of("agents", <<vars, historyPage, stream>>))

(* History page: the rows on show are those of the page it says it is on. *)
RowsAreOfThePage == Page!RowsAreOfThePage

(* Stream: who collects the stream has the text of one generation, not of two. *)
CollectsOneAnswer == Stream!CollectsOneAnswer

(* Stream: text that was delivered is only added to, unless the whole starts anew. *)
TextGrowsOrRestarts == Stream!TextGrowsOrRestarts

(* Agents: every test of the result is one the reviewer saw or its logged repair. *)
ResultIsAccountedFor == Agent!ResultIsAccountedFor

(* Agents: a failure is that of the agent at work, or a null that was let through. *)
FailureIsExplained == Agent!FailureIsExplained

(* The job store's spinner does not stay, a stream ends, the agents' request is
   answered: nested loops over vendors, attempts and polls have an end.          *)
EverythingEnds ==
    /\ ComesToRest
    /\ flow = "stream" => Stream!StreamEnds
    /\ flow = "agents" => Agent!EveryRequestIsAnswered

=============================================================================
