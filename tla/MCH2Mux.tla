------------------------------ MODULE MCH2Mux -------------------------------
(* Instances of H2Mux: which frames the peer sends in a run.                 *)
EXTENDS H2Mux

Block(kind, length) == [kind |-> kind, length |-> length]

HeadersOf(ids, blocks, ends, completes) ==
    [typ : {"HEADERS"}, id : ids, block : blocks, end_stream : ends,
     end_headers : completes]

ContinuationOf(ids, blocks, completes) ==
    [typ : {"CONTINUATION"}, id : ids, block : blocks, end_headers : completes]

DataOf(ids, sizes, ends) ==
    {[typ |-> "DATA", id |-> i, len |-> p[1], payload |-> p[2], end_stream |-> e] :
        i \in ids, p \in sizes, e \in ends}

RstOf(ids, codes) == [typ : {"RST_STREAM"}, id : ids, code : codes]

WindowUpdateOf(ids, increments) ==
    [typ : {"WINDOW_UPDATE"}, id : ids, increment : increments]

SettingsOf(windows, limits) ==
    [typ : {"SETTINGS"}, id : {0}, initial_window_size : windows,
     max_concurrent_streams : limits]

GoawayOf(lasts) == [typ : {"GOAWAY"}, id : {0}, last : lasts]

OtherOf(types) == [typ : types, id : {0}]

Head0 == Block("head", NoLength)

\* Request bodies against every way the windows may move.
FlowFrames ==
    WindowUpdateOf({0, 1, 3}, {2}) \cup SettingsOf({0, 3}, {Unlimited})
        \cup HeadersOf({1, 3}, {Head0}, {TRUE}, {TRUE}) \cup RstOf({1}, {"other"})

\* Every way a response may go, on two streams.
ResponseFrames ==
    HeadersOf({1, 3}, {Head0, Block("head", 1), Block("interim", NoLength),
                       Block("trailers", NoLength), Block("malformed", NoLength)},
              BOOLEAN, {TRUE})
        \cup HeadersOf({1}, {Head0}, BOOLEAN, {FALSE})
        \cup ContinuationOf({1}, {Head0}, BOOLEAN)
        \cup DataOf({1, 3}, {<< 0, 0 >>, << 1, 1 >>, << 2, 1 >>}, BOOLEAN)
        \cup RstOf({1, 3}, {"no_error", "refused"})

\* The batch under concurrency limits, GOAWAY and resets.
BatchFrames ==
    SettingsOf({PeerWindow}, {0, 1}) \cup GoawayOf({0, 1, 5})
        \cup HeadersOf(StreamIds, {Head0}, {TRUE}, {TRUE})
        \cup RstOf(StreamIds, {"refused"}) \cup WindowUpdateOf({0}, {2})
        \cup OtherOf({"PING", "IGNORED", "ILLEGAL"})

\* One request after the other on one connection.
SingleFrames ==
    WindowUpdateOf({0, 1}, {2}) \cup SettingsOf({0, 3}, {1}) \cup GoawayOf({1})
        \cup HeadersOf({1, 3}, {Head0, Block("malformed", NoLength)}, BOOLEAN, {TRUE})
        \cup DataOf({3}, {<< 1, 1 >>}, {TRUE}) \cup RstOf({1}, {"no_error"})

MCScenes == {"flow", "response", "batch", "single"}
MCFrames == [flow |-> FlowFrames, response |-> ResponseFrames, batch |-> BatchFrames, single |-> SingleFrames]
MCBodies == [flow |-> << 3, 2 >>, response |-> << 3, 0 >>, batch |-> << 3, 0, 1 >>, single |-> << 3, 1 >>]
MCLimits == [flow |-> {Unlimited}, response |-> {Unlimited}, batch |-> {1, 2, Unlimited}, single |-> {0, 1}]

=============================================================================
