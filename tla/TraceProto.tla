------------------------------ MODULE TraceProto ------------------------------
(***************************************************************************)
(* The messages a process sends to the agent: traces (internal_trace.pb.go)*)
(* and logs (log.pb.go), as tables of their fields.                        *)
(***************************************************************************)
EXTENDS ProtoFields

TraceCollect_Size == KeyOf(1, One(1, Rep(Bytes)) \o One(2, Bytes))
TraceCollect_Marshal == May(One(1, Rep(Bytes)) \o One(2, Bytes))
TraceCollect_Unmarshal == May(One(1, Rep(Bytes))) \o Need(One(2, Bytes))

Trace_Process == One(6, Bytes) \o Each(7, 8, Varint) \o One(9, Bytes)
Trace_Origin == Each(64, 65, Bytes) \o One(66, Varint)
Trace_Size ==
    KeyOf(1, Each(1, 4, Bytes) \o One(5, Rep(Msg("Span"))) \o Trace_Process)
    \o KeyOf(2, Trace_Origin)
Trace_Marshal ==
    May(Each(1, 4, Bytes) \o One(5, Rep(Msg("Span"))) \o Trace_Process \o Trace_Origin)
Trace_Unmarshal_Ids == Need(Each(1, 4, Bytes))
Trace_Unmarshal_Process == May(One(5, Rep(Msg("Span"))) \o Trace_Process)
Trace_Unmarshal_Origin == May(Trace_Origin)

Span_Params == One(20, MapOf(Varint)) \o One(21, MapOf(Fixed)) \o One(22, MapOf(Bytes))
Span_Names == One(40, Bytes) \o Each(60, 62, Bytes)
\* (Fault: the keys of the parameters are counted as one byte.)
Span_Size_ShortKeys ==
    KeyOf(1, Each(1, 3, Bytes) \o Each(4, 9, Varint) \o Span_Params)
    \o KeyOf(2, Span_Names \o One(70, Rep(Msg("ErrorInfo"))))
Span_Size ==
    KeyOf(1, Each(1, 3, Bytes) \o Each(4, 9, Varint))
    \o KeyOf(2, Span_Params \o Span_Names \o One(70, Rep(Msg("ErrorInfo"))))
Span_Marshal ==
    May(Each(1, 3, Bytes) \o Each(4, 9, Varint) \o Span_Params \o Span_Names
            \o One(70, Rep(Msg("ErrorInfo"))))
Span_Unmarshal_Ids == Need(Each(1, 3, Bytes))
Span_Unmarshal_Times == Need(Each(4, 9, Varint))
Span_Unmarshal_ParamInt == May(One(20, MapOf(Varint)))
Span_Unmarshal_ParamFloat == May(One(21, MapOf(Fixed)))
Span_Unmarshal_ParamString == May(One(22, MapOf(Bytes)))
Span_Unmarshal_Names == May(Span_Names)
Span_Unmarshal_Errors == May(One(70, Rep(Msg("ErrorInfo"))))

ErrorInfo_Fields == One(1, Varint) \o One(2, Bytes) \o One(3, Rep(Bytes)) \o One(4, Varint)
ErrorInfo_Size == KeyOf(1, ErrorInfo_Fields) \o KeyOf(2, One(256, MapOf(Bytes)))
ErrorInfo_Marshal == May(ErrorInfo_Fields \o One(256, MapOf(Bytes)))
ErrorInfo_Unmarshal_Fields == May(ErrorInfo_Fields)
ErrorInfo_Unmarshal_Labels == May(One(256, MapOf(Bytes)))

Log_Fields == One(7, Bytes) \o One(8, Varint) \o Each(9, 13, Bytes)
Log_Size == KeyOf(1, One(1, Data) \o One(2, Varint) \o One(3, Bytes) \o Log_Fields)
Log_Marshal == May(One(1, Data) \o One(2, Varint) \o One(3, Bytes) \o Log_Fields)
Log_Unmarshal_Required == Need(One(1, Data) \o One(2, Varint) \o One(3, Bytes))
Log_Unmarshal_Place == May(One(7, Bytes) \o One(8, Varint))
Log_Unmarshal_Names == May(Each(9, 13, Bytes))
-----------------------------------------------------------------------------
TraceSizes ==
    [TraceCollect |-> TraceCollect_Size, Trace |-> Trace_Size, Span |-> Span_Size,
     ErrorInfo |-> ErrorInfo_Size, Log |-> Log_Size]

TraceMarshals ==
    [TraceCollect |-> TraceCollect_Marshal, Trace |-> Trace_Marshal, Span |-> Span_Marshal,
     ErrorInfo |-> ErrorInfo_Marshal, Log |-> Log_Marshal]

TraceUnmarshals ==
    [TraceCollect |-> TraceCollect_Unmarshal,
     Trace |-> Trace_Unmarshal_Ids \o Trace_Unmarshal_Process \o Trace_Unmarshal_Origin,
     Span |-> Span_Unmarshal_Ids \o Span_Unmarshal_Times \o Span_Unmarshal_ParamInt
                  \o Span_Unmarshal_ParamFloat \o Span_Unmarshal_ParamString
                  \o Span_Unmarshal_Names \o Span_Unmarshal_Errors,
     ErrorInfo |-> ErrorInfo_Unmarshal_Fields \o ErrorInfo_Unmarshal_Labels,
     Log |-> Log_Unmarshal_Required \o Log_Unmarshal_Place \o Log_Unmarshal_Names]
=============================================================================
