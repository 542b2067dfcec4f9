----------------------------- MODULE ProfileProto -----------------------------
(***************************************************************************)
(* The messages of the profiler (profile.pb.go), as tables of their        *)
(* fields. A DataWrapper holds one file of a profile: its data is a []byte *)
(* that MarshalTo leaves out when it is nil and Unmarshal requires.        *)
(***************************************************************************)
EXTENDS ProtoFields

ProfileInfo_Size ==
    KeyOf(1, One(1, Ptr("UploadInfo"))) \o KeyOf(2, One(100, Data) \o One(101, Rep(Bytes)))
ProfileInfo_Marshal ==
    Need(One(1, Ptr("UploadInfo"))) \o May(One(100, Data) \o One(101, Rep(Bytes)))
ProfileInfo_Unmarshal ==
    Need(One(1, Ptr("UploadInfo")) \o One(100, Data)) \o May(One(101, Rep(Bytes)))

DataWrapper_Size == KeyOf(1, One(1, Data) \o Each(2, 3, Bytes))
DataWrapper_Marshal == May(One(1, Data) \o Each(2, 3, Bytes))
DataWrapper_Unmarshal == Need(One(1, Data) \o Each(2, 3, Bytes))

UploadInfo_Ids == One(1, Bytes) \o One(2, Varint) \o One(3, Bytes)
UploadInfo_Names == Each(4, 9, Bytes)
UploadInfo_Times == Each(10, 12, Varint) \o One(13, Bytes)
UploadInfo_Limits == One(34, Bytes) \o One(35, Varint) \o Each(50, 51, Fixed)
UploadInfo_Size ==
    KeyOf(1, UploadInfo_Ids \o UploadInfo_Names \o UploadInfo_Times \o One(14, Bytes))
    \o KeyOf(2, UploadInfo_Limits)
UploadInfo_Marshal ==
    May(UploadInfo_Ids \o UploadInfo_Names \o UploadInfo_Times \o One(14, Bytes)
            \o UploadInfo_Limits)
UploadInfo_Unmarshal_Ids == Need(UploadInfo_Ids)
UploadInfo_Unmarshal_Names == May(UploadInfo_Names)
UploadInfo_Unmarshal_Times == Need(UploadInfo_Times)
UploadInfo_Unmarshal_Limits == May(One(14, Bytes) \o UploadInfo_Limits)
-----------------------------------------------------------------------------
ProfileSizes ==
    [ProfileInfo |-> ProfileInfo_Size, DataWrapper |-> DataWrapper_Size,
     UploadInfo |-> UploadInfo_Size]

ProfileMarshals ==
    [ProfileInfo |-> ProfileInfo_Marshal, DataWrapper |-> DataWrapper_Marshal,
     UploadInfo |-> UploadInfo_Marshal]

ProfileUnmarshals ==
    [ProfileInfo |-> ProfileInfo_Unmarshal, DataWrapper |-> DataWrapper_Unmarshal,
     UploadInfo |-> UploadInfo_Unmarshal_Ids \o UploadInfo_Unmarshal_Names
                        \o UploadInfo_Unmarshal_Times \o UploadInfo_Unmarshal_Limits]
=============================================================================
