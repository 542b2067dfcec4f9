---------------------------- MODULE SettingsProto ----------------------------
(***************************************************************************)
(* The messages of the settings the agent sends to a process               *)
(* (settings.pb.go), as tables of their fields. The Trace message of this  *)
(* file is called TraceSettings.                                           *)
(***************************************************************************)
EXTENDS ProtoFields

ServiceSettings_Size == KeyOf(1, One(1, Bytes) \o One(2, Ptr("Settings")))
ServiceSettings_Marshal == May(One(1, Bytes)) \o Need(One(2, Ptr("Settings")))
ServiceSettings_Unmarshal == Need(One(1, Bytes) \o One(2, Ptr("Settings")))

Settings_Size ==
    KeyOf(1, One(1, Ptr("Db")) \o One(2, Ptr("TraceSettings"))
                 \o One(3, Ptr("BusinessError")) \o One(4, Ptr("ProfileSettings")))
    \o KeyOf(2, One(100, Rep(Msg("ServiceSettings"))))
\* (Fault: the settings of the services are not written.)
Settings_Marshal_NoServices ==
    Need(One(1, Ptr("Db")) \o One(2, Ptr("TraceSettings")))
    \o May(One(3, Ptr("BusinessError")) \o One(4, Ptr("ProfileSettings")))
Settings_Marshal ==
    Need(One(1, Ptr("Db")) \o One(2, Ptr("TraceSettings")))
    \o May(One(3, Ptr("BusinessError")) \o One(4, Ptr("ProfileSettings"))
               \o One(100, Rep(Msg("ServiceSettings"))))
Settings_Unmarshal ==
    Need(One(1, Ptr("Db")) \o One(2, Ptr("TraceSettings")))
    \o May(One(3, Ptr("BusinessError")) \o One(4, Ptr("ProfileSettings"))
               \o One(100, Rep(Msg("ServiceSettings"))))

Db_Size == KeyOf(1, One(1, Varint))
Db_Marshal == May(One(1, Varint))
Db_Unmarshal == Need(One(1, Varint))

TraceSettings_Size ==
    KeyOf(1, One(1, Ptr("TraceSample")) \o One(2, Rep(Msg("TraceCustomInstrument"))))
TraceSettings_Marshal ==
    Need(One(1, Ptr("TraceSample"))) \o May(One(2, Rep(Msg("TraceCustomInstrument"))))
TraceSettings_Unmarshal ==
    Need(One(1, Ptr("TraceSample"))) \o May(One(2, Rep(Msg("TraceCustomInstrument"))))

BusinessError_Size ==
    KeyOf(1, One(1, Rep(Varint)) \o One(2, Rep(Bytes)) \o One(3, Ptr("CrashClazz")))
BusinessError_Marshal ==
    May(One(1, Rep(Varint)) \o One(2, Rep(Bytes)) \o One(3, Ptr("CrashClazz")))
BusinessError_Unmarshal ==
    May(One(1, Rep(Varint)) \o One(2, Rep(Bytes)) \o One(3, Ptr("CrashClazz")))

CrashClazz_Size == KeyOf(1, One(1, Rep(Bytes)) \o One(2, Bytes))
CrashClazz_Marshal == May(One(1, Rep(Bytes)) \o One(2, Bytes))
CrashClazz_Unmarshal == May(One(1, Rep(Bytes))) \o Need(One(2, Bytes))

ProfileSettings_Size == KeyOf(1, One(1, Rep(Msg("Profile"))))
ProfileSettings_Marshal == May(One(1, Rep(Msg("Profile"))))
ProfileSettings_Unmarshal == May(One(1, Rep(Msg("Profile"))))

Profile_Ids == One(1, Bytes) \o One(2, Varint) \o One(3, Bytes) \o Each(4, 5, Varint)
Profile_Options == One(10, Varint) \o Each(11, 12, Rep(Bytes)) \o One(13, Varint)
Profile_Lists ==
    One(14, Rep(Msg("TriggerCondition"))) \o One(15, Rep(Msg("ProfileTypeConfig")))
Profile_Size == KeyOf(1, Profile_Ids \o Profile_Options \o Profile_Lists)
Profile_Marshal == May(Profile_Ids \o Profile_Options \o Profile_Lists)
Profile_Unmarshal_Ids == Need(Profile_Ids)
Profile_Unmarshal_Options == May(Profile_Options)
Profile_Unmarshal_Lists == May(Profile_Lists)

TraceSample_Size == KeyOf(1, One(1, Varint) \o One(2, Fixed))
TraceSample_Marshal == May(One(1, Varint) \o One(2, Fixed))
TraceSample_Unmarshal == Need(One(1, Varint)) \o May(One(2, Fixed))

TraceCustomInstrument_Fields ==
    One(1, Bytes) \o One(2, Rep(Bytes)) \o Each(3, 5, Bool)
    \o One(6, Rep(Bytes)) \o One(7, Varint)
TraceCustomInstrument_Size == KeyOf(1, TraceCustomInstrument_Fields)
TraceCustomInstrument_Marshal == May(TraceCustomInstrument_Fields)
TraceCustomInstrument_Unmarshal_Names == Need(One(1, Bytes)) \o May(One(2, Rep(Bytes)))
TraceCustomInstrument_Unmarshal_Rest ==
    Need(Each(3, 5, Bool)) \o May(One(6, Rep(Bytes))) \o Need(One(7, Varint))

TriggerCondition_Size == KeyOf(1, Each(1, 4, Bytes) \o One(5, Fixed) \o One(6, Bytes))
TriggerCondition_Marshal == May(Each(1, 4, Bytes) \o One(5, Fixed) \o One(6, Bytes))
TriggerCondition_Unmarshal_Names == Need(Each(1, 4, Bytes))
TriggerCondition_Unmarshal_Rest == Need(One(5, Fixed) \o One(6, Bytes))

ProfileTypeConfig_Size == KeyOf(1, One(1, Bytes) \o One(2, Varint) \o One(3, Bool))
ProfileTypeConfig_Marshal == May(One(1, Bytes) \o One(2, Varint) \o One(3, Bool))
ProfileTypeConfig_Unmarshal == Need(One(1, Bytes)) \o May(One(2, Varint) \o One(3, Bool))
-----------------------------------------------------------------------------
SettingsSizes ==
    [ServiceSettings |-> ServiceSettings_Size, Settings |-> Settings_Size, Db |-> Db_Size,
     TraceSettings |-> TraceSettings_Size, BusinessError |-> BusinessError_Size,
     CrashClazz |-> CrashClazz_Size, ProfileSettings |-> ProfileSettings_Size,
     Profile |-> Profile_Size, TraceSample |-> TraceSample_Size,
     TraceCustomInstrument |-> TraceCustomInstrument_Size,
     TriggerCondition |-> TriggerCondition_Size,
     ProfileTypeConfig |-> ProfileTypeConfig_Size]

SettingsMarshals ==
    [ServiceSettings |-> ServiceSettings_Marshal, Settings |-> Settings_Marshal,
     Db |-> Db_Marshal, TraceSettings |-> TraceSettings_Marshal,
     BusinessError |-> BusinessError_Marshal, CrashClazz |-> CrashClazz_Marshal,
     ProfileSettings |-> ProfileSettings_Marshal, Profile |-> Profile_Marshal,
     TraceSample |-> TraceSample_Marshal,
     TraceCustomInstrument |-> TraceCustomInstrument_Marshal,
     TriggerCondition |-> TriggerCondition_Marshal,
     ProfileTypeConfig |-> ProfileTypeConfig_Marshal]

SettingsUnmarshals ==
    [ServiceSettings |-> ServiceSettings_Unmarshal, Settings |-> Settings_Unmarshal,
     Db |-> Db_Unmarshal, TraceSettings |-> TraceSettings_Unmarshal,
     BusinessError |-> BusinessError_Unmarshal, CrashClazz |-> CrashClazz_Unmarshal,
     ProfileSettings |-> ProfileSettings_Unmarshal,
     Profile |-> Profile_Unmarshal_Ids \o Profile_Unmarshal_Options \o Profile_Unmarshal_Lists,
     TraceSample |-> TraceSample_Unmarshal,
     TraceCustomInstrument |->
         TraceCustomInstrument_Unmarshal_Names \o TraceCustomInstrument_Unmarshal_Rest,
     TriggerCondition |-> TriggerCondition_Unmarshal_Names \o TriggerCondition_Unmarshal_Rest,
     ProfileTypeConfig |-> ProfileTypeConfig_Unmarshal]
=============================================================================
